------------------------------ MODULE MCTunnelService ------------------------------
(* Small instances of TunnelService for TLC. *)
EXTENDS TunnelService, TLC

\* Tunnels, entries, clients and calls are interchangeable identities.
Symmetry ==
  Permutations(Tunnel) \cup Permutations(Entry) \cup Permutations(Conn) \cup Permutations(Call)

===============================================================================
