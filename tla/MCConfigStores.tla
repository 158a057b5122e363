------------------------------ MODULE MCConfigStores ------------------------------
(* Small instances of ConfigStores for TLC. *)
EXTENDS ConfigStores, TLC
CONSTANTS profiles, secrets, tunnels

\* The order of encryptedFiles in masterkey.change, which leaves out tunnels.json.
ChangeOrder == <<profiles, secrets>>

\* The keys, and the contents a store does not start from, are interchangeable.
Symmetry == Permutations(Key) \cup Permutations(Content \ {Blank})

===============================================================================
