------------------------------ MODULE KnownHosts ------------------------------
(*****************************************************************************)
(* The known_hosts file of src-electron/services/knownHostsService.js, as    *)
(* operators on its set of lines.  A host stands for a host and a port.  A   *)
(* line names several hosts; a line the parser preserves verbatim (comment,  *)
(* hashed host, marker, malformed) names none, so it matches nothing and no  *)
(* operation removes it.                                                     *)
(*****************************************************************************)
EXTENDS FiniteSets

CONSTANTS
  Host,
  Key,        \* public host keys
  KeyTypeOf   \* the algorithm of a key

Line == [hosts: SUBSET Host, key: Key]

Preserved(line) == line.hosts = {}
Entries(file) == {line \in file : ~Preserved(line)}
SameType(k, l) == KeyTypeOf[k] = KeyTypeOf[l]

\* verify(): MATCH, CHANGED (another key of the same type) or UNKNOWN.
Verify(file, h, k) ==
  LET candidates == {l \in Entries(file) : h \in l.hosts /\ SameType(l.key, k)} IN
  IF candidates = {} THEN "UNKNOWN"
  ELSE IF \E l \in candidates : l.key = k THEN "MATCH" ELSE "CHANGED"

\* Mutant of Add: the entry it replaces is left in the file.
AddOnly(file, h, k) == file \cup {[hosts |-> {h}, key |-> k]}

\* add(): replaces every line that names the host with a key of this type,
\* whatever other hosts the line names.
Add(file, h, k) ==
  {l \in file : ~(h \in l.hosts /\ SameType(l.key, k))} \cup {[hosts |-> {h}, key |-> k]}

\* remove({host, keyType}): drops every line that names the host with this type.
Remove(file, h, k) == {l \in file : ~(h \in l.hosts /\ SameType(l.key, k))}

\* importOpenSSH(): the usable lines of another file, duplicates skipped.
ImportOpenSSH(file, other) == file \cup Entries(other)

\* The (host, key) pairs a set of lines pins.
Pins(file) == {g \in Host \X Key : \E l \in file : g[1] \in l.hosts /\ l.key = g[2]}

===============================================================================
