------------------------------- MODULE RemoteFiles -------------------------------
(*****************************************************************************)
(* The requests of file explorers on one server: copy, move, upload, delete  *)
(* and rename (fileExplorerBackendFactory.js and the explorers of SFTP, SCP, *)
(* FTP and Samba, which do the same on their own connections).               *)
(*                                                                           *)
(* An item is a file or a folder: what it holds, part by part, 0 for a part  *)
(* that is not there.  Every content is a fresh number.  All items have one  *)
(* name; the index of a place is the suffix that avoids a duplicate, x_1_1   *)
(* being taken for x_2.  Every request has a connection of its own, which    *)
(* may break between any two steps.                                          *)
(*****************************************************************************)
EXTENDS Naturals, FiniteSets, FiniteSetsExt, Functions

CONSTANTS
  Dir,       \* directories
  Part,      \* the parts of an item; a file has one
  Request,   \* the requests that can be under way at once
  MaxOps     \* bound: how many requests there are

VARIABLES
  renames,   \* the explorer renames before it copies (FTP, Samba)
  item,      \* what is at each place
  request,   \* the requests under way
  ops,       \* how much of MaxOps is used up
  made,      \* how many contents were made
  excused    \* history: contents deleted or overwritten on purpose, or by a
             \* request whose place another one wrote to in the meantime

vars == <<renames, item, request, ops, made, excused>>

Place == Dir \X (0..MaxOps)
Empty == [p \in Part |-> 0]
Nowhere == <<"", 0>>

Idle == [kind |-> "none", at |-> "done", src |-> Nowhere, dir |-> "", dst |-> Nowhere,
         left |-> {}, touched |-> FALSE]

Requests ==
  [kind : {"none", "copy", "move", "put"},
   at : {"probe", "rename", "list", "copy", "remove", "write", "done"},
   src : Place \cup {Nowhere}, dir : Dir \cup {""}, dst : Place \cup {Nowhere},
   left : SUBSET Part, touched : BOOLEAN]

TypeOK ==
  /\ renames \in BOOLEAN
  /\ made \in Nat /\ item \in [Place -> [Part -> 0..made]]
  /\ request \in [Request -> Requests]
  /\ ops \in 0..MaxOps /\ excused \subseteq 1..made

Contents(holding) == {holding[p] : p \in Part} \ {0}
Exists(place) == item[place] # Empty

\* the contents the server starts with
Numbering ==
  CHOOSE number \in [Dir \X Part -> 1..made] : IsInjective(number)

\* Every directory holds an item; one of the parts may be missing.
Init ==
  /\ renames \in BOOLEAN
  /\ made = Cardinality(Dir) * Cardinality(Part)
  /\ \E missing \in 0..made :
       /\ item = [w \in Place |-> [p \in Part |->
                   IF w[2] # 0 \/ Numbering[<<w[1], p>>] = missing THEN 0
                   ELSE Numbering[<<w[1], p>>]]]
       /\ excused = {missing} \ {0}
  /\ request = [q \in Request |-> Idle]
  /\ ops = 0

-----------------------------------------------------------------------------
Working(q, at) == request[q].at = at

\* Request q, or the user for q = 0, writes to a place: the
\* others that read from it or have chosen it take notice.
Noted(q, place, mine) ==
  request' = [r \in Request |->
    IF r = q THEN mine
    ELSE IF place \in {request[r].src, request[r].dst}
         THEN [request[r] EXCEPT !.touched = TRUE] ELSE request[r]]

Ask(q, kind, src, dir) ==
  /\ request[q] = Idle /\ ops < MaxOps /\ ops' = ops + 1
  /\ kind # "put" => Exists(src)
  /\ request' = [request EXCEPT ![q] = [Idle EXCEPT !.kind = kind, !.at = "probe", !.src = src,
                                                    !.dir = dir]]
  /\ UNCHANGED <<renames, item, made, excused>>

Upload(q, dir)    == Ask(q, "put", Nowhere, dir)
Copy(q, src, dir) == Ask(q, "copy", src, dir)

\* A move within a directory does nothing, except by the explorers that rename.
Move(q, src, dir) == (~renames => dir # src[1]) /\ Ask(q, "move", src, dir)

\* Mutant: names are not compared.
SameName(dir, from) == <<dir, from>>

\* _avoidDuplicateName(): the first name that is free
AvoidDuplicateName(dir, from) ==
  <<dir, Min({i \in from..MaxOps : ~Exists(<<dir, i>>)})>>

Probe(q) ==
  LET from == IF request[q].src = Nowhere THEN 0 ELSE request[q].src[2] IN
  /\ Working(q, "probe")
  /\ \E i \in from..MaxOps : ~Exists(<<request[q].dir, i>>)
  /\ request' = [request EXCEPT
       ![q].dst = AvoidDuplicateName(request[q].dir, from),
       ![q].at = CASE request[q].kind = "put" -> "write"
                   [] request[q].kind = "copy" -> "list"
                   [] request[q].kind = "move" -> IF renames THEN "rename" ELSE "list"]
  /\ UNCHANGED <<renames, item, ops, made, excused>>

\* A server renames what is there to a name that is free.
CanRename(from, to) == Exists(from) /\ ~Exists(to)

Renamed(from, to) == item' = [item EXCEPT ![to] = item[from], ![from] = Empty]

TryRename(q) ==
  /\ Working(q, "rename") /\ CanRename(request[q].src, request[q].dst)
  /\ Renamed(request[q].src, request[q].dst)
  /\ Noted(q, request[q].dst, Idle)
  /\ UNCHANGED <<renames, ops, made, excused>>

\* Whatever the reason: the move falls back to copying.
RenameRefused(q) ==
  /\ Working(q, "rename")
  /\ request' = [request EXCEPT ![q].at = "list"]
  /\ UNCHANGED <<renames, item, ops, made, excused>>

\* stat() and, for a folder, list().  What a rename failed to move is copied
\* as a file, which a folder is not.
List(q) ==
  /\ Working(q, "list") /\ Exists(request[q].src)
  /\ renames /\ request[q].kind = "move" => Cardinality(Contents(item[request[q].src])) = 1
  /\ request' = [request EXCEPT ![q].at = "copy",
                                ![q].left = {p \in Part : item[request[q].src][p] # 0}]
  /\ UNCHANGED <<renames, item, ops, made, excused>>

\* What a write replaces counts as lost unless somebody else wrote there first.
Replaces(q, place, p, content) ==
  /\ item' = [item EXCEPT ![place][p] = content]
  /\ excused' = IF request[q].touched THEN excused \cup ({item[place][p]} \ {0}) ELSE excused

CopyPart(q, p) ==
  LET left == request[q].left \ {p}
      next == IF left # {} THEN [request[q] EXCEPT !.left = left]
              ELSE IF request[q].kind = "move" THEN [request[q] EXCEPT !.left = {}, !.at = "remove"]
              ELSE Idle IN
  /\ Working(q, "copy") /\ p \in request[q].left
  /\ item[request[q].src][p] # 0
  /\ Replaces(q, request[q].dst, p, item[request[q].src][p])
  /\ Noted(q, request[q].dst, next)
  /\ UNCHANGED <<renames, ops, made>>

\* delete() or rmdir(): with all that is in the folder by now
Remove(q) ==
  LET src == request[q].src IN
  /\ Working(q, "remove")
  /\ item' = [item EXCEPT ![src] = Empty]
  /\ excused' = IF request[q].touched THEN excused \cup Contents(item[src]) ELSE excused
  /\ request' = [request EXCEPT ![q] = Idle]
  /\ UNCHANGED <<renames, ops, made>>

WritePart(q, p) ==
  /\ Working(q, "write")
  /\ Replaces(q, request[q].dst, p, made + 1)
  /\ made' = made + 1
  /\ Noted(q, request[q].dst, Idle)
  /\ UNCHANGED <<renames, ops>>

\* The connection breaks, or a step is refused: what was done stays done.
Breaks(q) ==
  /\ request[q] # Idle
  /\ request' = [request EXCEPT ![q] = Idle]
  /\ UNCHANGED <<renames, item, ops, made, excused>>

-----------------------------------------------------------------------------
\* Requests of one step: the upload of a changed file, which overwrites it or
\* creates it again, delete and rename.
Single == ops < MaxOps /\ ops' = ops + 1 /\ UNCHANGED renames

Overwrite(place, p) ==
  /\ Single
  /\ item' = [item EXCEPT ![place][p] = made + 1]
  /\ made' = made + 1
  /\ excused' = excused \cup ({item[place][p]} \ {0})
  /\ Noted(0, place, Idle)

DeleteFile(place) ==
  /\ Single /\ Exists(place)
  /\ item' = [item EXCEPT ![place] = Empty]
  /\ excused' = excused \cup Contents(item[place])
  /\ UNCHANGED <<request, made>>

RenameFile(from, to) ==
  /\ Single /\ from[1] = to[1] /\ CanRename(from, to)
  /\ Renamed(from, to)
  /\ Noted(0, to, Idle)
  /\ UNCHANGED <<made, excused>>

Next ==
  \/ \E q \in Request :
       \/ \E d \in Dir : \/ Upload(q, d)
                         \/ \E w \in Place : Copy(q, w, d) \/ Move(q, w, d)
       \/ \E p \in Part : CopyPart(q, p) \/ WritePart(q, p)
       \/ Probe(q) \/ TryRename(q) \/ RenameRefused(q) \/ List(q) \/ Remove(q) \/ Breaks(q)
  \/ \E w \in Place : \/ \E p \in Part : Overwrite(w, p)
                      \/ DeleteFile(w)
                      \/ \E v \in Place : RenameFile(w, v)

Spec == Init /\ [][Next]_vars

-----------------------------------------------------------------------------
\* Whatever is copied and moved at the same time, and wherever a connection
\* breaks, every content is somewhere, unless it was deleted or overwritten on
\* purpose or two requests met at one place.
NothingLost ==
  \A c \in 1..made \ excused : \E w \in Place : c \in Contents(item[w])

\* Why: a request that nobody disturbed finds its places as it left them, and
\* what its move is going to delete is never all that there is of a content.
PlacesKnown ==
  \A q \in Request :
    /\ request[q].at # "done" => request[q].kind # "none" /\ request[q].dir \in Dir
    /\ request[q].at \notin {"probe", "done"} => request[q].dst \in Place
    /\ request[q].kind \in {"copy", "move"} => request[q].src \in Place
    /\ request[q].at \in {"list", "copy"} => request[q].kind \in {"copy", "move"}
    /\ request[q].at \in {"rename", "remove"} => request[q].kind = "move"

TargetFree ==
  \A q \in Request : ~request[q].touched =>
    /\ request[q].at \in {"rename", "list", "write"} => item[request[q].dst] = Empty
    /\ request[q].at = "copy" => \A p \in request[q].left : item[request[q].dst][p] = 0

Doomed(w, p) ==
  \E q \in Request :
    /\ request[q].kind = "move" /\ ~request[q].touched /\ request[q].src = w
    /\ \/ request[q].at = "copy" /\ p \notin request[q].left
       \/ request[q].at = "remove"

Kept ==
  \A c \in 1..made \ excused :
    \E w \in Place, p \in Part : item[w][p] = c /\ ~Doomed(w, p)

IInv == TypeOK /\ PlacesKnown /\ TargetFree /\ Kept
==============================================================================
