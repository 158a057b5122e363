---------------------------------- MODULE Slots ----------------------------------
(*****************************************************************************)
(* The variables that parts share which share no state: a behaviour is one   *)
(* of one of the parts, named by "part" and chosen at the start.             *)
(*****************************************************************************)
EXTENDS Naturals

CONSTANT None  \* nothing

VARIABLES
  part,  \* the part that is checked
  v1, v2, v3, v4, v5, v6, v7, v8, v9, v10, v11, v12, v13, v14, v15, v16,
  v17, v18, v19

vars == <<part, v1, v2, v3, v4, v5, v6, v7, v8, v9, v10, v11, v12, v13, v14,
          v15, v16, v17, v18, v19>>

\* the variables a part has no use for
rest18 == <<v18, v19>>
rest16 == <<v16, v17, v18, v19>>
rest15 == <<v15, rest16>>
rest14 == <<v14, rest15>>
rest13 == <<v13, rest14>>
rest12 == <<v12, rest13>>
rest11 == <<v11, rest12>>
rest10 == <<v10, rest11>>
rest7  == <<v7, v8, v9, rest10>>
rest4  == <<v4, v5, v6, rest7>>

Zero18 == v18 = 0 /\ v19 = 0
Zero16 == v16 = 0 /\ v17 = 0 /\ v18 = 0 /\ v19 = 0
Zero15 == v15 = 0 /\ Zero16
Zero14 == v14 = 0 /\ Zero15
Zero13 == v13 = 0 /\ Zero14
Zero12 == v12 = 0 /\ Zero13
Zero11 == v11 = 0 /\ Zero12
Zero10 == v10 = 0 /\ Zero11
Zero7  == v7 = 0 /\ v8 = 0 /\ v9 = 0 /\ Zero10
Zero4  == v4 = 0 /\ v5 = 0 /\ v6 = 0 /\ Zero7
==============================================================================
