------------------------- MODULE MCIseTransaction -------------------------
(* One tag, one ACL and the matrix cell that refers to both, for TLC. *)
EXTENDS IseTransaction

CONSTANTS t1, sgt, acl, cell, old, new, other, foreign

\* One adapter wants all three, the other the tag only.
SortedAndTag == [t \in Txns |-> IF t = t1 THEN <<sgt, acl, cell>> ELSE <<sgt>>]
TagOnly == [t \in Txns |-> <<sgt>>]

CellRefs == [o \in Objects |-> IF o = cell THEN {sgt, acl} ELSE {}]

\* The adapters want the same, as two fabrics with one policy do.
AllNew == [t \in Txns |-> [o \in Objects |-> new]]

Present(v) == [id |-> 1, value |-> v]

\* Nothing, a tag that somebody else made, or an earlier version of everything.
EmptyForeignOrOld ==
  {[o \in Objects |-> Absent],
   [o \in Objects |-> IF o = sgt THEN Present(foreign) ELSE Absent],
   [o \in Objects |-> Present(old)]}

\* An empty server, or a tag of an earlier version.
EmptyOrOld ==
  {s \in [Objects -> {Absent, Present(old)}] :
     \A o \in Objects : s[o] # Absent => o = sgt}
=============================================================================
