----------------------------- MODULE Workspace -----------------------------
(***************************************************************************)
(* What the claim on a workspace promises (run-host §6.2, §6.6): runs work *)
(* in its tree one at a time, each at most once, and one that leaves has   *)
(* put its tree away.  Module Claims implements it.                        *)
(***************************************************************************)
CONSTANT Run

VARIABLES
  inside,  \* the runs between taking the claim and parking the tree
  left     \* the runs that have been inside and parked

Init == inside = {} /\ left = {}

Enter(r) == inside = {} /\ r \notin left /\ inside' = {r} /\ UNCHANGED left
Leave(r) == r \in inside /\ inside' = {} /\ left' = left \cup {r}

Next == \E r \in Run : Enter(r) \/ Leave(r)

Spec == Init /\ [][Next]_<<inside, left>>
=============================================================================
