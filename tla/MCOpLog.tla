------------------------------ MODULE MCOpLog ------------------------------
(* What the replicas of OpLog are given. *)
EXTENDS OpLog

Received(id, lamport, site, shape) == [id |-> <<site, id>>, lamport |-> lamport, site |-> site, shape |-> shape, own |-> FALSE]

\* Revision 0 folds a and c, revision 1 folds a and b.
TwoRevisions == [r \in {0, 1} |-> IF r = 0 THEN {"a", "c"} ELSE {"a", "b"}]
OneRevision == [r \in {0} |-> {"a", "late"}]
OneShape == [r \in {0} |-> {"a"}]
ByName == [p \in {"p1", "p2", "new", "new2"} |-> IF p \in {"new", "new2"} THEN 1 ELSE 0]
OldShapes == {"a"}

\* Two ops on one coordinate of their origin's history, at the bound, and two that squat on this site above the ceiling.
Wild == {Received(10, MaxLamport, 2, "a"), Received(11, MaxLamport, 2, "a"), Received(12, Ceiling + 1, Me, "a"),
         Received(13, Ceiling + 2, Me, "a")}
Plain == {Received(10, 1, 2, "a"), Received(11, 2, 2, "c")}
PlainOp == Received(10, 1, 2, "a")
Skipped == Received(11, 2, 3, "late")

\* Two processes of one product beside wild ops; two of them beside a sync pass; an older one and two newer; two at a
\* file that a binary from before the upgrade left behind.
MCSettings ==
  [siblings |-> [procs |-> {"p1", "p2"}, product |-> {"p1", "p2"}, foldable |-> OneShape, foreign |-> Wild,
                 old |-> <<>>, max_own |-> 3],
   views |-> [procs |-> {"p1", "p2", "sync"}, product |-> {"p1", "p2"}, foldable |-> OneRevision, foreign |-> Plain,
              old |-> <<>>, max_own |-> 2],
   revisions |-> [procs |-> {"p1", "new", "new2"}, product |-> {"p1", "new", "new2"}, foldable |-> TwoRevisions,
                  foreign |-> Plain, old |-> <<>>, max_own |-> 1],
   upgraded |-> [procs |-> {"p1", "p2"}, product |-> {"p1", "p2"}, foldable |-> OneRevision,
                 foreign |-> {PlainOp, Skipped, Received(12, 2, 2, "a")}, old |-> <<Skipped, PlainOp>>, max_own |-> 1]]
=============================================================================
