------------------------------- MODULE OpLog -------------------------------
(***************************************************************************)
(* The op log of one replica: one SQLite file that several processes have  *)
(* open at once (crates/foundation: store.rs, change.rs, reducer.rs,       *)
(* schema.rs; the opening of a product's store in crates/memory, core and  *)
(* chat: store.rs).                                                        *)
(*                                                                         *)
(* A process mints ops, takes in ops of other replicas in any order and    *)
(* any number of times, and folds them into the views, each in one         *)
(* transaction.  Opening the file is several: migrate, bind_views, the     *)
(* look at the log's boundary, refold, the move of the watermark.  Of the  *)
(* views one register is kept, as the row whose op it holds: the rows of   *)
(* the views do not depend on one another.  An op's shape says which fold  *)
(* revisions can fold it.                                                  *)
(***************************************************************************)
EXTENDS Integers, Sequences, FiniteSets

CONSTANTS
  Revision,      \* the fold revision of each process that folds into the views
  Settings,      \* Settings[n]: who has the file open, what it holds and what arrives
  OldFolds,      \* the shapes a binary of before the schema's last upgrade folded
  Me,            \* this replica's site
  MaxLamport, Ceiling

VARIABLE given   \* the setting of this replica

Proc == Settings[given].procs         \* processes that have the file open
Product == Settings[given].product    \* those that fold into the views; the others, a sync pass, only carry the log
Foldable == Settings[given].foldable  \* the shapes each revision folds
Foreign == Settings[given].foreign    \* ops other replicas may send
Old == Settings[given].old            \* the rows a binary of before the schema's last upgrade has left in the file
MaxOwn == Settings[given].max_own     \* bound: ops this replica mints

ASSUME ConstantsAssumption ==
  /\ \A n \in DOMAIN Settings :
       LET s == Settings[n]
       IN  /\ s.product \subseteq s.procs /\ s.product \subseteq DOMAIN Revision /\ s.max_own \in Nat
           /\ IsFiniteSet(s.foreign) /\ s.old \in Seq(s.foreign)
           /\ \A op \in s.foreign :
                /\ op = [id |-> op.id, lamport |-> op.lamport, site |-> op.site, shape |-> op.shape, own |-> FALSE]
                /\ op.lamport \in Nat /\ op.site \in Nat
  /\ \A p \in DOMAIN Revision : Revision[p] \in Nat
  /\ Me \in Nat
  /\ MaxLamport \in Nat /\ Ceiling \in Nat /\ Ceiling < MaxLamport

\* The reserve above CLOCK_CEILING (model.rs): it outlasts the ops this replica mints and those that squat on its site.
ASSUME ReserveAssumption ==
  \A n \in DOMAIN Settings :
    LET s == Settings[n]
    IN  Ceiling + s.max_own + Cardinality({op \in s.foreign : op.site = Me}) <= MaxLamport

\* What an upgrade of the schema changes within a revision: shapes become foldable, none ceases to be.
ASSUME UpgradeAssumption ==
  \A n \in DOMAIN Settings : \A p \in Settings[n].product :
    Settings[n].old # <<>> /\ Revision[p] = 0 => OldFolds \subseteq Settings[n].foldable[Revision[p]]

VARIABLES
  log,      \* the ops, by rowid
  unique,   \* the coordinate index is UNIQUE
  view,     \* the row whose op the register holds, or None
  mark,     \* the view_watermarks row: through, rev, revThrough
  schema,   \* the view has the columns of this build
  minted,   \* ops minted so far
  panicked, \* an assertion of build_and_ingest failed
  proc      \* each process: pc, clock, what it noted while opening

vars == <<log, unique, view, mark, schema, minted, panicked, proc, given>>

None == 0
Closed == [pc |-> "closed", clock |-> 0, upgraded |-> FALSE, boundary |-> 0]

Rows == DOMAIN log
Min2(a, b) == IF a <= b THEN a ELSE b
MaxOf(S) == IF S = {} THEN 0 ELSE CHOOSE n \in S : \A k \in S : k <= n

-----------------------------------------------------------------------------
(* The fold.                                                               *)

\* (lamport, site) in the CRDT order, strictly.
Beats(op, other) == op.lamport > other.lamport \/ (op.lamport = other.lamport /\ op.site > other.site)

\* What the revision of a product process folds.
Shapes(p) == Foldable[Revision[p]]

\* folder_for: a shape the revision folds, within the bound on lamports.
Folds(shapes, op) == op.lamport <= MaxLamport /\ op.shape \in shapes

\* apply_one of a register: the row is written when it is not there or strictly beaten.
FoldOne(shapes, rows, v, n) ==
  IF Folds(shapes, rows[n]) /\ (v = None \/ Beats(rows[n], rows[v])) THEN n ELSE v

\* fold_whole_log over a view v, in (lamport, site, rowid) order: the first row of the highest coordinate, unless v is
\* not beaten by it.
FoldAll(shapes, rows, v) ==
  LET foldable == {n \in DOMAIN rows : Folds(shapes, rows[n])}
      best == {n \in foldable : \A k \in foldable : ~Beats(rows[k], rows[n])}
  IN  IF foldable = {} THEN v
      ELSE LET first == CHOOSE n \in best : \A k \in best : n <= k
           IN  IF v = None \/ Beats(rows[first], rows[v]) THEN first ELSE v

Init ==
  /\ given \in DOMAIN Settings
  /\ log = Old /\ unique = TRUE /\ view = FoldAll(OldFolds, Old, None)
  /\ mark = [through |-> Len(Old), rev |-> 0, revThrough |-> Len(Old)]
  /\ schema = (Old = <<>>)
  /\ minted = 0 /\ panicked = FALSE
  /\ proc = [p \in Proc |-> Closed]

-----------------------------------------------------------------------------
(* The log.                                                                *)

\* high_water_mark: the log's highest lamport within the bound, capped, or this replica's own highest.
HighWaterMark ==
  MaxOf({Min2(MaxOf({log[n].lamport : n \in {k \in Rows : log[k].lamport <= MaxLamport}}), Ceiling),
         MaxOf({log[n].lamport : n \in {k \in Rows : log[k].own /\ log[k].lamport <= MaxLamport}})})

Taken(lamport, site) == \E n \in Rows : log[n].lamport = lamport /\ log[n].site = site
Known(op) == \E n \in Rows : log[n].id = op.id

\* first_free_coordinate: the end of the run of taken coordinates that starts at taken, plus one.
FirstFree(taken) ==
  LET ends == {log[n].lamport : n \in {k \in Rows : /\ log[k].site = Me /\ log[k].lamport >= taken
                                                   /\ ~Taken(log[k].lamport + 1, Me)}}
  IN  (CHOOSE n \in ends : \A k \in ends : n <= k) + 1

\* coordinate_refused of a received op: one of this replica's own has the coordinate.
Refused(op) == \E n \in Rows : log[n].lamport = op.lamport /\ log[n].site = op.site /\ log[n].own

\* advance_watermark_after: revThrough moves only from the row before, and only at the revision it belongs to.
MarkAfter(p, n) ==
  [mark EXCEPT !.through = IF n > @ THEN n ELSE @,
               !.revThrough = IF mark.rev = Revision[p] /\ @ >= n - 1 /\ n > @ THEN n ELSE @]

\* The rest of ingest_in_txn once the row is in: fold and watermark, by a process bound to the views.
Insert(p, op) ==
  LET n == Len(log) + 1
      rows == Append(log, op)
  IN  /\ log' = rows
      /\ view' = IF p \in Product THEN FoldOne(Shapes(p), rows, view, n) ELSE view
      /\ mark' = IF p \in Product THEN MarkAfter(p, n) ELSE mark

\* Mutant: the clock of the handle is trusted.
RefreshClockNever(p) == proc[p].clock

\* refresh_clock, under the write lock.
RefreshClock(p) == IF HighWaterMark > proc[p].clock THEN HighWaterMark ELSE proc[p].clock

\* build_and_ingest: mint under the lock, step over a coordinate somebody holds, once.
Emit(p, shape) ==
  LET clock == RefreshClock(p)
      first == clock + 1
      lamport == IF Taken(first, Me) THEN FirstFree(first) ELSE first
  IN  /\ proc[p].pc = "open" /\ minted < MaxOwn /\ ~panicked
      /\ p \in Product
      /\ IF Taken(lamport, Me)
         THEN panicked' = TRUE /\ UNCHANGED <<log, view, mark, minted, proc>>
         ELSE /\ Insert(p, [id |-> <<Me, minted>>, lamport |-> lamport, site |-> Me, shape |-> shape, own |-> TRUE])
              /\ minted' = minted + 1
              /\ proc' = [proc EXCEPT ![p].clock = lamport]
              /\ UNCHANGED panicked
      /\ UNCHANGED <<unique, schema, given>>

\* ingest_in_txn of a received op: known, refused, or taken in, the index losing its uniqueness for a collision in its
\* origin's history.
TakesIn(op) == ~Known(op) /\ ~Refused(op)

\* The clock after a received op: never past the ceiling.
Observed(clock, op) ==
  IF op.lamport <= MaxLamport /\ Min2(op.lamport, Ceiling) > clock THEN Min2(op.lamport, Ceiling) ELSE clock

\* apply, one op: the clock first, then its own transaction.
Apply(p, op) ==
  /\ proc[p].pc = "open" /\ ~panicked
  /\ proc' = [proc EXCEPT ![p].clock = Observed(@, op)]
  /\ IF TakesIn(op)
     THEN Insert(p, op) /\ unique' = (unique /\ ~Taken(op.lamport, op.site))
     ELSE UNCHANGED <<log, view, mark, unique>>
  /\ UNCHANGED <<schema, minted, panicked, given>>

-----------------------------------------------------------------------------
(* Opening.                                                                *)

\* Store::open: whoever opens the file first brings its schema up to date, and only that process is told so
\* (migrated_from).
Open(p) ==
  /\ proc[p].pc = "closed"
  /\ schema' = TRUE
  /\ proc' = [proc EXCEPT ![p] = [pc |-> IF p \in Product THEN "bind" ELSE "open", clock |-> HighWaterMark,
                                  upgraded |-> ~schema, boundary |-> 0]]
  /\ UNCHANGED <<log, unique, view, mark, minted, panicked, given>>

\* bind_views: the revision is older, or ops were taken in that this revision did not fold.
NeedsRebuild(p) == mark.rev < Revision[p] \/ (mark.rev = Revision[p] /\ mark.revThrough < Len(log))

\* Under the write lock the decision and the rebuild are one step. Without one, force_refold goes on to the refold and
\* refold_if_behind to its look at the boundary.
BindViews(p) ==
  /\ proc[p].pc = "bind"
  /\ IF NeedsRebuild(p)
     THEN /\ view' = FoldAll(Shapes(p), log, None)
          /\ mark' = [through |-> Len(log), rev |-> Revision[p], revThrough |-> Len(log)]
          /\ proc' = [proc EXCEPT ![p].pc = "open"]
     ELSE /\ proc' = [proc EXCEPT ![p].pc = IF proc[p].upgraded THEN "refold" ELSE "look"]
          /\ UNCHANGED <<view, mark>>
  /\ UNCHANGED <<log, unique, schema, minted, panicked, given>>

\* refold_if_behind's look.
Look(p) ==
  /\ proc[p].pc = "look"
  /\ proc' = IF Len(log) > mark.through THEN [proc EXCEPT ![p].pc = "refold", ![p].boundary = Len(log)]
             ELSE [proc EXCEPT ![p].pc = "open"]
  /\ UNCHANGED <<log, unique, view, mark, schema, minted, panicked, given>>

Refold(p) ==
  /\ proc[p].pc = "refold"
  /\ view' = FoldAll(Shapes(p), log, view)
  /\ proc' = [proc EXCEPT ![p].pc = "advance"]
  /\ UNCHANGED <<log, unique, mark, schema, minted, panicked, given>>

\* Mutant: the boundary is the one of this moment.
NewBoundaryLate(p) == Len(log)

\* The boundary the watermark moves to: refold_if_behind noted it before the refold, force_refold reads it now.
NewBoundary(p) == IF proc[p].upgraded THEN Len(log) ELSE proc[p].boundary

\* advance_watermark.
Advance(p) ==
  /\ proc[p].pc = "advance"
  /\ LET n == NewBoundary(p)
     IN  mark' = [mark EXCEPT !.through = IF n > @ THEN n ELSE @,
                              !.revThrough = IF mark.rev = Revision[p] /\ n > @ THEN n ELSE @]
  /\ proc' = [proc EXCEPT ![p].pc = "open"]
  /\ UNCHANGED <<log, unique, view, schema, minted, panicked, given>>

\* A process ends, wherever it is.
Close(p) ==
  /\ proc[p].pc # "closed"
  /\ proc' = [proc EXCEPT ![p] = Closed]
  /\ UNCHANGED <<log, unique, view, mark, schema, minted, panicked, given>>

Next ==
  \E p \in Proc :
    \/ Open(p) \/ BindViews(p) \/ Look(p) \/ Refold(p) \/ Advance(p) \/ Close(p)
    \/ \E op \in Foreign : Apply(p, op)
    \/ \E shape \in UNION {Foldable[r] : r \in DOMAIN Foldable} : Emit(p, shape)

Spec == Init /\ [][Next]_vars

-----------------------------------------------------------------------------
(* Properties.                                                             *)

TypeOK ==
  /\ log \in Seq([id : {op.id : op \in Foreign} \cup ({Me} \X (0..MaxOwn)), lamport : Nat, site : Nat,
                  shape : (UNION {Foldable[r] : r \in DOMAIN Foldable}) \cup {op.shape : op \in Foreign}, own : BOOLEAN])
  /\ view \in 0..Len(log) /\ unique \in BOOLEAN /\ schema \in BOOLEAN /\ panicked \in BOOLEAN
  /\ mark.through \in 0..Len(log) /\ mark.revThrough \in 0..Len(log) /\ mark.rev \in Nat
  /\ minted \in 0..MaxOwn
  /\ \A p \in Proc : /\ proc[p].pc \in {"closed", "bind", "look", "refold", "advance", "open"}
                     /\ proc[p].clock \in Nat /\ proc[p].upgraded \in BOOLEAN /\ proc[p].boundary \in 0..Len(log)

\* Whichever process mints it, and whatever it has not seen of its siblings' writes, an op of this replica comes after
\* every op its log held (store.rs refresh_clock): no register silently keeps the older value. Only an op above the
\* ceiling, which no clock follows, may stay in front.
OwnOpsClimb ==
  \A n, k \in Rows : log[n].own /\ k < n /\ (log[k].own \/ log[k].lamport <= Ceiling) => log[k].lamport < log[n].lamport

\* "a local op on a taken coordinate, a received op on one of this replica's own" (schema.rs ensure_op_coordinate_index)
\* are refused also once the index has lost its uniqueness.
OwnCoordinates ==
  \A n, k \in Rows : log[n].own /\ k # n => log[k].lamport # log[n].lamport \/ log[k].site # log[n].site

\* "the second attempt is free by construction" (store.rs build_and_ingest): the assertion behind the jump over
\* squatted coordinates holds.
NeverPanics == ~panicked

\* Received numbers cannot freeze the replica (model.rs CLOCK_CEILING): what it writes stays within the bound and folds.
OwnOpsFold == \A n \in Rows : log[n].own => log[n].lamport <= MaxLamport

\* The fold of the whole log: no op that the shapes admit is missing or beats what the register holds. Of several ops
\* on one coordinate, which a faulty origin may send, any may be there.
IsFold(shapes, rows, v) ==
  /\ v # None => Folds(shapes, rows[v])
  /\ \A n \in DOMAIN rows : Folds(shapes, rows[n]) => v # None /\ ~Beats(rows[n], rows[v])

\* What the watermark is there for, one at a time: a sync pass beside the products, several revisions, a file of before
\* the upgrade. Two of them at once defeat it.
SameRevision == \A p, q \in Product : Revision[p] = Revision[q]
OneAtATime ==
  \/ Proc = Product /\ SameRevision
  \/ Proc = Product /\ Old = <<>>
  \/ SameRevision /\ Old = <<>>

\* Views that the watermark vouches for are the fold of the whole log (store.rs bind_views, advance_watermark): what a
\* sync pass carried in, an older revision folded, or two processes took in at once, an open product has it or the
\* next open rebuilds. Of a file of before the upgrade this is said by the process that was told of it (force_refold).
VouchedViews ==
  OneAtATime =>
    \A p \in Product :
      /\ proc[p].pc = "open" /\ mark.rev = Revision[p] /\ mark.revThrough = Len(log)
      /\ Old = <<>> \/ proc[p].upgraded
      => IsFold(Shapes(p), log, view)

\* Every mint succeeds (store.rs build_and_ingest): behind what the log held, at a coordinate of its own, within the
\* bound of what folds, and without a panic.
MintsAreSound == TypeOK /\ OwnOpsClimb /\ OwnCoordinates /\ NeverPanics /\ OwnOpsFold
=============================================================================
