-------------------------- MODULE ServerFoldProofs --------------------------
(* Proofs about ServerFold, for any ops, builds and batches, and any number  *)
(* of deployments, crashes and snapshots.  The watermark is the promise and  *)
(* the rows are written before it, so the invariant says of every place at   *)
(* which a run may die what its rows and entries hold by then.               *)
EXTENDS ServerFold, TLAPS

\* ----------------------------------------------------------------------- types

FoldPc == {"row", "edges", "flag", "advance"}
ClearPc == {"sentinel", "clear"}
ImportPc == {"unserved", "import"}

RowType == [op : Nat, red : Nat, flag : Nat]
EdgeType == [op : Nat, idx : Nat]
LiveMark == [through : Nat, rev : Builds \cup {NoRev}, until : Nat]
SnapType == [through : Nat, red : Nat, other : Nat, rows : [Row -> RowType]]
FoldType == [pc : FoldPc, build : Builds, at : Nat, last : Nat]
ClearType == [pc : ClearPc, build : Builds, until : Nat, rows : SUBSET Row, edges : SUBSET Row]
ImportType == [pc : ImportPc, build : Builds, from : SnapType, rows : SUBSET Row, edges : SUBSET Row]
ExportType == [pc : {"tables"}, mark : LiveMark, left : SUBSET Row, rows : [Row -> RowType]]

Types ==
    /\ given \in DOMAIN Settings /\ head \in 0..Len(Target)
    /\ mark \in {NoMark} \cup LiveMark
    /\ rows \in [Row -> RowType] /\ edges \in [Row -> EdgeType]
    /\ build \in Builds
    /\ run \in {NoRun} \cup FoldType \cup ClearType \cup ImportType
    /\ export \in {NoExport} \cup ExportType
    /\ snapshot \in {NoSnapshot} \cup SnapType
    /\ seen \in Nat
    /\ spent \in [crashes : Nat, deploys : Nat, exports : Nat]

\* --------------------------------------------------------------- the invariant

SnapBound(s) == s.through <= head /\ \A r \in Row : s.rows[r].op <= head

\* Nothing is ahead of the relay.
Bounds ==
    /\ mark.through <= head /\ mark.until <= head /\ seen <= head
    /\ \A r \in Row : rows[r].op <= head /\ rows[r].flag <= head /\ edges[r].op <= head
    /\ run.pc \in FoldPc => 1 <= run.at /\ run.at <= run.last /\ run.last <= head
    /\ run.pc \in ClearPc => run.until <= head
    /\ run.pc = "sentinel" => mark.through <= run.until /\ seen <= run.until
    /\ run.pc \in ImportPc => SnapBound(run.from)
    /\ snapshot # NoSnapshot => SnapBound(snapshot)
    /\ export.pc = "tables" => export.mark.through <= head /\ \A r \in Row : export.rows[r].op <= head

\* A stream that no snapshot started is folded or refolded to what was served.
SeenInv ==
    MaxExports = 0 =>
        /\ export = NoExport /\ snapshot = NoSnapshot /\ run.pc \notin ImportPc
        /\ seen <= mark.through \/ seen <= mark.until

\* Op n shows row r every op up to position t.
Shown(n, r, t) ==
    \A k \in DOMAIN Target : k <= t /\ Target[k] = r /\ k \notin Refused => n # 0 /\ Rank[n] >= Rank[k]

Whole(t) == \A r \in Row : Shown(rows[r].op, r, t) /\ Shown(edges[r].op, r, t)
By(b) == \A r \in Row : rows[r].red \in {0, b.red} /\ edges[r].idx \in {0, b.idx}

\* A flag is never ahead of its row.
RowsInv ==
    \A r \in Row : /\ rows[r].op = 0 => rows[r] = NoRow
                   /\ rows[r].flag # 0 /\ rows[r].flag # rows[r].op => Rank[rows[r].flag] < Rank[rows[r].op]

\* No clear has begun to take entries away.
Kept == mark = NoMark \/ mark.rev # NoRev \/ run.pc \in FoldPc \cup ImportPc

\* A flag that is set says the edges were told.
EdgesInv == Kept => \A r \in Row : rows[r].op # 0 /\ rows[r].flag = rows[r].op => edges[r].op = rows[r].op

\* What the watermark promises, and what is there before the first one.
ServedInv == mark.rev # NoRev => By(mark.rev) /\ Whole(mark.through)
FirstInv == mark = NoMark => By(build)

\* A run that folds has everything before its op, and has told the edges when it comes to the flag.
FoldInv ==
    run.pc \in FoldPc =>
        /\ mark.rev \in {NoRev, run.build} /\ (mark = NoMark => run.build = build)
        /\ By(run.build) /\ Whole(run.at - 1)
        /\ run.pc # "row" => \A r \in Row : Shown(rows[r].op, r, run.at)
        /\ run.pc \in {"flag", "advance"} => \A r \in Row : Shown(edges[r].op, r, run.at)
        /\ run.pc = "flag" /\ rows[Target[run.at]].op # 0 => edges[Target[run.at]].op = rows[Target[run.at]].op
        /\ run.pc = "advance" => run.at = run.last

\* A run that clears has every item before it that is still there.
ClearInv ==
    run.pc \in ClearPc =>
        /\ mark # NoMark /\ (run.pc = "clear" => mark.rev = NoRev)
        /\ \A r \in Row : (r \notin run.rows => rows[r] = NoRow) /\ (r \notin run.edges => edges[r] = NoEdge)

\* A snapshot that names a revision is whole, and of that revision.
Good(s) ==
    s.red # 0 => \A r \in Row : /\ Shown(s.rows[r].op, r, s.through) /\ s.rows[r].red \in {0, s.red}
                                /\ s.rows[r].op = 0 => s.rows[r] = NoRow

\* A run that imports has the rows behind it as the snapshot has them, and the entries of those it has indexed.
ImportInv ==
    run.pc \in ImportPc =>
        /\ mark.rev = NoRev /\ run.from.red = run.build.red /\ Good(run.from)
        /\ run.pc = "import" => mark # NoMark
        /\ run.pc = "unserved" => run.edges = {} /\ \A r \in Row : /\ rows[r] = NoRow /\ edges[r] = NoEdge
                                                                  /\ r \notin run.rows => run.from.rows[r] = NoRow
        /\ \A r \in Row :
             /\ r \in run.rows => rows[r] = NoRow /\ edges[r] = NoEdge /\ run.from.rows[r] # NoRow /\ r \notin run.edges
             /\ r \notin run.rows => rows[r].op = run.from.rows[r].op /\ rows[r].red = run.from.rows[r].red
             /\ r \in run.edges => edges[r] = NoEdge /\ rows[r].flag = 0
             /\ r \notin run.rows \cup run.edges => edges[r].op = rows[r].op
             /\ edges[r].idx \in {0, run.build.idx}

SnapInv == snapshot # NoSnapshot => Good(snapshot)

\* An export of a served stream is not overtaken by a clear, and what it has read is what its watermark promises.
ExportInv ==
    export.pc = "tables" /\ export.mark.rev # NoRev =>
        /\ mark.rev = export.mark.rev /\ export.mark.through <= mark.through /\ run.pc \notin ClearPc
        /\ \A r \in Row : r \notin export.left =>
             /\ Shown(export.rows[r].op, r, export.mark.through) /\ export.rows[r].red \in {0, export.mark.rev.red}
             /\ export.rows[r].op = 0 => export.rows[r] = NoRow

Sane ==
    /\ RowsInv /\ EdgesInv /\ ServedInv /\ FirstInv
    /\ FoldInv /\ ClearInv /\ ImportInv /\ SnapInv /\ ExportInv

IInv == Types /\ Bounds /\ SeenInv /\ (Careful => Sane)

\* ----------------------------------------------------------------------- facts

\* The ops are numbered and ranked, and no build is the revision of nothing.
LEMMA Basics ==
    /\ Len(Target) \in Nat /\ DOMAIN Target = 1..Len(Target)
    /\ \A n \in DOMAIN Target : Target[n] \in Row /\ Rank[n] \in Nat
    /\ \A b \in Builds : b.red \in Nat \ {0} /\ b.idx \in Nat \ {0} /\ b.other \in Nat \ {0} /\ b # NoRev
    /\ NoRev.red = 0 /\ NoRev.other = 0 /\ Batch \in Nat \ {0}
<1>1. Len(Target) \in Nat /\ DOMAIN Target = 1..Len(Target) /\ Batch \in Nat \ {0}
  BY OpAssumption
<1>2. \A n \in DOMAIN Target : Target[n] \in Row /\ Rank[n] \in Nat
  BY OpAssumption DEF Row
<1>3. \A b \in Builds : b.red \in Nat \ {0} /\ b.idx \in Nat \ {0} /\ b.other \in Nat \ {0}
  BY BuildAssumption
<1>4. NoRev.red = 0 /\ NoRev.other = 0
  BY DEF NoRev
<1> QED
  BY <1>1, <1>2, <1>3, <1>4

\* The place of a run says what it carries.
LEMMA RunShape ==
  ASSUME Types
  PROVE  /\ run.pc \in FoldPc => run \in FoldType
         /\ run.pc \in ClearPc => run \in ClearType
         /\ run.pc \in ImportPc => run \in ImportType
         /\ run.pc \in FoldPc \cup ClearPc \cup ImportPc => run # NoRun
         /\ run = NoRun => run.pc \notin FoldPc \cup ClearPc \cup ImportPc
         /\ NoRun.pc = "idle"
BY DEF Types, FoldPc, ClearPc, ImportPc, FoldType, ClearType, ImportType, NoRun

\* So does that of an export.
LEMMA ExportShape ==
  ASSUME Types
  PROVE  /\ export.pc = "tables" => export \in ExportType /\ export # NoExport
         /\ export = NoExport => export.pc # "tables"
         /\ NoExport.pc # "tables"
BY DEF Types, ExportType, NoExport

\* A higher rank shows as much.
LEMMA ShownMore ==
  ASSUME NEW n, NEW m \in DOMAIN Target, NEW r, NEW t, Shown(n, r, t), m # 0,
         n # 0 => n \in DOMAIN Target /\ Rank[m] >= Rank[n]
  PROVE  Shown(m, r, t)
BY Basics DEF Shown

\* One op more.
LEMMA ShownNext ==
  ASSUME NEW n, NEW r, NEW t \in DOMAIN Target, Shown(n, r, t - 1),
         t \in Refused \/ Target[t] # r \/ (n # 0 /\ Rank[n] >= Rank[t])
  PROVE  Shown(n, r, t)
BY Basics DEF Shown

\* Fewer ops.
LEMMA ShownLess ==
  ASSUME NEW n, NEW r, NEW t \in Int, NEW u \in Int, Shown(n, r, t), u <= t
  PROVE  Shown(n, r, u)
BY Basics DEF Shown

\* What the stream is given does not change.
LEMMA Given ==
  ASSUME given' = given
  PROVE  (Careful' <=> Careful) /\ MaxExports' = MaxExports
BY DEF Careful, MaxExports

\* The parts of the invariant make it.
LEMMA Parts ==
  ASSUME given' = given, Types', Bounds', SeenInv', Careful => Sane'
  PROVE  IInv'
BY Given DEF IInv

\* What a run, a deployment or a snapshot does not touch stays as it is.
LEMMA SaneSame ==
  ASSUME Sane, UNCHANGED <<mark, rows, edges, build, run, export, snapshot>>
  PROVE  Sane'
<1>1. RowsInv' /\ EdgesInv' /\ ServedInv' /\ FirstInv'
  BY DEF Sane, RowsInv, EdgesInv, Kept, ServedInv, FirstInv, By, Whole
<1>2. FoldInv' /\ ClearInv'
  BY DEF Sane, FoldInv, ClearInv, By, Whole
<1>3. ImportInv' /\ SnapInv' /\ ExportInv'
  BY DEF Sane, ImportInv, SnapInv, Good, ExportInv
<1> QED
  BY <1>1, <1>2, <1>3 DEF Sane

\* ------------------------------------------- the relay, deployments and readers

\* The relay stores another op.
LEMMA StoreKeeps ==
  ASSUME IInv, Store
  PROVE  IInv'
<1>1. UNCHANGED <<given, mark, rows, edges, build, run, export, snapshot, seen, spent>> /\ head < Len(Target) /\ head' = head + 1
  BY DEF Store
<1>2. Types /\ Bounds /\ SeenInv /\ (Careful => Sane) /\ head \in Nat
  BY Basics DEF IInv, Types
<1>3. Types'
  BY <1>1, <1>2, Basics DEF Types
<1>4. \A n \in Int : n <= head => n <= head'
  BY <1>1, <1>2
<1>5. Bounds'
  <2>1. mark.through \in Int /\ mark.until \in Int /\ seen \in Int
    BY <1>2 DEF Types, NoMark, LiveMark
  <2>2. \A r \in Row : rows[r].op \in Int /\ rows[r].flag \in Int /\ edges[r].op \in Int
    BY <1>2 DEF Types, RowType, EdgeType
  <2>3. /\ run.pc \in FoldPc => run.last \in Int
        /\ run.pc \in ClearPc => run.until \in Int
        /\ run.pc \in ImportPc => run.from.through \in Int /\ \A r \in Row : run.from.rows[r].op \in Int
    BY <1>2, RunShape DEF FoldType, ClearType, ImportType, SnapType, RowType
  <2>4. snapshot # NoSnapshot => snapshot.through \in Int /\ \A r \in Row : snapshot.rows[r].op \in Int
    BY <1>2 DEF Types, SnapType, RowType
  <2>5. export.pc = "tables" => export.mark.through \in Int /\ \A r \in Row : export.rows[r].op \in Int
    BY <1>2, ExportShape DEF ExportType, LiveMark, RowType
  <2> QED
    BY <1>1, <1>2, <1>4, <2>1, <2>2, <2>3, <2>4, <2>5 DEF Bounds, SnapBound
<1>6. SeenInv'
  BY <1>1, <1>2, Given DEF SeenInv
<1> QED
  BY <1>1, <1>2, <1>3, <1>5, <1>6, SaneSame, Parts

\* Nothing of the stream changes.
LEMMA BoundsSame ==
  ASSUME Bounds, UNCHANGED <<head, mark, rows, edges, run, export, snapshot, seen>>
  PROVE  Bounds'
BY DEF Bounds, SnapBound

\* Another build is deployed, and not before the first batch is in.
LEMMA DeployKeeps ==
  ASSUME IInv, Deploy
  PROVE  IInv'
<1>1. UNCHANGED <<given, head, mark, rows, edges, run, export, snapshot, seen>> /\ build' \in Builds /\ (Careful => mark # NoMark)
  BY DEF Deploy
<1>2. Types /\ Bounds /\ SeenInv /\ (Careful => Sane)
  BY DEF IInv
<1>3. Types'
  <2>1. spent' \in [crashes : Nat, deploys : Nat, exports : Nat]
    BY <1>2 DEF Deploy, Spend, Types
  <2> QED
    BY <1>1, <1>2, <2>1 DEF Types
<1>4. Bounds'
  BY <1>1, <1>2, BoundsSame
<1>5. SeenInv'
  BY <1>1, <1>2, Given DEF SeenInv
<1>6. ASSUME Careful PROVE Sane'
  <2>1. RowsInv' /\ EdgesInv' /\ ServedInv' /\ FirstInv'
    BY <1>1, <1>2, <1>6 DEF Sane, RowsInv, EdgesInv, Kept, ServedInv, FirstInv, By, Whole
  <2>2. FoldInv' /\ ClearInv'
    BY <1>1, <1>2, <1>6 DEF Sane, FoldInv, ClearInv, By, Whole
  <2>3. ImportInv' /\ SnapInv' /\ ExportInv'
    BY <1>1, <1>2, <1>6 DEF Sane, ImportInv, SnapInv, Good, ExportInv
  <2> QED
    BY <2>1, <2>2, <2>3 DEF Sane
<1> QED
  BY <1>1, <1>3, <1>4, <1>5, <1>6, Parts

\* A reader is let in, or ends.
LEMMA ReadKeeps ==
  ASSUME IInv, CheckCurrent \/ ReadEnds
  PROVE  IInv'
<1>1. /\ UNCHANGED <<given, head, mark, rows, edges, build, run, export, snapshot, spent>>
      /\ seen' = seen \/ (mark.through > seen /\ seen' = mark.through)
  BY DEF CheckCurrent, ReadEnds
<1>2. Types /\ Bounds /\ SeenInv /\ (Careful => Sane)
  BY DEF IInv
<1>3. mark.through \in Int /\ seen \in Nat
  BY <1>2 DEF Types, NoMark, LiveMark
<1>4. Types'
  BY <1>1, <1>2, <1>3 DEF Types
<1>5. Bounds'
  BY <1>1, <1>2, <1>3 DEF Bounds, SnapBound
<1>6. SeenInv'
  BY <1>1, <1>2, <1>3, Given DEF SeenInv
<1> QED
  BY <1>1, <1>2, <1>4, <1>5, <1>6, SaneSame, Parts

\* ----------------------------------------------------------------- a run begins

\* Only the run changes.
RunOnly == UNCHANGED <<given, head, mark, rows, edges, build, export, snapshot, seen>>

\* A step that changes only the run has to keep what the run relies on.
LEMMA RunMoves ==
  ASSUME IInv, RunOnly, run' \in {NoRun} \cup FoldType \cup ClearType \cup ImportType,
         spent' \in [crashes : Nat, deploys : Nat, exports : Nat],
         run'.pc \in FoldPc => 1 <= run'.at /\ run'.at <= run'.last /\ run'.last <= head,
         run'.pc \in ClearPc => run'.until <= head,
         run'.pc = "sentinel" => mark.through <= run'.until /\ seen <= run'.until,
         run'.pc \in ImportPc => SnapBound(run'.from) /\ MaxExports # 0,
         Careful => EdgesInv' /\ FoldInv' /\ ClearInv' /\ ImportInv',
         Careful /\ run'.pc \in ClearPc /\ run.pc \notin ClearPc => export = NoExport
  PROVE  IInv'
<1>1. Types /\ Bounds /\ SeenInv /\ (Careful => Sane)
  BY DEF IInv
<1>2. Types'
  BY <1>1 DEF Types, RunOnly
<1>3. Bounds'
  BY <1>1 DEF Bounds, SnapBound, RunOnly
<1>4. SeenInv'
  BY <1>1, Given DEF SeenInv, RunOnly
<1>5. ASSUME Careful PROVE Sane'
  <2>1. RowsInv' /\ ServedInv' /\ FirstInv'
    BY <1>1, <1>5 DEF Sane, RowsInv, ServedInv, FirstInv, By, Whole, RunOnly
  <2>2. SnapInv'
    BY <1>1, <1>5 DEF Sane, SnapInv, Good, RunOnly
  <2>3. ExportInv'
    BY <1>1, <1>5, ExportShape DEF Sane, ExportInv, RunOnly
  <2> QED
    BY <1>5, <2>1, <2>2, <2>3 DEF Sane
<1> QED
  BY <1>2, <1>3, <1>4, <1>5, Parts DEF RunOnly

\* A run that ends is none, whatever it had done.
LEMMA RunEnds ==
  ASSUME IInv, RunOnly, run' = NoRun, spent' \in [crashes : Nat, deploys : Nat, exports : Nat]
  PROVE  IInv'
<1>1. NoRun.pc = "idle" /\ Types /\ (Careful => Sane)
  BY RunShape DEF IInv
<1>2. run'.pc \notin FoldPc \cup ClearPc \cup ImportPc /\ run'.pc # "sentinel"
  BY <1>1 DEF FoldPc, ClearPc, ImportPc
<1>3. Careful => EdgesInv' /\ FoldInv' /\ ClearInv' /\ ImportInv'
  BY <1>1, <1>2 DEF Sane, EdgesInv, Kept, FoldInv, ClearInv, ImportInv, RunOnly
<1> QED
  BY <1>2, <1>3, RunMoves

\* A run dies.
LEMMA CrashKeeps ==
  ASSUME IInv, Crash
  PROVE  IInv'
<1>1. spent' \in [crashes : Nat, deploys : Nat, exports : Nat]
  BY DEF Crash, Spend, IInv, Types
<1> QED
  BY <1>1, RunEnds DEF Crash, RunOnly

\* A batch begins where everything before it is in.
LEMMA FoldingBegins ==
  ASSUME IInv, RunOnly, UNCHANGED spent, NEW b \in Builds, NEW from \in Nat, NEW last \in Nat,
         1 <= from, from <= last, last <= head, run' = Folding(b, from, last),
         Careful => /\ mark.rev \in {NoRev, b} /\ (mark = NoMark => b = build)
                    /\ By(b) /\ Whole(from - 1)
                    /\ \A r \in Row : rows[r].op # 0 /\ rows[r].flag = rows[r].op => edges[r].op = rows[r].op
  PROVE  IInv'
<1>1. Types /\ (Careful => Sane)
  BY DEF IInv
<1>2. run' \in FoldType /\ run'.pc = "row" /\ run'.build = b /\ run'.at = from /\ run'.last = last
  BY DEF Folding, FoldType, FoldPc
<1>3. run'.pc \in FoldPc /\ run'.pc \notin ClearPc \cup ImportPc /\ run'.pc # "sentinel"
  BY <1>2 DEF FoldPc, ClearPc, ImportPc
<1>4. ASSUME Careful PROVE EdgesInv' /\ FoldInv' /\ ClearInv' /\ ImportInv'
  <2>1. EdgesInv'
    BY <1>4 DEF EdgesInv, RunOnly
  <2>2. FoldInv'
    BY <1>2, <1>4 DEF FoldInv, By, Whole, RunOnly
  <2>3. ClearInv' /\ ImportInv'
    BY <1>3 DEF ClearInv, ImportInv
  <2> QED
    BY <2>1, <2>2, <2>3
<1>5. spent' \in [crashes : Nat, deploys : Nat, exports : Nat]
  BY <1>1 DEF Types
<1> QED
  BY <1>2, <1>3, <1>4, <1>5, RunMoves

\* Nothing is claimed of an empty stream.
LEMMA WholeAtZero == Whole(0)
BY Basics DEF Whole, Shown

\* A run begins.
LEMMA BeginKeeps ==
  ASSUME IInv, Begin
  PROVE  IInv'
<1>1. Types /\ Bounds /\ (Careful => Sane) /\ head \in Nat /\ build \in Builds /\ seen \in Nat
  BY Basics DEF IInv, Types
<1>2. RunOnly /\ UNCHANGED spent /\ run = NoRun
  BY DEF Begin, RunOnly
<1>3. ASSUME mark # NoMark, Careful => export = NoExport,
             run' = [pc |-> "sentinel", build |-> build, until |-> head,
                     rows |-> {r \in Row : rows[r] # NoRow}, edges |-> {r \in Row : edges[r] # NoEdge}]
      PROVE  IInv'
  <2>1. /\ run' \in ClearType /\ run'.pc = "sentinel" /\ run'.until = head
        /\ run'.rows = {r \in Row : rows[r] # NoRow} /\ run'.edges = {r \in Row : edges[r] # NoEdge}
    BY <1>1, <1>3 DEF ClearType, ClearPc
  <2>2. run'.pc \in ClearPc /\ run'.pc \notin FoldPc \cup ImportPc
    BY <2>1 DEF FoldPc, ClearPc, ImportPc
  <2>3. mark.through <= head /\ seen <= head
    BY <1>1 DEF Bounds
  <2>4. ASSUME Careful PROVE EdgesInv' /\ FoldInv' /\ ClearInv' /\ ImportInv'
    <3>1. EdgesInv'
      BY <1>1, <1>2, <2>2, <2>4 DEF Sane, EdgesInv, Kept, RunOnly
    <3>2. ClearInv'
      BY <1>2, <1>3, <2>1 DEF ClearInv, RunOnly
    <3>3. FoldInv' /\ ImportInv'
      BY <2>2 DEF FoldInv, ImportInv
    <3> QED
      BY <3>1, <3>2, <3>3
  <2>5. spent' \in [crashes : Nat, deploys : Nat, exports : Nat]
    BY <1>1, <1>2 DEF Types
  <2> QED
    BY <1>1, <1>2, <1>3, <2>1, <2>2, <2>3, <2>4, <2>5, RunMoves
<1>4. ASSUME mark = NoMark \/ IsCurrent(build),
             NEW last \in (IF mark = NoMark THEN 1 ELSE mark.through + 1)..head,
             run' = Folding(build, IF mark = NoMark THEN 1 ELSE mark.through + 1, last)
      PROVE  IInv'
  <2> DEFINE from == IF mark = NoMark THEN 1 ELSE mark.through + 1
  <2>1. from \in Nat /\ 1 <= from /\ (from = 1 \/ (mark # NoMark /\ from - 1 = mark.through))
    BY <1>1 DEF Types, LiveMark
  <2>2. last \in Nat /\ from <= last /\ last <= head
    BY <1>1, <1>4, <2>1
  <2>3. ASSUME Careful
        PROVE  /\ mark.rev \in {NoRev, build} /\ By(build) /\ Whole(from - 1)
               /\ \A r \in Row : rows[r].op # 0 /\ rows[r].flag = rows[r].op => edges[r].op = rows[r].op
    <3>1. CASE mark = NoMark
      <4>1. mark.rev = NoRev /\ from - 1 = 0
        BY <3>1 DEF NoMark
      <4>2. By(build)
        BY <1>1, <2>3, <3>1 DEF Sane, FirstInv
      <4>3. \A r \in Row : rows[r].op # 0 /\ rows[r].flag = rows[r].op => edges[r].op = rows[r].op
        BY <1>1, <2>3, <3>1 DEF Sane, EdgesInv, Kept
      <4> QED
        BY <4>1, <4>2, <4>3, WholeAtZero
    <3>2. CASE mark # NoMark
      <4>1. mark.rev = build /\ mark.rev # NoRev /\ from - 1 = mark.through
        BY <1>1, <1>4, <2>1, <3>2, Basics DEF IsCurrent, Types, LiveMark
      <4>2. By(build) /\ Whole(mark.through)
        BY <1>1, <2>3, <4>1 DEF Sane, ServedInv
      <4>3. \A r \in Row : rows[r].op # 0 /\ rows[r].flag = rows[r].op => edges[r].op = rows[r].op
        BY <1>1, <2>3, <4>1 DEF Sane, EdgesInv, Kept
      <4> QED
        BY <4>1, <4>2, <4>3
    <3> QED
      BY <3>1, <3>2
  <2> HIDE DEF from
  <2>4. run' = Folding(build, from, last)
    BY <1>4 DEF from
  <2> QED
    BY <1>1, <1>2, <2>1, <2>2, <2>3, <2>4, FoldingBegins
<1> QED
  BY <1>3, <1>4 DEF Begin

\* The refold follows a clear that has left nothing.
LEMMA RefoldKeeps ==
  ASSUME IInv, Refold
  PROVE  IInv'
<1>1. Types /\ Bounds /\ (Careful => Sane) /\ head \in Nat /\ run \in ClearType /\ run.pc = "clear" /\ run.rows = {} /\ run.edges = {}
  BY Basics, RunShape DEF IInv, Types, Refold, ClearPc
<1>2. RunOnly /\ UNCHANGED spent /\ run.build \in Builds
  BY <1>1 DEF Refold, RunOnly, ClearType
<1>3. spent' \in [crashes : Nat, deploys : Nat, exports : Nat]
  BY <1>1, <1>2 DEF Types
<1>4. CASE head = 0
  BY <1>2, <1>3, <1>4, RunEnds DEF Refold
<1>5. CASE head # 0
  <2> DEFINE last == IF head < Batch THEN head ELSE Batch
  <2>1. last \in Nat /\ 1 <= last /\ last <= head
    BY <1>1, <1>5, Basics
  <2>2. run' = Folding(run.build, 1, last)
    BY <1>5 DEF Refold
  <2> HIDE DEF last
  <2>3. ASSUME Careful
        PROVE  /\ mark.rev = NoRev /\ mark # NoMark /\ By(run.build)
               /\ \A r \in Row : ~(rows[r].op # 0)
    <3>1. mark.rev = NoRev /\ mark # NoMark /\ \A r \in Row : rows[r] = NoRow /\ edges[r] = NoEdge
      BY <1>1, <2>3 DEF Sane, ClearInv, ClearPc
    <3> QED
      BY <3>1 DEF By, NoRow, NoEdge
  <2> QED
    BY <1>1, <1>2, <2>1, <2>2, <2>3, WholeAtZero, FoldingBegins
<1> QED
  BY <1>4, <1>5

\* An import begins on an empty stream, with a snapshot of its reducers.
LEMMA ImportKeeps ==
  ASSUME IInv, Import
  PROVE  IInv'
<1> DEFINE b == IF run = NoRun THEN build ELSE run.build
<1>1. Types /\ Bounds /\ SeenInv /\ (Careful => Sane) /\ snapshot \in SnapType /\ snapshot # NoSnapshot /\ mark.rev = NoRev
  BY DEF IInv, Types, Import
<1>2. RunOnly /\ UNCHANGED spent
  BY DEF Import, RunOnly
<1>3. b \in Builds
  <2>1. run # NoRun => run \in ClearType
    BY <1>1, RunShape DEF Import, ClearPc
  <2> QED
    BY <1>1, <2>1 DEF Types, ClearType
<1>4. /\ snapshot.red = b.red
      /\ run' = [pc |-> "unserved", build |-> b, from |-> snapshot, rows |-> {r \in Row : snapshot.rows[r] # NoRow}, edges |-> {}]
  BY DEF Import
<1> HIDE DEF b
<1>5. /\ run' \in ImportType /\ run'.pc = "unserved" /\ run'.build = b /\ run'.from = snapshot
      /\ run'.rows = {r \in Row : snapshot.rows[r] # NoRow} /\ run'.edges = {}
  BY <1>1, <1>3, <1>4 DEF ImportType, ImportPc
<1>6. run'.pc \in ImportPc /\ run'.pc \notin FoldPc \cup ClearPc /\ run'.pc # "sentinel"
  BY <1>5 DEF FoldPc, ClearPc, ImportPc
<1>7. SnapBound(run'.from) /\ MaxExports # 0
  BY <1>1, <1>5 DEF Bounds, SeenInv
<1>8. ASSUME Careful PROVE EdgesInv' /\ FoldInv' /\ ClearInv' /\ ImportInv'
  <2>1. \A r \in Row : rows[r] = NoRow /\ edges[r] = NoEdge
    BY <1>8 DEF Import
  <2>2. NoRow.op = 0 /\ NoRow.red = 0 /\ NoRow.flag = 0 /\ NoEdge.op = 0 /\ NoEdge.idx = 0
    BY DEF NoRow, NoEdge
  <2>3. EdgesInv'
    BY <1>2, <2>1, <2>2 DEF EdgesInv, RunOnly
  <2>4. Good(snapshot)
    BY <1>1, <1>8 DEF Sane, SnapInv
  <2>5. ImportInv'
    BY <1>1, <1>2, <1>4, <1>5, <2>1, <2>2, <2>4 DEF ImportInv, Good, RunOnly
  <2>6. FoldInv' /\ ClearInv'
    BY <1>6 DEF FoldInv, ClearInv
  <2> QED
    BY <2>3, <2>5, <2>6
<1>9. spent' \in [crashes : Nat, deploys : Nat, exports : Nat]
  BY <1>1, <1>2 DEF Types
<1> QED
  BY <1>2, <1>5, <1>6, <1>7, <1>8, <1>9, RunMoves

\* ------------------------------------------------------------------------ folds

\* A fold writes rows, entries and its own place, and nothing else.
FoldOnly == UNCHANGED <<given, head, mark, build, export, snapshot, seen, spent>>

\* The rows and entries a step leaves are rows and entries, and not ahead of the relay.
ItemsFit ==
    /\ rows' \in [Row -> RowType] /\ edges' \in [Row -> EdgeType]
    /\ \A r \in Row : rows'[r].op <= head /\ rows'[r].flag <= head /\ edges'[r].op <= head

\* A step of a fold has to keep what the watermark promises and what the fold has behind it.
LEMMA FoldMoves ==
  ASSUME IInv, FoldOnly, ItemsFit, run.pc \in FoldPc, run' \in FoldType, run'.build = run.build,
         1 <= run'.at, run'.at <= run'.last, run'.last <= head,
         Careful => RowsInv' /\ EdgesInv' /\ FoldInv',
         Careful /\ mark.rev # NoRev => Whole(mark.through)'
  PROVE  IInv'
<1>1. Types /\ Bounds /\ SeenInv /\ (Careful => Sane)
  BY DEF IInv
<1>2. run'.pc \in FoldPc /\ run'.pc \notin ClearPc \cup ImportPc /\ run'.pc # "sentinel"
  BY DEF FoldType, FoldPc, ClearPc, ImportPc
<1>3. Types'
  BY <1>1 DEF Types, FoldOnly, ItemsFit
<1>4. Bounds'
  BY <1>1, <1>2 DEF Bounds, SnapBound, FoldOnly, ItemsFit
<1>5. SeenInv'
  BY <1>1, <1>2, Given DEF SeenInv, FoldOnly
<1>6. ASSUME Careful PROVE Sane'
  <2>1. By(run.build)' /\ mark' = mark /\ mark.rev \in {NoRev, run'.build} /\ (mark = NoMark => run'.build = build')
    BY <1>1, <1>2, <1>6 DEF Sane, FoldInv, FoldOnly
  <2>2. ServedInv'
    BY <1>6, <2>1 DEF ServedInv, By, Whole
  <2>3. FirstInv'
    BY <2>1 DEF FirstInv, By
  <2>4. ClearInv' /\ ImportInv'
    BY <1>2 DEF ClearInv, ImportInv
  <2>5. SnapInv' /\ ExportInv'
    BY <1>1, <1>2, <1>6 DEF Sane, SnapInv, Good, ExportInv, FoldOnly
  <2> QED
    BY <1>6, <2>2, <2>3, <2>4, <2>5 DEF Sane
<1> QED
  BY <1>3, <1>4, <1>5, <1>6, Parts DEF FoldOnly

\* The fold goes to its next op, or to the watermark, when everything shows this one.
LEMMA NextOpMoves ==
  ASSUME IInv, FoldOnly, ItemsFit, run.pc \in FoldPc, NextOp,
         Careful => /\ RowsInv' /\ EdgesInv'
                    /\ \A r \in Row : /\ rows'[r].red \in {0, run.build.red} /\ edges'[r].idx \in {0, run.build.idx}
                                      /\ Shown(rows'[r].op, r, run.at) /\ Shown(edges'[r].op, r, run.at),
         Careful /\ mark.rev # NoRev => Whole(mark.through)'
  PROVE  IInv'
<1>1. Types /\ Bounds /\ (Careful => Sane) /\ run \in FoldType /\ head \in Nat
  BY RunShape, Basics DEF IInv, Types
<1>2. run.at \in Nat /\ run.last \in Nat /\ 1 <= run.at /\ run.at <= run.last /\ run.last <= head
  BY <1>1 DEF Bounds, FoldType
<1>3. /\ run' \in FoldType /\ run'.build = run.build /\ run'.last = run.last
      /\ \/ run'.pc = "advance" /\ run'.at = run.at /\ run.at = run.last
         \/ run'.pc = "row" /\ run'.at = run.at + 1 /\ run.at < run.last
  <2>1. CASE run.at = run.last
    BY <1>1, <1>2, <2>1 DEF NextOp, FoldType, FoldPc
  <2>2. CASE run.at # run.last
    <3>1. run.at + 1 \in Nat /\ run.at < run.last
      BY <1>2, <2>2
    <3>2. run' = [run EXCEPT !.pc = "row", !.at = run.at + 1]
      BY <2>2 DEF NextOp
    <3> QED
      BY <1>1, <3>1, <3>2 DEF FoldType, FoldPc
  <2> QED
    BY <2>1, <2>2
<1>4. 1 <= run'.at /\ run'.at <= run'.last /\ run'.last <= head
  BY <1>2, <1>3
<1>5. ASSUME Careful PROVE FoldInv'
  <2>1. mark'.rev \in {NoRev, run'.build} /\ (mark' = NoMark => run'.build = build')
    BY <1>1, <1>3, <1>5 DEF Sane, FoldInv, FoldOnly
  <2>2. By(run.build)'
    BY <1>3, <1>5 DEF By
  <2>3. \A r \in Row : Shown(rows'[r].op, r, run'.at - 1) /\ Shown(edges'[r].op, r, run'.at - 1)
    BY <1>2, <1>3, <1>5, ShownLess
  <2>4. run'.pc # "row" => run'.at = run.at /\ run'.pc = "advance" /\ run'.at = run'.last
    BY <1>3
  <2> QED
    BY <1>5, <2>1, <2>2, <2>3, <2>4 DEF FoldInv, Whole
<1> QED
  BY <1>3, <1>4, <1>5, FoldMoves

\* The next row is an op, and an op the stream has.
LEMMA FoldAt ==
  ASSUME IInv, run.pc \in FoldPc
  PROVE  /\ Types /\ Bounds /\ (Careful => Sane) /\ run \in FoldType /\ head \in Nat
         /\ run.at \in DOMAIN Target /\ run.at \in Nat /\ run.at # 0 /\ run.at <= head /\ Target[run.at] \in Row
         /\ run.build \in Builds /\ run.build.red \in Nat /\ run.build.idx \in Nat
         /\ \A r \in Row : /\ rows[r] \in RowType /\ edges[r] \in EdgeType
                           /\ rows[r].op \in Nat /\ rows[r].flag \in Nat /\ edges[r].op \in Nat
                           /\ rows[r].op # 0 => rows[r].op \in DOMAIN Target
                           /\ rows[r].flag # 0 => rows[r].flag \in DOMAIN Target
<1>1. Types /\ Bounds /\ (Careful => Sane) /\ run \in FoldType /\ head \in Nat /\ head <= Len(Target)
  BY RunShape, Basics DEF IInv, Types
<1>2. run.at \in Nat /\ run.last \in Nat /\ 1 <= run.at /\ run.at <= run.last /\ run.last <= head /\ run.build \in Builds
  BY <1>1 DEF Bounds, FoldType
<1>3. run.at \in DOMAIN Target /\ run.at # 0 /\ run.at <= head
  BY <1>1, <1>2, Basics
<1>4. \A r \in Row : /\ rows[r] \in RowType /\ edges[r] \in EdgeType
                     /\ rows[r].op \in Nat /\ rows[r].flag \in Nat /\ edges[r].op \in Nat
  BY <1>1 DEF Types, RowType, EdgeType
<1>5. \A r \in Row : rows[r].op <= head /\ rows[r].flag <= head
  BY <1>1 DEF Bounds
<1>6. \A n \in Nat : n # 0 /\ n <= head => n \in DOMAIN Target
  BY <1>1, Basics
<1> QED
  BY <1>1, <1>2, <1>3, <1>4, <1>5, <1>6, Basics

\* An op beats a row it is written to, and the row it leaves shows as much and more.
LEMMA FoldRowKeeps ==
  ASSUME IInv, FoldRow
  PROVE  IInv'
<1> DEFINE k == run.at
           r0 == Target[run.at]
           won == rows[r0] = NoRow \/ Rank[k] > Rank[rows[r0].op]
           new == [rows[r0] EXCEPT !.op = k, !.red = run.build.red]
<1>1. run.pc = "row" /\ run.pc \in FoldPc /\ FoldOnly /\ UNCHANGED edges
  BY DEF FoldRow, FoldPc, FoldOnly
<1>2. /\ Types /\ Bounds /\ (Careful => Sane) /\ run \in FoldType /\ head \in Nat
      /\ k \in DOMAIN Target /\ k \in Nat /\ k # 0 /\ k <= head /\ r0 \in Row
      /\ run.build \in Builds /\ run.build.red \in Nat /\ run.build.idx \in Nat
      /\ \A r \in Row : /\ rows[r] \in RowType /\ edges[r] \in EdgeType
                        /\ rows[r].op \in Nat /\ rows[r].flag \in Nat /\ edges[r].op \in Nat
                        /\ rows[r].op # 0 => rows[r].op \in DOMAIN Target
                        /\ rows[r].flag # 0 => rows[r].flag \in DOMAIN Target
  BY <1>1, FoldAt
<1>3. rows \in [Row -> RowType] /\ edges \in [Row -> EdgeType]
  BY <1>2 DEF Types
<1>4. \A r \in Row : rows[r].op <= head /\ rows[r].flag <= head /\ edges[r].op <= head
  BY <1>2 DEF Bounds
<1>5. ASSUME Careful
      PROVE  /\ RowsInv /\ EdgesInv /\ By(run.build) /\ Whole(k - 1)
             /\ mark.rev \in {NoRev, run.build} /\ (mark = NoMark => run.build = build)
             /\ mark.rev # NoRev => Whole(mark.through)
  BY <1>1, <1>2, <1>5 DEF Sane, FoldInv, ServedInv
<1>6. ASSUME k \in Refused PROVE IInv'
  <2>1. NextOp /\ UNCHANGED rows
    BY <1>6 DEF FoldRow
  <2>2. ItemsFit
    BY <1>1, <1>3, <1>4, <2>1 DEF ItemsFit
  <2>3. ASSUME Careful
        PROVE  /\ RowsInv' /\ EdgesInv'
               /\ \A r \in Row : /\ rows'[r].red \in {0, run.build.red} /\ edges'[r].idx \in {0, run.build.idx}
                                 /\ Shown(rows'[r].op, r, k) /\ Shown(edges'[r].op, r, k)
               /\ mark.rev # NoRev => Whole(mark.through)'
    <3>1. RowsInv' /\ EdgesInv'
      BY <1>1, <1>5, <2>1, <2>3 DEF RowsInv, EdgesInv, Kept, FoldOnly
    <3>2. \A r \in Row : Shown(rows[r].op, r, k) /\ Shown(edges[r].op, r, k)
      BY <1>2, <1>5, <1>6, <2>3, ShownNext DEF Whole
    <3> QED
      BY <1>1, <1>5, <2>1, <2>3, <3>1, <3>2 DEF By, Whole, FoldOnly
  <2> QED
    BY <1>1, <2>1, <2>2, <2>3, NextOpMoves
<1>7. ASSUME k \notin Refused PROVE IInv'
  <2>1. rows' = (IF won THEN [rows EXCEPT ![r0] = new] ELSE rows) /\ run' = [run EXCEPT !.pc = "edges"]
    BY <1>2, <1>3, <1>7 DEF FoldRow
  <2>2. new \in RowType /\ new.op = k /\ new.red = run.build.red /\ new.flag = rows[r0].flag
    BY <1>2 DEF RowType
  <2>3. run' \in FoldType /\ run'.pc = "edges" /\ run'.build = run.build /\ run'.at = k /\ run'.last = run.last
    BY <1>2, <2>1 DEF FoldType, FoldPc
  <2> HIDE DEF new
  <2>4. \A r \in Row : rows'[r] = IF won /\ r = r0 THEN new ELSE rows[r]
    BY <1>3, <2>1
  <2>5. rows' \in [Row -> RowType]
    BY <1>3, <2>1, <2>2
  <2>6. ItemsFit
    BY <1>1, <1>2, <1>3, <1>4, <2>2, <2>4, <2>5 DEF ItemsFit
  <2>7. ASSUME Careful PROVE RowsInv' /\ EdgesInv'
    <3>1. won => rows[r0].flag # k /\ (rows[r0].flag # 0 => Rank[rows[r0].flag] < Rank[k])
      <4>1. CASE rows[r0] = NoRow
        BY <1>2, <4>1 DEF NoRow
      <4>2. CASE rows[r0] # NoRow /\ Rank[k] > Rank[rows[r0].op]
        <5>1. rows[r0].op # 0 /\ rows[r0].op \in DOMAIN Target
          BY <1>2, <1>5, <2>7, <4>2 DEF RowsInv
        <5>2. rows[r0].flag # 0 => rows[r0].flag \in DOMAIN Target /\ (rows[r0].flag = rows[r0].op \/ Rank[rows[r0].flag] < Rank[rows[r0].op])
          BY <1>2, <1>5, <2>7 DEF RowsInv
        <5> QED
          BY <1>2, <4>2, <5>1, <5>2, Basics
      <4> QED
        BY <4>1, <4>2
    <3>2. RowsInv'
      BY <1>2, <1>5, <2>2, <2>4, <2>7, <3>1 DEF RowsInv
    <3>3. Kept
      BY <1>1 DEF Kept
    <3>4. EdgesInv'
      BY <1>1, <1>2, <1>5, <2>2, <2>4, <2>7, <3>1, <3>3 DEF EdgesInv
    <3> QED
      BY <3>2, <3>4
  <2>8. ASSUME Careful, NEW r \in Row, NEW t, Shown(rows[r].op, r, t) PROVE Shown(rows'[r].op, r, t)
    <3>1. CASE won /\ r = r0
      <4>1. rows[r].op # 0 => rows[r].op \in DOMAIN Target /\ Rank[k] >= Rank[rows[r].op]
        BY <1>2, <3>1, Basics DEF NoRow
      <4>2. Shown(k, r, t)
        BY <1>2, <2>8, <4>1, ShownMore
      <4> QED
        BY <2>2, <2>4, <3>1, <4>2
    <3> QED
      BY <2>4, <2>8, <3>1
  <2>9. ASSUME Careful PROVE FoldInv'
    <3>1. \A r \in Row : Shown(rows'[r].op, r, k - 1) /\ Shown(edges[r].op, r, k - 1)
      BY <1>5, <2>8, <2>9 DEF Whole
    <3>2. rows'[r0].op # 0 /\ Rank[rows'[r0].op] >= Rank[k]
      <4>1. CASE won
        BY <1>2, <2>2, <2>4, <4>1, Basics
      <4>2. CASE ~won
        <5>1. rows[r0].op # 0
          BY <1>2, <1>5, <2>9, <4>2 DEF RowsInv
        <5> QED
          BY <1>2, <2>4, <4>2, <5>1, Basics
      <4> QED
        BY <4>1, <4>2
    <3>3. \A r \in Row : Shown(rows'[r].op, r, k)
      BY <1>2, <3>1, <3>2, ShownNext
    <3>4. By(run.build)'
      BY <1>1, <1>5, <2>2, <2>3, <2>4, <2>9 DEF By
    <3>5. Whole(run.at - 1)'
      BY <1>1, <2>3, <3>1 DEF Whole
    <3> QED
      BY <1>1, <1>5, <2>3, <2>9, <3>3, <3>4, <3>5 DEF FoldInv, FoldOnly
  <2>10. Careful /\ mark.rev # NoRev => Whole(mark.through)'
    BY <1>1, <1>5, <2>8 DEF Whole, FoldOnly
  <2>11. 1 <= run'.at /\ run'.at <= run'.last /\ run'.last <= head
    BY <1>1, <1>2, <2>3 DEF Bounds
  <2> QED
    BY <1>1, <2>3, <2>6, <2>7, <2>9, <2>10, <2>11, FoldMoves
<1> QED
  BY <1>6, <1>7

\* The edges are told what the row shows.
LEMMA FoldEdgesKeeps ==
  ASSUME IInv, FoldEdges
  PROVE  IInv'
<1> DEFINE k == run.at
           r0 == Target[run.at]
           new == [op |-> rows[r0].op, idx |-> run.build.idx]
<1>1. run.pc = "edges" /\ run.pc \in FoldPc /\ FoldOnly /\ UNCHANGED rows
  BY DEF FoldEdges, FoldPc, FoldOnly
<1>2. /\ Types /\ Bounds /\ (Careful => Sane) /\ run \in FoldType /\ head \in Nat
      /\ k \in DOMAIN Target /\ k \in Nat /\ r0 \in Row
      /\ run.build \in Builds /\ run.build.red \in Nat /\ run.build.idx \in Nat
      /\ \A r \in Row : rows[r].op \in Nat
  BY <1>1, FoldAt
<1>3. rows \in [Row -> RowType] /\ edges \in [Row -> EdgeType]
  BY <1>2 DEF Types
<1>4. \A r \in Row : rows[r].op <= head /\ rows[r].flag <= head /\ edges[r].op <= head
  BY <1>2 DEF Bounds
<1>5. edges' = (IF Flips(r0) THEN [edges EXCEPT ![r0] = new] ELSE edges) /\ run' = [run EXCEPT !.pc = "flag"]
  BY DEF FoldEdges
<1>6. new \in EdgeType /\ new.op = rows[r0].op /\ new.idx = run.build.idx
  BY <1>2 DEF EdgeType
<1>7. run' \in FoldType /\ run'.pc = "flag" /\ run'.build = run.build /\ run'.at = k /\ run'.last = run.last
  BY <1>2, <1>5 DEF FoldType, FoldPc
<1> HIDE DEF new
<1>8. \A r \in Row : edges'[r] = IF Flips(r0) /\ r = r0 THEN new ELSE edges[r]
  BY <1>3, <1>5
<1>9. ItemsFit
  <2>1. edges' \in [Row -> EdgeType]
    BY <1>3, <1>5, <1>6
  <2> QED
    BY <1>1, <1>2, <1>3, <1>4, <1>6, <1>8, <2>1 DEF ItemsFit
<1>10. ASSUME Careful
       PROVE  /\ RowsInv /\ EdgesInv /\ By(run.build) /\ Whole(k - 1) /\ Kept
              /\ mark.rev \in {NoRev, run.build} /\ (mark = NoMark => run.build = build)
              /\ mark.rev # NoRev => Whole(mark.through)
              /\ \A r \in Row : Shown(rows[r].op, r, k)
  BY <1>1, <1>2, <1>10 DEF Sane, FoldInv, ServedInv, Kept
<1>11. Careful => edges'[r0].op = rows[r0].op \/ rows[r0].op = 0
  BY <1>2, <1>6, <1>8, <1>10 DEF EdgesInv, Flips
<1>12. ASSUME Careful PROVE RowsInv' /\ EdgesInv'
  <2>1. RowsInv'
    BY <1>1, <1>10, <1>12 DEF RowsInv
  <2>2. EdgesInv'
    BY <1>1, <1>8, <1>10, <1>11, <1>12 DEF EdgesInv
  <2> QED
    BY <2>1, <2>2
<1>13. ASSUME Careful, NEW t, NEW r \in Row, Shown(rows[r].op, r, t), Shown(edges[r].op, r, t)
       PROVE  Shown(edges'[r].op, r, t)
  BY <1>6, <1>8, <1>13
<1>14. ASSUME Careful PROVE FoldInv'
  <2>1. \A r \in Row : Shown(rows[r].op, r, k - 1) /\ Shown(edges'[r].op, r, k - 1)
    BY <1>10, <1>13, <1>14 DEF Whole
  <2>2. ASSUME NEW r \in Row PROVE Shown(edges'[r].op, r, k)
    <3>1. CASE r # r0
      BY <1>2, <2>1, <3>1, ShownNext
    <3>2. CASE r = r0 /\ edges'[r0].op = rows[r0].op
      BY <1>10, <1>14, <3>2
    <3>3. CASE r = r0 /\ rows[r0].op = 0
      BY <1>10, <1>14, <3>3 DEF Shown
    <3> QED
      BY <1>11, <1>14, <3>1, <3>2, <3>3
  <2>3. By(run.build)'
    BY <1>1, <1>6, <1>7, <1>8, <1>10, <1>14 DEF By
  <2>4. Whole(run.at - 1)'
    BY <1>1, <1>7, <2>1 DEF Whole
  <2> QED
    BY <1>1, <1>7, <1>10, <1>11, <1>14, <2>2, <2>3, <2>4 DEF FoldInv, FoldOnly
<1>15. Careful /\ mark.rev # NoRev => Whole(mark.through)'
  BY <1>1, <1>10, <1>13 DEF Whole, FoldOnly
<1>16. 1 <= run'.at /\ run'.at <= run'.last /\ run'.last <= head
  BY <1>1, <1>2, <1>7 DEF Bounds
<1> QED
  BY <1>1, <1>7, <1>9, <1>12, <1>14, <1>15, <1>16, FoldMoves

\* The flag is set where the edges were told.
LEMMA FoldFlagKeeps ==
  ASSUME IInv, FoldFlag
  PROVE  IInv'
<1> DEFINE k == run.at
           r0 == Target[run.at]
           new == [rows[r0] EXCEPT !.flag = rows[r0].op]
<1>1. run.pc = "flag" /\ run.pc \in FoldPc /\ FoldOnly /\ UNCHANGED edges /\ NextOp
  BY DEF FoldFlag, FoldPc, FoldOnly
<1>2. /\ Types /\ Bounds /\ (Careful => Sane) /\ run \in FoldType /\ head \in Nat
      /\ k \in DOMAIN Target /\ k \in Nat /\ r0 \in Row
      /\ \A r \in Row : rows[r] \in RowType /\ rows[r].op \in Nat
  BY <1>1, FoldAt
<1>3. rows \in [Row -> RowType] /\ edges \in [Row -> EdgeType]
  BY <1>2 DEF Types
<1>4. \A r \in Row : rows[r].op <= head /\ rows[r].flag <= head /\ edges[r].op <= head
  BY <1>2 DEF Bounds
<1>5. rows' = [rows EXCEPT ![r0] = new]
  BY <1>2, <1>3 DEF FoldFlag
<1>6. new \in RowType /\ new.op = rows[r0].op /\ new.red = rows[r0].red /\ new.flag = rows[r0].op
  BY <1>2 DEF RowType
<1>7. rows[r0] = NoRow => new = NoRow
  BY DEF NoRow
<1> HIDE DEF new
<1>8. \A r \in Row : rows'[r] = IF r = r0 THEN new ELSE rows[r]
  BY <1>3, <1>5
<1>9. ItemsFit
  <2>1. rows' \in [Row -> RowType]
    BY <1>3, <1>5, <1>6
  <2> QED
    BY <1>1, <1>2, <1>3, <1>4, <1>6, <1>8, <2>1 DEF ItemsFit
<1>10. ASSUME Careful
       PROVE  /\ RowsInv /\ EdgesInv /\ By(run.build) /\ Kept
              /\ mark.rev # NoRev => Whole(mark.through)
              /\ \A r \in Row : Shown(rows[r].op, r, k) /\ Shown(edges[r].op, r, k)
              /\ rows[r0].op # 0 => edges[r0].op = rows[r0].op
  BY <1>1, <1>2, <1>10 DEF Sane, FoldInv, ServedInv, Kept
<1>11. ASSUME Careful PROVE RowsInv' /\ EdgesInv'
  <2>1. RowsInv'
    BY <1>2, <1>6, <1>7, <1>8, <1>10, <1>11 DEF RowsInv
  <2>2. EdgesInv'
    BY <1>1, <1>2, <1>6, <1>8, <1>10, <1>11 DEF EdgesInv
  <2> QED
    BY <2>1, <2>2
<1>12. \A r \in Row : rows'[r].op = rows[r].op /\ rows'[r].red = rows[r].red
  BY <1>6, <1>8
<1>13. Careful => \A r \in Row : /\ rows'[r].red \in {0, run.build.red} /\ edges'[r].idx \in {0, run.build.idx}
                                 /\ Shown(rows'[r].op, r, k) /\ Shown(edges'[r].op, r, k)
  BY <1>1, <1>10, <1>12 DEF By
<1>14. Careful /\ mark.rev # NoRev => Whole(mark.through)'
  BY <1>1, <1>10, <1>12 DEF Whole, FoldOnly
<1> QED
  BY <1>1, <1>9, <1>11, <1>13, <1>14, NextOpMoves

\* ------------------------------------------------------------- the watermark

\* Everything but the watermark and the run stays.
MarkOnly == UNCHANGED <<given, head, rows, edges, build, export, snapshot, seen, spent>>

\* A watermark may move to what the rows hold.
LEMMA MarkMoves ==
  ASSUME IInv, MarkOnly, run' \in {NoRun} \cup ClearType \cup ImportType, mark' \in LiveMark,
         mark'.through <= head, mark'.until <= head,
         run'.pc # "sentinel",
         run'.pc \in ClearPc => run'.until <= head,
         run'.pc \in ImportPc => SnapBound(run'.from) /\ MaxExports # 0,
         MaxExports = 0 => seen <= mark'.through \/ seen <= mark'.until,
         Careful => EdgesInv' /\ ServedInv' /\ ClearInv' /\ ImportInv' /\ ExportInv'
  PROVE  IInv'
<1>1. Types /\ Bounds /\ SeenInv /\ (Careful => Sane)
  BY DEF IInv
<1>2. mark' # NoMark
  BY DEF LiveMark, NoMark
<1>3. run'.pc \notin FoldPc
  BY DEF ClearType, ImportType, FoldPc, ClearPc, ImportPc, NoRun
<1>4. Types'
  BY <1>1 DEF Types, MarkOnly
<1>5. Bounds'
  BY <1>1, <1>3 DEF Bounds, SnapBound, MarkOnly
<1>6. SeenInv'
  BY <1>1, Given DEF SeenInv, MarkOnly
<1>7. ASSUME Careful PROVE Sane'
  <2>1. RowsInv' /\ SnapInv'
    BY <1>1, <1>7 DEF Sane, RowsInv, SnapInv, Good, MarkOnly
  <2>2. FirstInv' /\ FoldInv'
    BY <1>2, <1>3 DEF FirstInv, FoldInv
  <2> QED
    BY <1>7, <2>1, <2>2 DEF Sane
<1> QED
  BY <1>4, <1>5, <1>6, <1>7, Parts DEF MarkOnly

\* The watermark moves to the end of the batch.
LEMMA AdvanceKeeps ==
  ASSUME IInv, Advance
  PROVE  IInv'
<1>1. run.pc = "advance" /\ run.pc \in FoldPc /\ MarkOnly /\ run' = NoRun
  BY DEF Advance, FoldPc, MarkOnly
<1>2. Types /\ Bounds /\ SeenInv /\ (Careful => Sane) /\ run \in FoldType /\ head \in Nat /\ seen \in Nat
  BY <1>1, RunShape, Basics DEF IInv, Types
<1>3. run.last \in Nat /\ 1 <= run.last /\ run.last <= head /\ run.build \in Builds /\ run.at \in Nat
  BY <1>1, <1>2 DEF Bounds, FoldType
<1>4. mark.through \in Int /\ mark.until \in Nat /\ mark.through <= head /\ mark.until <= head
  BY <1>2 DEF Types, Bounds, NoMark, LiveMark
<1>5. run'.pc \notin FoldPc \cup ClearPc \cup ImportPc /\ run'.pc # "sentinel"
  BY <1>1 DEF NoRun, FoldPc, ClearPc, ImportPc
<1>6. /\ mark' \in LiveMark /\ mark'.until = mark.until
      /\ \/ run.last > mark.through /\ mark'.through = run.last /\ mark'.rev = run.build
         \/ run.last <= mark.through /\ mark' = mark
  <2>1. CASE run.last > mark.through
    <3>1. mark' = [mark EXCEPT !.through = run.last, !.rev = run.build]
      BY <2>1 DEF Advance, Advanced
    <3>2. mark' = [through |-> run.last, rev |-> run.build, until |-> mark.until]
      BY <1>2, <3>1 DEF Types, LiveMark, NoMark
    <3> QED
      BY <1>3, <1>4, <2>1, <3>2 DEF LiveMark
  <2>2. CASE run.last <= mark.through
    <3>1. mark' = mark
      BY <1>3, <1>4, <2>2 DEF Advance
    <3>2. mark # NoMark
      BY <1>3, <2>2 DEF NoMark
    <3> QED
      BY <1>2, <2>2, <3>1, <3>2 DEF Types
  <2> QED
    BY <1>3, <1>4, <2>1, <2>2
<1>7. ASSUME Careful
      PROVE  /\ RowsInv /\ EdgesInv /\ By(run.build) /\ Kept /\ ExportInv
             /\ mark.rev \in {NoRev, run.build} /\ ServedInv
             /\ Whole(run.last)
  BY <1>1, <1>2, <1>7 DEF Sane, FoldInv, ServedInv, Kept, Whole
<1>8. ASSUME Careful PROVE EdgesInv' /\ ServedInv' /\ ClearInv' /\ ImportInv' /\ ExportInv'
  <2>1. EdgesInv'
    BY <1>1, <1>7, <1>8 DEF EdgesInv, MarkOnly
  <2>2. ServedInv'
    <3>1. CASE mark' = mark
      BY <1>1, <1>7, <1>8, <3>1 DEF ServedInv, By, Whole, MarkOnly
    <3>2. CASE mark'.through = run.last /\ mark'.rev = run.build
      BY <1>1, <1>7, <1>8, <3>2 DEF ServedInv, By, Whole, MarkOnly
    <3> QED
      BY <1>6, <3>1, <3>2
  <2>3. ClearInv' /\ ImportInv'
    BY <1>5 DEF ClearInv, ImportInv
  <2>4. ExportInv'
    <3>1. export.pc = "tables" => export.mark.through \in Int
      BY <1>2, ExportShape DEF ExportType, LiveMark
    <3>2. export.pc = "tables" /\ export.mark.rev # NoRev => mark'.rev = export.mark.rev /\ export.mark.through <= mark'.through
      BY <1>3, <1>4, <1>6, <1>7, <1>8, <3>1 DEF ExportInv
    <3> QED
      BY <1>1, <1>5, <1>7, <1>8, <3>2 DEF ExportInv, MarkOnly
  <2> QED
    BY <2>1, <2>2, <2>3, <2>4
<1>9. mark'.through <= head /\ mark'.until <= head
  BY <1>3, <1>4, <1>6
<1>10. MaxExports = 0 => seen <= mark'.through \/ seen <= mark'.until
  BY <1>2, <1>3, <1>4, <1>6 DEF SeenInv
<1> QED
  BY <1>1, <1>5, <1>6, <1>8, <1>9, <1>10, MarkMoves

\* A clear begins with a watermark that promises nothing and remembers what was served.
LEMMA ClearMarkKeeps ==
  ASSUME IInv, ClearMark
  PROVE  IInv'
<1>1. run.pc = "sentinel" /\ run.pc \in ClearPc /\ MarkOnly
  BY DEF ClearMark, ClearPc, MarkOnly
<1>2. Types /\ Bounds /\ SeenInv /\ (Careful => Sane) /\ run \in ClearType /\ head \in Nat /\ seen \in Nat
  BY <1>1, RunShape, Basics DEF IInv, Types
<1>3. mark' = [through |-> 0, rev |-> NoRev, until |-> run.until] /\ run' = [run EXCEPT !.pc = "clear"]
  BY DEF ClearMark, Sentinel
<1>4. run.until \in Nat /\ run.until <= head /\ seen <= run.until
  BY <1>1, <1>2 DEF Bounds, ClearType
<1>5. mark' \in LiveMark /\ mark'.through = 0 /\ mark'.rev = NoRev /\ mark'.until = run.until /\ mark' # NoMark
  BY <1>3, <1>4 DEF LiveMark, NoMark
<1>6. run' \in ClearType /\ run'.pc = "clear" /\ run'.until = run.until /\ run'.rows = run.rows /\ run'.edges = run.edges
  BY <1>2, <1>3 DEF ClearType, ClearPc
<1>7. run'.pc \in ClearPc /\ run'.pc \notin FoldPc \cup ImportPc
  BY <1>6 DEF FoldPc, ClearPc, ImportPc
<1>8. ASSUME Careful PROVE EdgesInv' /\ ServedInv' /\ ClearInv' /\ ImportInv' /\ ExportInv'
  <2>1. EdgesInv' /\ ServedInv' /\ ImportInv'
    BY <1>5, <1>7 DEF EdgesInv, Kept, ServedInv, ImportInv
  <2>2. ClearInv'
    BY <1>1, <1>2, <1>5, <1>6, <1>8 DEF Sane, ClearInv, MarkOnly
  <2>3. ExportInv'
    BY <1>1, <1>2, <1>8 DEF Sane, ExportInv, MarkOnly
  <2> QED
    BY <2>1, <2>2, <2>3
<1> QED
  BY <1>1, <1>2, <1>4, <1>5, <1>6, <1>7, <1>8, MarkMoves

\* An import says first that nothing is served.
LEMMA ImportMarkKeeps ==
  ASSUME IInv, ImportMark
  PROVE  IInv'
<1>1. run.pc = "unserved" /\ run.pc \in ImportPc /\ MarkOnly
  BY DEF ImportMark, ImportPc, MarkOnly
<1>2. Types /\ Bounds /\ SeenInv /\ (Careful => Sane) /\ run \in ImportType /\ head \in Nat
  BY <1>1, RunShape, Basics DEF IInv, Types
<1>3. mark' = [mark EXCEPT !.through = 0] /\ run' = [run EXCEPT !.pc = "import"]
  BY DEF ImportMark
<1>4. mark' \in LiveMark /\ mark'.through = 0 /\ mark'.rev = mark.rev /\ mark'.until = mark.until /\ mark' # NoMark
  BY <1>2, <1>3 DEF Types, LiveMark, NoMark
<1>5. /\ run' \in ImportType /\ run'.pc = "import" /\ run'.build = run.build /\ run'.from = run.from
      /\ run'.rows = run.rows /\ run'.edges = run.edges
  BY <1>2, <1>3 DEF ImportType, ImportPc
<1>6. run'.pc \in ImportPc /\ run'.pc \notin FoldPc \cup ClearPc /\ run'.pc # "sentinel"
  BY <1>5 DEF FoldPc, ClearPc, ImportPc
<1>7. SnapBound(run'.from) /\ MaxExports # 0 /\ mark'.until <= head
  BY <1>1, <1>2, <1>4, <1>5 DEF Bounds, SeenInv
<1>8. ASSUME Careful PROVE EdgesInv' /\ ServedInv' /\ ClearInv' /\ ImportInv' /\ ExportInv'
  <2>1. mark.rev = NoRev /\ ImportInv /\ EdgesInv /\ Kept
    BY <1>1, <1>2, <1>8 DEF Sane, ImportInv, Kept
  <2>2. EdgesInv'
    BY <1>1, <2>1 DEF EdgesInv, MarkOnly
  <2>3. ServedInv' /\ ClearInv'
    BY <1>4, <1>6, <2>1 DEF ServedInv, ClearInv
  <2>4. ImportInv'
    BY <1>1, <1>4, <1>5, <2>1 DEF ImportInv, Good, MarkOnly
  <2>5. ExportInv'
    BY <1>1, <1>2, <1>8, <2>1 DEF Sane, ExportInv, MarkOnly
  <2> QED
    BY <2>2, <2>3, <2>4, <2>5
<1> QED
  BY <1>1, <1>2, <1>4, <1>5, <1>6, <1>7, <1>8, MarkMoves

\* The watermark of an import promises what the snapshot's did.
LEMMA StampKeeps ==
  ASSUME IInv, Stamp
  PROVE  IInv'
<1>1. run.pc = "import" /\ run.pc \in ImportPc /\ MarkOnly /\ run.rows = {} /\ run.edges = {} /\ run' = NoRun
  BY DEF Stamp, ImportPc, MarkOnly
<1>2. Types /\ Bounds /\ SeenInv /\ (Careful => Sane) /\ run \in ImportType /\ head \in Nat
  BY <1>1, RunShape, Basics DEF IInv, Types
<1>3. mark' = [through |-> run.from.through, rev |-> run.build, until |-> 0]
  BY DEF Stamp
<1>4. run.from.through \in Nat /\ run.build \in Builds /\ run.from.through <= head /\ MaxExports # 0
  BY <1>1, <1>2 DEF ImportType, SnapType, Bounds, SnapBound, SeenInv
<1>5. mark' \in LiveMark /\ mark'.through = run.from.through /\ mark'.rev = run.build /\ mark'.until = 0
  BY <1>3, <1>4 DEF LiveMark
<1>6. run'.pc \notin FoldPc \cup ClearPc \cup ImportPc /\ run'.pc # "sentinel"
  BY <1>1 DEF NoRun, FoldPc, ClearPc, ImportPc
<1>7. ASSUME Careful PROVE EdgesInv' /\ ServedInv' /\ ClearInv' /\ ImportInv' /\ ExportInv'
  <2>1. mark.rev = NoRev /\ ImportInv /\ EdgesInv /\ Kept
    BY <1>1, <1>2, <1>7 DEF Sane, ImportInv, Kept
  <2>2. EdgesInv'
    BY <1>1, <2>1 DEF EdgesInv, MarkOnly
  <2>3. run.from.red = run.build.red /\ run.build.red # 0 /\ Good(run.from)
    BY <1>1, <1>4, <2>1, Basics DEF ImportInv
  <2>4. \A r \in Row : /\ rows[r].op = run.from.rows[r].op /\ rows[r].red = run.from.rows[r].red
                       /\ edges[r].op = rows[r].op /\ edges[r].idx \in {0, run.build.idx}
    BY <1>1, <2>1 DEF ImportInv
  <2>5. By(run.build) /\ Whole(run.from.through)
    BY <2>3, <2>4 DEF By, Whole, Good
  <2>6. ServedInv'
    BY <1>1, <1>5, <2>5 DEF ServedInv, By, Whole, MarkOnly
  <2>7. ClearInv' /\ ImportInv'
    BY <1>6 DEF ClearInv, ImportInv
  <2>8. ExportInv'
    BY <1>1, <1>2, <1>7, <2>1 DEF Sane, ExportInv, MarkOnly
  <2> QED
    BY <2>2, <2>6, <2>7, <2>8
<1> QED
  BY <1>1, <1>2, <1>4, <1>5, <1>6, <1>7, MarkMoves

\* ---------------------------------------------------- clears and imports, item by item

\* A step of a clear or of an import writes rows, entries and its own place: the watermark promises nothing meanwhile.
LEMMA ItemMoves ==
  ASSUME IInv, FoldOnly, ItemsFit, run.pc \in ClearPc \cup ImportPc, run' \in ClearType \cup ImportType,
         run'.pc = run.pc, run.pc # "sentinel",
         run.pc \in ClearPc => run'.until = run.until,
         run.pc \in ImportPc => run'.from = run.from,
         Careful => mark # NoMark /\ mark.rev = NoRev /\ RowsInv' /\ EdgesInv' /\ ClearInv' /\ ImportInv'
  PROVE  IInv'
<1>1. Types /\ Bounds /\ SeenInv /\ (Careful => Sane)
  BY DEF IInv
<1>2. run'.pc \notin FoldPc
  BY DEF ClearPc, ImportPc, FoldPc
<1>3. Types'
  BY <1>1 DEF Types, FoldOnly, ItemsFit
<1>4. Bounds'
  BY <1>1, <1>2 DEF Bounds, SnapBound, FoldOnly, ItemsFit
<1>5. SeenInv'
  BY <1>1, Given DEF SeenInv, FoldOnly
<1>6. ASSUME Careful PROVE Sane'
  <2>1. ServedInv' /\ FirstInv' /\ FoldInv'
    BY <1>2, <1>6 DEF ServedInv, FirstInv, FoldInv, FoldOnly
  <2>2. SnapInv' /\ ExportInv'
    BY <1>1, <1>6 DEF Sane, SnapInv, Good, ExportInv, FoldOnly
  <2> QED
    BY <1>6, <2>1, <2>2 DEF Sane
<1> QED
  BY <1>3, <1>4, <1>5, <1>6, Parts DEF FoldOnly

\* A clear takes an item away.
LEMMA DeleteItemKeeps ==
  ASSUME IInv, DeleteItem
  PROVE  IInv'
<1>1. run.pc = "clear" /\ run.pc \in ClearPc /\ run.pc \notin FoldPc \cup ImportPc /\ FoldOnly
  BY DEF DeleteItem, FoldPc, ClearPc, ImportPc, FoldOnly
<1>2. Types /\ Bounds /\ (Careful => Sane) /\ run \in ClearType /\ head \in Nat
  BY <1>1, RunShape, Basics DEF IInv, Types
<1>3. rows \in [Row -> RowType] /\ edges \in [Row -> EdgeType] /\ run.rows \subseteq Row /\ run.edges \subseteq Row
  BY <1>2 DEF Types, ClearType
<1>4. \A r \in Row : rows[r].op <= head /\ rows[r].flag <= head /\ edges[r].op <= head
  BY <1>2 DEF Bounds
<1>5. NoRow \in RowType /\ NoEdge \in EdgeType /\ NoRow.op = 0 /\ NoRow.flag = 0 /\ NoEdge.op = 0
  BY DEF NoRow, NoEdge, RowType, EdgeType
<1>6. ASSUME Careful PROVE RowsInv /\ ClearInv /\ mark # NoMark /\ mark.rev = NoRev
  BY <1>1, <1>2, <1>6 DEF Sane, ClearInv
<1>7. ASSUME NEW r \in run.rows, rows' = [rows EXCEPT ![r] = NoRow], run' = [run EXCEPT !.rows = @ \ {r}], UNCHANGED edges
      PROVE  IInv'
  <2>1. /\ run' \in ClearType /\ run'.pc = run.pc /\ run'.until = run.until
        /\ run'.rows = run.rows \ {r} /\ run'.edges = run.edges
    BY <1>2, <1>7 DEF ClearType
  <2>2. \A q \in Row : rows'[q] = IF q = r THEN NoRow ELSE rows[q]
    BY <1>3, <1>7
  <2>3. ItemsFit
    <3>1. rows' \in [Row -> RowType]
      BY <1>3, <1>5, <1>7
    <3> QED
      BY <1>2, <1>3, <1>4, <1>5, <1>7, <2>2, <3>1 DEF ItemsFit
  <2>4. ASSUME Careful PROVE RowsInv' /\ EdgesInv' /\ ClearInv' /\ ImportInv'
    <3>1. RowsInv'
      BY <1>5, <1>6, <2>2, <2>4 DEF RowsInv
    <3>2. EdgesInv' /\ ImportInv'
      BY <1>1, <1>6, <2>1, <2>4 DEF EdgesInv, Kept, ImportInv, FoldOnly
    <3>3. ClearInv'
      BY <1>1, <1>6, <1>7, <2>1, <2>2, <2>4 DEF ClearInv, FoldOnly
    <3> QED
      BY <3>1, <3>2, <3>3
  <2> QED
    BY <1>1, <1>6, <2>1, <2>3, <2>4, ItemMoves
<1>8. ASSUME NEW r \in run.edges, edges' = [edges EXCEPT ![r] = NoEdge], run' = [run EXCEPT !.edges = @ \ {r}], UNCHANGED rows
      PROVE  IInv'
  <2>1. /\ run' \in ClearType /\ run'.pc = run.pc /\ run'.until = run.until
        /\ run'.edges = run.edges \ {r} /\ run'.rows = run.rows
    BY <1>2, <1>8 DEF ClearType
  <2>2. \A q \in Row : edges'[q] = IF q = r THEN NoEdge ELSE edges[q]
    BY <1>3, <1>8
  <2>3. ItemsFit
    <3>1. edges' \in [Row -> EdgeType]
      BY <1>3, <1>5, <1>8
    <3> QED
      BY <1>2, <1>3, <1>4, <1>5, <1>8, <2>2, <3>1 DEF ItemsFit
  <2>4. ASSUME Careful PROVE RowsInv' /\ EdgesInv' /\ ClearInv' /\ ImportInv'
    <3>1. RowsInv'
      BY <1>6, <1>8, <2>4 DEF RowsInv
    <3>2. EdgesInv' /\ ImportInv'
      BY <1>1, <1>6, <2>1, <2>4 DEF EdgesInv, Kept, ImportInv, FoldOnly
    <3>3. ClearInv'
      BY <1>1, <1>6, <1>8, <2>1, <2>2, <2>4 DEF ClearInv, FoldOnly
    <3> QED
      BY <3>1, <3>2, <3>3
  <2> QED
    BY <1>1, <1>6, <2>1, <2>3, <2>4, ItemMoves
<1> QED
  BY <1>7, <1>8 DEF DeleteItem

\* What an import relies on.
LEMMA Importing ==
  ASSUME IInv, run.pc = "import"
  PROVE  /\ run.pc \in ImportPc /\ run.pc \notin FoldPc \cup ClearPc /\ run \in ImportType /\ head \in Nat
         /\ rows \in [Row -> RowType] /\ edges \in [Row -> EdgeType] /\ run.rows \subseteq Row /\ run.edges \subseteq Row
         /\ \A r \in Row : /\ rows[r].op <= head /\ rows[r].flag <= head /\ edges[r].op <= head
                           /\ run.from.rows[r].op \in Nat /\ run.from.rows[r].red \in Nat /\ run.from.rows[r].op <= head
         /\ run.build.red \in Nat /\ run.build.idx \in Nat
         /\ Careful => RowsInv /\ EdgesInv /\ Kept /\ ImportInv /\ mark # NoMark /\ mark.rev = NoRev
         /\ Careful => \A r \in Row : run.from.rows[r].op = 0 => run.from.rows[r] = NoRow
<1>1. run.pc \in ImportPc /\ run.pc \notin FoldPc \cup ClearPc /\ Types /\ Bounds /\ (Careful => Sane)
  BY DEF IInv, ImportPc, FoldPc, ClearPc
<1>2. run \in ImportType /\ head \in Nat
  BY <1>1, RunShape, Basics DEF Types
<1>3. rows \in [Row -> RowType] /\ edges \in [Row -> EdgeType] /\ run.rows \subseteq Row /\ run.edges \subseteq Row
  BY <1>1, <1>2 DEF Types, ImportType
<1>4. \A r \in Row : run.from.rows[r].op \in Nat /\ run.from.rows[r].red \in Nat
  BY <1>2 DEF ImportType, SnapType, RowType
<1>5. \A r \in Row : rows[r].op <= head /\ rows[r].flag <= head /\ edges[r].op <= head /\ run.from.rows[r].op <= head
  BY <1>1 DEF Bounds, SnapBound
<1>6. run.build.red \in Nat \ {0} /\ run.build.idx \in Nat
  BY <1>2, Basics DEF ImportType
<1>7. ASSUME Careful
      PROVE  /\ RowsInv /\ EdgesInv /\ Kept /\ ImportInv /\ mark # NoMark /\ mark.rev = NoRev
             /\ \A r \in Row : run.from.rows[r].op = 0 => run.from.rows[r] = NoRow
  <2>1. RowsInv /\ EdgesInv /\ Kept /\ ImportInv /\ mark # NoMark /\ mark.rev = NoRev
    BY <1>1, <1>7 DEF Sane, Kept, ImportInv
  <2>2. Good(run.from) /\ run.from.red # 0
    BY <1>1, <1>6, <2>1 DEF ImportInv
  <2> QED
    BY <2>1, <2>2 DEF Good
<1> QED
  BY <1>1, <1>2, <1>3, <1>4, <1>5, <1>6, <1>7

\* An import writes a row of the snapshot.
LEMMA ImportRowKeeps ==
  ASSUME IInv, ImportRow
  PROVE  IInv'
<1>1. run.pc = "import" /\ FoldOnly /\ UNCHANGED edges
  BY DEF ImportRow, FoldOnly
<1>2. /\ run.pc \in ImportPc /\ run.pc \notin FoldPc \cup ClearPc /\ run \in ImportType /\ head \in Nat
      /\ rows \in [Row -> RowType] /\ edges \in [Row -> EdgeType] /\ run.rows \subseteq Row /\ run.edges \subseteq Row
      /\ \A r \in Row : /\ rows[r].op <= head /\ rows[r].flag <= head /\ edges[r].op <= head
                        /\ run.from.rows[r].op \in Nat /\ run.from.rows[r].red \in Nat /\ run.from.rows[r].op <= head
      /\ Careful => RowsInv /\ EdgesInv /\ Kept /\ ImportInv /\ mark # NoMark /\ mark.rev = NoRev
      /\ Careful => \A r \in Row : run.from.rows[r].op = 0 => run.from.rows[r] = NoRow
  BY <1>1, Importing
<1>3. PICK r \in run.rows :
        /\ rows' = [rows EXCEPT ![r].op = run.from.rows[r].op, ![r].red = run.from.rows[r].red]
        /\ run' = [run EXCEPT !.rows = @ \ {r}, !.edges = @ \cup {r}]
  BY DEF ImportRow
<1> DEFINE new == [rows[r] EXCEPT !.op = run.from.rows[r].op, !.red = run.from.rows[r].red]
<1>4. r \in Row /\ rows' = [rows EXCEPT ![r] = new]
  BY <1>2, <1>3
<1>5. /\ new \in RowType /\ new.op = run.from.rows[r].op /\ new.red = run.from.rows[r].red /\ new.flag = rows[r].flag
  <2>1. rows[r] \in RowType /\ run.from.rows[r].op \in Nat /\ run.from.rows[r].red \in Nat
    BY <1>2, <1>4
  <2> QED
    BY <2>1 DEF RowType
<1> HIDE DEF new
<1>6. \A q \in Row : rows'[q] = IF q = r THEN new ELSE rows[q]
  BY <1>2, <1>4
<1>7. /\ run' \in ImportType /\ run'.pc = run.pc /\ run'.from = run.from /\ run'.build = run.build
      /\ run'.rows = run.rows \ {r} /\ run'.edges = run.edges \cup {r}
  BY <1>2, <1>3, <1>4 DEF ImportType
<1>8. ItemsFit
  <2>1. rows' \in [Row -> RowType]
    BY <1>2, <1>4, <1>5
  <2> QED
    BY <1>1, <1>2, <1>4, <1>5, <1>6, <2>1 DEF ItemsFit
<1>9. ASSUME Careful PROVE RowsInv' /\ EdgesInv' /\ ClearInv' /\ ImportInv'
  <2>1. rows[r] = NoRow /\ edges[r] = NoEdge /\ run.from.rows[r] # NoRow /\ rows[r].flag = 0 /\ new.flag = 0
    BY <1>2, <1>4, <1>5, <1>9 DEF ImportInv, NoRow
  <2>2. new.op # 0
    BY <1>2, <1>4, <1>5, <1>9, <2>1
  <2>3. RowsInv'
    BY <1>2, <1>6, <1>9, <2>1, <2>2 DEF RowsInv
  <2>4. EdgesInv'
    BY <1>1, <1>2, <1>6, <1>9, <2>1, <2>2 DEF EdgesInv
  <2>5. ClearInv'
    BY <1>2, <1>7 DEF ClearInv
  <2>6. ImportInv'
    <3>1. \A q \in Row :
             /\ q \in run'.rows => rows'[q] = NoRow /\ edges'[q] = NoEdge /\ run'.from.rows[q] # NoRow /\ q \notin run'.edges
             /\ q \notin run'.rows => rows'[q].op = run'.from.rows[q].op /\ rows'[q].red = run'.from.rows[q].red
             /\ q \in run'.edges => edges'[q] = NoEdge /\ rows'[q].flag = 0
             /\ q \notin run'.rows \cup run'.edges => edges'[q].op = rows'[q].op
             /\ edges'[q].idx \in {0, run'.build.idx}
      BY <1>1, <1>2, <1>5, <1>6, <1>7, <1>9, <2>1 DEF ImportInv
    <3> QED
      BY <1>1, <1>2, <1>7, <1>9, <3>1 DEF ImportInv, Good, FoldOnly
  <2> QED
    BY <2>3, <2>4, <2>5, <2>6
<1> QED
  BY <1>1, <1>2, <1>7, <1>8, <1>9, ItemMoves

\* It derives the entries of a row from the row.
LEMMA ReindexKeeps ==
  ASSUME IInv, Reindex
  PROVE  IInv'
<1>1. run.pc = "import" /\ FoldOnly /\ run.rows = {}
  BY DEF Reindex, FoldOnly
<1>2. /\ run.pc \in ImportPc /\ run.pc \notin FoldPc \cup ClearPc /\ run \in ImportType /\ head \in Nat
      /\ rows \in [Row -> RowType] /\ edges \in [Row -> EdgeType] /\ run.rows \subseteq Row /\ run.edges \subseteq Row
      /\ \A r \in Row : rows[r].op <= head /\ rows[r].flag <= head /\ edges[r].op <= head
      /\ run.build.idx \in Nat
      /\ Careful => RowsInv /\ EdgesInv /\ Kept /\ ImportInv /\ mark # NoMark /\ mark.rev = NoRev
  BY <1>1, Importing
<1>3. PICK r \in run.edges :
        /\ edges' = [edges EXCEPT ![r] = [op |-> rows[r].op, idx |-> run.build.idx]]
        /\ rows' = [rows EXCEPT ![r].flag = rows[r].op]
        /\ run' = [run EXCEPT !.edges = @ \ {r}]
  BY DEF Reindex
<1> DEFINE newE == [op |-> rows[r].op, idx |-> run.build.idx]
           newR == [rows[r] EXCEPT !.flag = rows[r].op]
<1>4. r \in Row /\ rows' = [rows EXCEPT ![r] = newR] /\ edges' = [edges EXCEPT ![r] = newE]
  BY <1>2, <1>3
<1>5. rows[r] \in RowType /\ rows[r].op \in Nat
  BY <1>2, <1>4 DEF RowType
<1>6. newR \in RowType /\ newR.op = rows[r].op /\ newR.red = rows[r].red /\ newR.flag = rows[r].op
  BY <1>5 DEF RowType
<1>7. newE \in EdgeType /\ newE.op = rows[r].op /\ newE.idx = run.build.idx
  BY <1>2, <1>5 DEF EdgeType
<1>8. rows[r] = NoRow => newR = NoRow
  BY DEF NoRow
<1> HIDE DEF newE, newR
<1>9. \A q \in Row : rows'[q] = (IF q = r THEN newR ELSE rows[q]) /\ edges'[q] = (IF q = r THEN newE ELSE edges[q])
  BY <1>2, <1>4
<1>10. /\ run' \in ImportType /\ run'.pc = run.pc /\ run'.from = run.from /\ run'.build = run.build
       /\ run'.rows = {} /\ run'.edges = run.edges \ {r}
  BY <1>1, <1>2, <1>3 DEF ImportType
<1>11. ItemsFit
  <2>1. rows' \in [Row -> RowType] /\ edges' \in [Row -> EdgeType]
    BY <1>2, <1>4, <1>6, <1>7
  <2> QED
    BY <1>2, <1>4, <1>6, <1>7, <1>9, <2>1 DEF ItemsFit
<1>12. ASSUME Careful PROVE RowsInv' /\ EdgesInv' /\ ClearInv' /\ ImportInv'
  <2>1. RowsInv'
    BY <1>2, <1>6, <1>8, <1>9, <1>12 DEF RowsInv
  <2>2. EdgesInv'
    BY <1>2, <1>6, <1>7, <1>9, <1>12 DEF EdgesInv
  <2>3. ClearInv'
    BY <1>2, <1>10 DEF ClearInv
  <2>4. ImportInv'
    <3>1. \A q \in Row :
             /\ q \notin run'.rows /\ rows'[q].op = run'.from.rows[q].op /\ rows'[q].red = run'.from.rows[q].red
             /\ q \in run'.edges => edges'[q] = NoEdge /\ rows'[q].flag = 0
             /\ q \notin run'.rows \cup run'.edges => edges'[q].op = rows'[q].op
             /\ edges'[q].idx \in {0, run'.build.idx}
      BY <1>1, <1>2, <1>6, <1>7, <1>9, <1>10, <1>12 DEF ImportInv
    <3> QED
      BY <1>1, <1>2, <1>10, <1>12, <3>1 DEF ImportInv, Good, FoldOnly
  <2> QED
    BY <2>1, <2>2, <2>3, <2>4
<1> QED
  BY <1>1, <1>2, <1>10, <1>11, <1>12, ItemMoves

\* --------------------------------------------------------------------- exports

\* Everything but the export, its snapshot and its bound stays.
ExportOnly == UNCHANGED <<given, head, mark, rows, edges, build, run, seen>>

\* A step of an export has to keep what it has read, and what it leaves.
LEMMA ExportMoves ==
  ASSUME IInv, ExportOnly, export' \in {NoExport} \cup ExportType, snapshot' \in {NoSnapshot} \cup SnapType,
         spent' \in [crashes : Nat, deploys : Nat, exports : Nat], MaxExports # 0,
         snapshot' # NoSnapshot => SnapBound(snapshot'),
         export'.pc = "tables" => export'.mark.through <= head /\ \A r \in Row : export'.rows[r].op <= head,
         Careful => SnapInv' /\ ExportInv'
  PROVE  IInv'
<1>1. Types /\ Bounds /\ (Careful => Sane)
  BY DEF IInv
<1>2. Types'
  BY <1>1 DEF Types, ExportOnly
<1>3. Bounds'
  BY <1>1 DEF Bounds, SnapBound, ExportOnly
<1>4. SeenInv'
  BY Given DEF SeenInv, ExportOnly
<1>5. ASSUME Careful PROVE Sane'
  <2>1. RowsInv' /\ EdgesInv' /\ ServedInv' /\ FirstInv'
    BY <1>1, <1>5 DEF Sane, RowsInv, EdgesInv, Kept, ServedInv, FirstInv, By, Whole, ExportOnly
  <2>2. FoldInv' /\ ClearInv' /\ ImportInv'
    BY <1>1, <1>5 DEF Sane, FoldInv, ClearInv, ImportInv, By, Whole, Good, ExportOnly
  <2> QED
    BY <1>5, <2>1, <2>2 DEF Sane
<1> QED
  BY <1>2, <1>3, <1>4, <1>5, Parts DEF ExportOnly

\* An export reads the watermark.
LEMMA ExportMarkKeeps ==
  ASSUME IInv, ExportMark
  PROVE  IInv'
<1>1. Types /\ Bounds /\ (Careful => Sane) /\ head \in Nat /\ mark \in LiveMark
  BY Basics DEF IInv, Types, ExportMark
<1>2. ExportOnly /\ UNCHANGED snapshot
  BY DEF ExportMark, ExportOnly
<1>3. export' = [pc |-> "tables", mark |-> mark, left |-> Row, rows |-> [r \in Row |-> NoRow]]
  BY DEF ExportMark
<1>4. NoRow \in RowType /\ NoRow.op = 0
  BY DEF NoRow, RowType
<1>5. /\ export' \in ExportType /\ export'.mark = mark /\ export'.left = Row
      /\ \A r \in Row : export'.rows[r] = NoRow
  BY <1>1, <1>3, <1>4 DEF ExportType
<1>6. spent' \in [crashes : Nat, deploys : Nat, exports : Nat] /\ MaxExports # 0
  <2>1. spent \in [crashes : Nat, deploys : Nat, exports : Nat] /\ spent.exports < MaxExports /\ spent' = [spent EXCEPT !["exports"] = @ + 1]
    BY <1>1 DEF Types, ExportMark, Spend
  <2>2. spent.exports \in Nat
    BY <2>1
  <2> QED
    BY <2>1, <2>2
<1>7. mark.through <= head /\ \A r \in Row : export'.rows[r].op <= head
  BY <1>1, <1>4, <1>5 DEF Bounds
<1>8. snapshot # NoSnapshot => SnapBound(snapshot)
  BY <1>1 DEF Bounds
<1>9. ASSUME Careful PROVE SnapInv' /\ ExportInv'
  <2>1. SnapInv'
    BY <1>1, <1>2, <1>9 DEF Sane, SnapInv, Good
  <2>2. run.pc \notin ClearPc
    BY <1>9 DEF ExportMark, ClearPc
  <2>3. mark.through \in Int
    BY <1>1 DEF LiveMark
  <2>4. ExportInv'
    BY <1>2, <1>5, <2>2, <2>3 DEF ExportInv, ExportOnly
  <2> QED
    BY <2>1, <2>4
<1>10. snapshot' \in {NoSnapshot} \cup SnapType /\ (snapshot' # NoSnapshot => SnapBound(snapshot'))
  BY <1>1, <1>2, <1>8 DEF Types
<1> QED
  BY <1>2, <1>5, <1>6, <1>7, <1>9, <1>10, ExportMoves

\* It reads a table, which a fold beside it may have moved ahead of the watermark it read.
LEMMA ExportTableKeeps ==
  ASSUME IInv, ExportTable
  PROVE  IInv'
<1>1. export.pc = "tables" /\ ExportOnly /\ UNCHANGED <<snapshot, spent>>
  BY DEF ExportTable, ExportOnly
<1>2. Types /\ Bounds /\ SeenInv /\ (Careful => Sane) /\ head \in Nat /\ export \in ExportType /\ export # NoExport
  BY <1>1, ExportShape, Basics DEF IInv, Types
<1>3. PICK r \in export.left : export' = [export EXCEPT !.left = @ \ {r}, !.rows[r] = [rows[r] EXCEPT !.flag = 0]]
  BY DEF ExportTable
<1> DEFINE new == [rows[r] EXCEPT !.flag = 0]
<1>4. r \in Row /\ rows \in [Row -> RowType] /\ rows[r] \in RowType /\ export.rows \in [Row -> RowType]
  BY <1>2, <1>3 DEF Types, ExportType
<1>5. new \in RowType /\ new.op = rows[r].op /\ new.red = rows[r].red
  BY <1>4 DEF RowType
<1>6. rows[r] = NoRow => new = NoRow
  BY DEF NoRow
<1>7. export' = [export EXCEPT !.left = export.left \ {r}, !.rows = [export.rows EXCEPT ![r] = new]]
  BY <1>2, <1>3 DEF ExportType
<1> HIDE DEF new
<1>8. /\ export' \in ExportType /\ export'.pc = "tables" /\ export'.mark = export.mark /\ export'.left = export.left \ {r}
      /\ export'.rows = [export.rows EXCEPT ![r] = new]
  BY <1>2, <1>4, <1>5, <1>7 DEF ExportType
<1>9. \A q \in Row : export'.rows[q] = IF q = r THEN new ELSE export.rows[q]
  BY <1>4, <1>8
<1>10. export'.mark.through <= head /\ \A q \in Row : export'.rows[q].op <= head
  BY <1>1, <1>2, <1>4, <1>5, <1>8, <1>9 DEF Bounds
<1>11. spent' \in [crashes : Nat, deploys : Nat, exports : Nat] /\ MaxExports # 0
  BY <1>1, <1>2 DEF Types, SeenInv
<1>12. snapshot' \in {NoSnapshot} \cup SnapType /\ (snapshot' # NoSnapshot => SnapBound(snapshot'))
  BY <1>1, <1>2 DEF Types, Bounds
<1>13. ASSUME Careful PROVE SnapInv' /\ ExportInv'
  <2>1. SnapInv'
    BY <1>1, <1>2, <1>13 DEF Sane, SnapInv, Good
  <2>2. ASSUME export.mark.rev # NoRev
        PROVE  /\ Shown(new.op, r, export.mark.through) /\ new.red \in {0, export.mark.rev.red}
               /\ new.op = 0 => new = NoRow
    <3>1. mark.rev = export.mark.rev /\ export.mark.through <= mark.through /\ By(mark.rev) /\ Whole(mark.through) /\ RowsInv
      BY <1>1, <1>2, <1>13, <2>2 DEF Sane, ExportInv, ServedInv
    <3>2. export.mark.through \in Int /\ mark.through \in Int
      BY <1>2 DEF Types, ExportType, LiveMark, NoMark
    <3>3. Shown(rows[r].op, r, export.mark.through)
      BY <1>4, <3>1, <3>2, ShownLess DEF Whole
    <3> QED
      BY <1>4, <1>5, <1>6, <3>1, <3>3 DEF By, RowsInv
  <2>3. ExportInv
    BY <1>2, <1>13 DEF Sane
  <2>4. ExportInv'
    BY <1>1, <1>8, <1>9, <2>2, <2>3 DEF ExportInv, ExportOnly
  <2> QED
    BY <2>1, <2>4
<1> QED
  BY <1>1, <1>8, <1>10, <1>11, <1>12, <1>13, ExportMoves

\* It is over, and a snapshot is left.
LEMMA ExportEndsKeeps ==
  ASSUME IInv, ExportEnds
  PROVE  IInv'
<1>1. export.pc = "tables" /\ export.left = {} /\ ExportOnly /\ UNCHANGED spent /\ export' = NoExport
  BY DEF ExportEnds, ExportOnly
<1>2. Types /\ Bounds /\ SeenInv /\ (Careful => Sane) /\ export \in ExportType /\ export # NoExport
  BY <1>1, ExportShape DEF IInv
<1>3. snapshot' = [through |-> export.mark.through, red |-> export.mark.rev.red, other |-> export.mark.rev.other,
                   rows |-> export.rows]
  BY DEF ExportEnds
<1>4. export.mark.through \in Nat /\ export.mark.rev.red \in Nat /\ export.mark.rev.other \in Nat /\ export.rows \in [Row -> RowType]
  BY <1>2, Basics DEF ExportType, LiveMark
<1>5. /\ snapshot' \in SnapType /\ snapshot'.through = export.mark.through
      /\ snapshot'.red = export.mark.rev.red /\ snapshot'.rows = export.rows
  BY <1>3, <1>4 DEF SnapType
<1>6. SnapBound(snapshot')
  BY <1>1, <1>2, <1>5 DEF SnapBound, Bounds
<1>7. spent' \in [crashes : Nat, deploys : Nat, exports : Nat] /\ MaxExports # 0
  BY <1>1, <1>2 DEF Types, SeenInv
<1>8. export'.pc # "tables"
  BY <1>1 DEF NoExport
<1>9. ASSUME Careful PROVE SnapInv' /\ ExportInv'
  <2>1. ExportInv'
    BY <1>8 DEF ExportInv
  <2>2. snapshot'.red # 0 => export.mark.rev # NoRev
    BY <1>5, Basics
  <2>3. Good(snapshot')
    BY <1>1, <1>2, <1>5, <1>9, <2>2 DEF Sane, ExportInv, Good
  <2> QED
    BY <2>1, <2>3 DEF SnapInv, Good
<1> QED
  BY <1>1, <1>5, <1>6, <1>7, <1>8, <1>9, ExportMoves

\* -------------------------------------------------------------------- theorems

\* A stream begins empty.
LEMMA InitIInv == Init => IInv
<1> SUFFICES ASSUME Init PROVE IInv
  OBVIOUS
<1>1. /\ rows = [r \in Row |-> NoRow] /\ edges = [r \in Row |-> NoEdge] /\ mark = NoMark /\ head = 0 /\ seen = 0
      /\ run.pc = "idle" /\ export.pc = "idle" /\ run = NoRun /\ export = NoExport /\ snapshot = NoSnapshot
  BY DEF Init, NoRun, NoExport
<1>2. NoRow \in RowType /\ NoEdge \in EdgeType /\ NoRow.op = 0 /\ NoRow.red = 0 /\ NoRow.flag = 0 /\ NoEdge.op = 0 /\ NoEdge.idx = 0
  BY DEF NoRow, NoEdge, RowType, EdgeType
<1>3. mark.through = -1 /\ mark.rev = NoRev /\ mark.until = 0
  BY <1>1 DEF NoMark
<1>4. Types
  <2>1. spent \in [crashes : Nat, deploys : Nat, exports : Nat]
    BY DEF Init
  <2>2. rows \in [Row -> RowType] /\ edges \in [Row -> EdgeType]
    BY <1>1, <1>2
  <2>3. head \in 0..Len(Target)
    BY <1>1, Basics
  <2> QED
    BY <1>1, <2>1, <2>2, <2>3 DEF Init, Types
<1>5. run.pc \notin FoldPc \cup ClearPc \cup ImportPc /\ run.pc # "sentinel"
  BY <1>1 DEF FoldPc, ClearPc, ImportPc
<1>6. Bounds
  BY <1>1, <1>2, <1>3, <1>5 DEF Bounds
<1>7. SeenInv
  BY <1>1, <1>3, <1>5 DEF SeenInv
<1>8. Sane
  <2>1. RowsInv /\ EdgesInv /\ ServedInv /\ FirstInv
    BY <1>1, <1>2, <1>3 DEF RowsInv, EdgesInv, ServedInv, FirstInv, By
  <2>2. FoldInv /\ ClearInv /\ ImportInv /\ SnapInv /\ ExportInv
    BY <1>1, <1>5 DEF FoldInv, ClearInv, ImportInv, SnapInv, ExportInv
  <2> QED
    BY <2>1, <2>2 DEF Sane
<1> QED
  BY <1>4, <1>6, <1>7, <1>8 DEF IInv

\* Every step keeps the invariant.
LEMMA NextIInv == IInv /\ [Next]_vars => IInv'
<1> SUFFICES ASSUME IInv, [Next]_vars PROVE IInv'
  OBVIOUS
<1>1. CASE Fold
  BY <1>1, FoldRowKeeps, FoldEdgesKeeps, FoldFlagKeeps, AdvanceKeeps DEF Fold
<1>2. CASE Clear
  BY <1>2, ClearMarkKeeps, DeleteItemKeeps, RefoldKeeps DEF Clear
<1>3. CASE Start
  BY <1>3, ImportMarkKeeps, ImportRowKeeps, ReindexKeeps, StampKeeps DEF Start
<1>4. CASE Store \/ Deploy \/ Begin \/ CheckCurrent \/ ReadEnds \/ Crash
  BY <1>4, StoreKeeps, DeployKeeps, BeginKeeps, ReadKeeps, CrashKeeps
<1>5. CASE ExportMark \/ ExportTable \/ ExportEnds \/ Import
  BY <1>5, ExportMarkKeeps, ExportTableKeeps, ExportEndsKeeps, ImportKeeps
<1>6. CASE UNCHANGED vars
  <2>1. Types /\ Bounds /\ SeenInv /\ (Careful => Sane)
    BY DEF IInv
  <2>2. Types' /\ SeenInv'
    BY <1>6, <2>1, Given DEF vars, Types, SeenInv
  <2> QED
    BY <1>6, <2>1, <2>2, BoundsSame, SaneSame, Parts DEF vars
<1> QED
  BY <1>1, <1>2, <1>3, <1>4, <1>5, <1>6 DEF Next

\* The invariant holds throughout.
LEMMA Invariance == Spec => []IInv
BY InitIInv, NextIInv, PTL DEF Spec

\* ------------------------------------------------------------------ the readers

ReaderType == [pc : {"items"}, build : Builds, through : Int, cleared : BOOLEAN]

\* As long as no clear begins, the watermark lets a reader in that it has let in, and has not fallen behind it.
ReaderInv ==
    /\ reader \in {NoReader} \cup ReaderType
    /\ Careful /\ Reading /\ reader.through >= 0 => Serves(reader.build) /\ reader.through <= mark.through

\* Where a watermark that lets a reader in is written, it is a fold's, of the same revisions and further on.
LEMMA MarkStands ==
  ASSUME IInv, Careful, NEW b \in Builds, Serves(b), mark # NoMark, Advance \/ ImportMark \/ Stamp
  PROVE  Serves(b)' /\ mark.through <= mark'.through
<1>1. Types /\ Sane
  BY DEF IInv
<1>2. mark \in LiveMark /\ mark.rev.red = b.red /\ mark.rev.idx = b.idx /\ mark.through >= mark.until /\ mark.rev # NoRev
  BY <1>1, Basics DEF Types, Serves
<1>3. CASE ImportMark \/ Stamp
  <2>1. run.pc \in ImportPc
    BY <1>3 DEF ImportMark, Stamp, ImportPc
  <2> QED
    BY <1>1, <1>2, <2>1 DEF Sane, ImportInv
<1>4. CASE Advance
  <2>1. run.pc \in FoldPc
    BY <1>4 DEF Advance, FoldPc
  <2>2. mark.rev = run.build /\ run \in FoldType
    BY <1>1, <1>2, <2>1, RunShape DEF Sane, FoldInv
  <2>3. mark.through \in Int /\ mark.until \in Int /\ run.last \in Int
    BY <1>2, <2>2 DEF LiveMark, FoldType
  <2>4. CASE run.last > mark.through
    <3>1. mark' = [mark EXCEPT !.through = run.last, !.rev = run.build]
      BY <1>4, <2>4 DEF Advance, Advanced
    <3>2. mark'.through = run.last /\ mark'.rev = mark.rev /\ mark'.until = mark.until
      BY <1>2, <2>2, <3>1 DEF LiveMark
    <3> QED
      BY <1>2, <2>3, <2>4, <3>2 DEF Serves
  <2>5. CASE ~(run.last > mark.through)
    <3>1. mark' = mark
      BY <1>4, <2>5 DEF Advance
    <3> QED
      BY <2>3, <3>1 DEF Serves
  <2> QED
    BY <2>4, <2>5
<1> QED
  BY <1>3, <1>4

\* Every step keeps what is known of a reader.
LEMMA ReaderStep ==
  ASSUME IInv, ReaderInv, [Next]_vars
  PROVE  ReaderInv'
<1>1. mark \in {NoMark} \cup LiveMark /\ NoMark.through = -1 /\ mark.through \in Int
  BY DEF IInv, Types, NoMark, LiveMark
<1>2. CASE CheckCurrent
  <2>1. PICK b \in Builds : /\ Serves(b)
                            /\ reader' = [pc |-> "items", build |-> b, through |-> mark.through, cleared |-> FALSE]
    BY <1>2 DEF CheckCurrent
  <2>2. mark' = mark
    BY <1>2 DEF CheckCurrent
  <2>3. reader' \in ReaderType /\ reader'.build = b /\ reader'.through = mark.through
    BY <1>1, <2>1 DEF ReaderType
  <2>4. Serves(b)'
    BY <2>1, <2>2 DEF Serves
  <2> QED
    BY <1>1, <2>2, <2>3, <2>4 DEF ReaderInv
<1>3. CASE ReadEnds
  <2>1. reader' = NoReader
    BY <1>3 DEF ReadEnds
  <2> QED
    BY <2>1 DEF ReaderInv, Reading
<1>4. CASE ClearMark
  <2>1. CASE reader = NoReader
    <3>1. reader' = NoReader
      BY <1>4, <2>1 DEF ClearMark
    <3> QED
      BY <3>1 DEF ReaderInv, Reading
  <2>2. CASE reader # NoReader
    <3>1. reader' = [reader EXCEPT !.cleared = TRUE] /\ reader \in ReaderType
      BY <1>4, <2>2 DEF ClearMark, ReaderInv
    <3>2. reader' \in ReaderType /\ reader'.cleared
      BY <3>1 DEF ReaderType
    <3> QED
      BY <3>2 DEF ReaderInv, Reading
  <2> QED
    BY <2>1, <2>2
<1>5. CASE Advance \/ ImportMark \/ Stamp
  <2>1. reader' = reader /\ given' = given
    BY <1>5 DEF Advance, ImportMark, Stamp
  <2> SUFFICES ASSUME Careful, Reading, reader.through >= 0
               PROVE  Serves(reader.build)' /\ reader.through <= mark'.through
    BY <2>1, Given DEF ReaderInv, Reading
  <2>2. /\ reader \in ReaderType /\ reader.build \in Builds /\ reader.through \in Int
        /\ Serves(reader.build) /\ reader.through <= mark.through
    BY DEF ReaderInv, Reading, ReaderType
  <2>3. mark # NoMark
    BY <1>1, <2>2
  <2> DEFINE b == reader.build
  <2>4. b \in Builds /\ Serves(b)
    BY <2>2
  <2>5. b' = b
    BY <2>1
  <2> HIDE DEF b
  <2>6. Serves(b)' /\ mark.through <= mark'.through
    <3>1. \A c \in Builds : Serves(c) => Serves(c)' /\ mark.through <= mark'.through
      BY <1>5, <2>3, MarkStands
    <3> QED
      BY <2>4, <2>5, <3>1 DEF Serves
  <2>7. mark'.through \in Int
    BY NextIInv DEF IInv, Types, NoMark, LiveMark
  <2> QED
    BY <1>1, <2>2, <2>6, <2>7 DEF b
<1>6. CASE UNCHANGED <<mark, reader, given>>
  <2>1. Serves(reader.build)' = Serves(reader.build)
    BY <1>6 DEF Serves
  <2> QED
    BY <1>6, <2>1, Given DEF ReaderInv, Reading
<1>7. \/ CheckCurrent \/ ReadEnds \/ ClearMark \/ Advance \/ ImportMark \/ Stamp
      \/ UNCHANGED <<mark, reader, given>>
  BY DEF Next, vars, Fold, Clear, Start, Store, Deploy, Begin, FoldRow, FoldEdges, FoldFlag, DeleteItem, Refold,
         ExportMark, ExportTable, ExportEnds, Import, ImportRow, Reindex, Crash
<1> QED
  BY <1>2, <1>3, <1>4, <1>5, <1>6, <1>7

\* It holds throughout.
LEMMA ReaderInvariance == Spec => [](IInv /\ ReaderInv)
<1>1. Init => ReaderInv
  BY DEF Init, ReaderInv, Reading
<1>2. IInv /\ ReaderInv /\ [Next]_vars => ReaderInv'
  BY ReaderStep
<1> QED
  BY <1>1, <1>2, InitIInv, NextIInv, PTL DEF Spec

\* Nothing in the server's copy is ahead of the relay: no watermark, row, entry, snapshot or answer names a position
\* that the relay has not stored (fold.rs, snapshot.rs), whatever dies and is folded again.
THEOREM NothingIsAhead == Spec => []TypeOK
<1>1. ASSUME IInv PROVE TypeOK
  <2>1. Types /\ Bounds /\ head \in Nat
    BY <1>1, Basics DEF IInv, Types
  <2>2. mark.through \in -1..head /\ mark.until \in 0..head /\ mark.rev \in Builds \cup {NoRev}
    BY <2>1 DEF Types, Bounds, NoMark, LiveMark
  <2>3. \A r \in Row : rows[r].op \in 0..head /\ rows[r].flag \in 0..head /\ edges[r].op \in 0..head
    BY <2>1 DEF Types, Bounds, RowType, EdgeType
  <2>4. snapshot.through \in -1..head
    BY <2>1 DEF Types, Bounds, SnapBound, SnapType, NoSnapshot
  <2>5. seen \in 0..head
    BY <2>1 DEF Types, Bounds
  <2> QED
    BY <2>1, <2>2, <2>3, <2>4, <2>5 DEF TypeOK, Types
<1> QED
  BY <1>1, Invariance, PTL

\* A reader finds everything up to the position it was let in at, folded by its own build's rules (records.rs
\* check_current), for any ops in any order of coordinates, through deaths between any two writes, deployments and
\* snapshots, unless a clear begins while it reads.  Whoever drives the runs is careful: no clear during an export, no
\* import over leftovers, no deployment before the first batch has its watermark.
THEOREM ServedStaysCurrent == Spec => []ServedIsCurrent
<1>1. ASSUME IInv, ReaderInv PROVE ServedIsCurrent
  <2>1. Types /\ (Careful => Sane)
    BY <1>1 DEF IInv
  <2>2. ASSUME Careful, Reading, reader.through >= 0
        PROVE  /\ Whole(mark.through) /\ By(reader.build) /\ reader.through <= mark.through
               /\ reader.through \in Int /\ mark.through \in Int
    <3>1. /\ reader.build \in Builds /\ reader.through \in Int /\ Serves(reader.build) /\ reader.through <= mark.through
      BY <1>1, <2>2 DEF ReaderInv, Reading, ReaderType
    <3>2. mark.through \in Int /\ mark # NoMark
      BY <2>1, <2>2, <3>1 DEF Types, NoMark, LiveMark
    <3>3. mark.rev # NoRev /\ mark.rev.red = reader.build.red /\ mark.rev.idx = reader.build.idx
      BY <3>1, <3>2, Basics DEF Serves
    <3>4. Whole(mark.through) /\ By(mark.rev)
      BY <2>1, <2>2, <3>3 DEF Sane, ServedInv
    <3> QED
      BY <3>1, <3>2, <3>3, <3>4 DEF By
  <2>3. ServedIsWhole
    <3> SUFFICES ASSUME Careful, Reading, NEW r \in Row PROVE Shows(rows[r].op, r) /\ Shows(edges[r].op, r)
      BY DEF ServedIsWhole, AllShown
    <3>1. CASE reader.through >= 0
      <4>1. Claimed(r) \subseteq {k \in DOMAIN Target : k <= mark.through /\ Target[k] = r /\ k \notin Refused}
        BY <2>2, <3>1, Basics DEF Claimed
      <4> QED
        BY <2>2, <3>1, <4>1 DEF Whole, Shown, Shows
    <3>2. CASE ~(reader.through >= 0)
      <4>1. reader.through \in Int
        BY <1>1 DEF ReaderInv, Reading, ReaderType
      <4>2. Claimed(r) = {}
        BY <3>2, <4>1, Basics DEF Claimed
      <4> QED
        BY <4>2 DEF Shows
    <3> QED
      BY <3>1, <3>2
  <2>4. ServedByItsRules
    BY <2>2 DEF By, ServedByItsRules
  <2> QED
    BY <2>3, <2>4 DEF ServedIsCurrent
<1> QED
  BY <1>1, ReaderInvariance, PTL

\* A reader that was let in at a position is not let in at a lower one later, unless a snapshot was imported (fold.rs
\* refold_until): the clear's watermark remembers how far the refold has to come.
THEOREM ServedNeverShrinks == Spec => []NeverServedLess
<1>1. ASSUME IInv PROVE NeverServedLess
  <2>1. Types /\ SeenInv
    BY <1>1 DEF IInv
  <2>2. mark.through \in Int /\ mark.until \in Int /\ seen \in Nat
    BY <2>1 DEF Types, NoMark, LiveMark
  <2>3. mark = NoMark => mark.through = -1 /\ mark.until = 0
    BY DEF NoMark
  <2> QED
    BY <2>1, <2>2, <2>3 DEF SeenInv, NeverServedLess, Serves
<1> QED
  BY <1>1, Invariance, PTL
=============================================================================
