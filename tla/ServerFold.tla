----------------------------- MODULE ServerFold -----------------------------
(* The server's copy of one stream (crates/fold-ddb: fold.rs, board.rs,       *)
(* snapshot.rs, records.rs): a run folds the relay's ops into DynamoDB rows,  *)
(* derives the board's indexes from them and moves the watermark; readers     *)
(* check the watermark and then read item after item.  Every write is an item *)
(* of its own and nothing spans two, so a run may die between any two, and a  *)
(* reader sees what is there when it comes to an item.                        *)
(*                                                                            *)
(* Another build clears the stream and folds it again.  A snapshot is read    *)
(* beside a run, without a lock, and starts an emptied stream.  A stream is   *)
(* folded by one run at a time; what decides what a run does (Begin) is       *)
(* outside the crate.  A row is the op that won it and the reducer's revision *)
(* that wrote it.  Of the indexes two entries per row are kept: the row's own *)
(* flag, and the entries of the edges that its activity is copied to.         *)
EXTENDS Integers, FiniteSets, Sequences

CONSTANTS
    Target,      \* the row each op of the relay writes
    Rank,        \* the order of the ops' coordinates
    Refused,     \* ops no table can hold
    Builds,      \* the builds that are deployed: revisions of the task reducer, the index rules, the other reducers
    Batch,       \* bound on the ops of a batch
    Settings     \* Settings[n]: what happens to the stream

Row == {Target[n] : n \in DOMAIN Target}

ASSUME OpAssumption ==
    /\ Target \in Seq(Row) /\ Rank \in [DOMAIN Target -> Nat]
    /\ Refused \subseteq DOMAIN Target /\ Batch \in Nat \ {0}
ASSUME BuildAssumption == Builds \subseteq [red : Nat \ {0}, idx : Nat \ {0}, other : Nat \ {0}]

VARIABLES
    given,     \* the setting of this stream
    head,      \* the relay's last position
    mark,      \* the watermark item: through, rev, until
    rows,      \* each row: op, red, flag
    edges,     \* each row's copies in its edges' entries: op, idx
    build,     \* the build that is deployed
    run,       \* the run at work
    export,    \* an export at work
    snapshot,  \* the last snapshot taken
    reader,    \* a reader at work: its build, the position it was let in at, whether a clear began since
    seen,      \* the highest position a reader was let in at
    spent      \* what the bounds have used up

vars == <<given, head, mark, rows, edges, build, run, export, snapshot, reader, seen, spent>>

MaxCrashes == Settings[given].crashes   \* bound on runs that die
MaxDeploys == Settings[given].deploys   \* bound on deployments
MaxExports == Settings[given].exports   \* bound on snapshots
Careful == Settings[given].careful      \* nobody clears during an export, imports over leftovers, or deploys in the first batch

ASSUME SettingsAssumption ==
    \A n \in DOMAIN Settings : /\ Settings[n].careful \in BOOLEAN
                                /\ Settings[n].crashes \in Nat /\ Settings[n].deploys \in Nat /\ Settings[n].exports \in Nat

NoRev == [red |-> 0, idx |-> 0, other |-> 0]
NoMark == [through |-> -1, rev |-> NoRev, until |-> 0]
NoRow == [op |-> 0, red |-> 0, flag |-> 0]
NoEdge == [op |-> 0, idx |-> 0]
NoRun == [pc |-> "idle"]
NoExport == [pc |-> "idle"]
NoSnapshot == [through |-> -1]
NoReader == [pc |-> "idle"]

Init ==
    /\ given \in DOMAIN Settings
    /\ head = 0
    /\ mark = NoMark
    /\ rows = [r \in Row |-> NoRow]
    /\ edges = [r \in Row |-> NoEdge]
    /\ build \in Builds
    /\ run = NoRun
    /\ export = NoExport
    /\ snapshot = NoSnapshot
    /\ reader = NoReader
    /\ seen = 0
    /\ spent = [crashes |-> 0, deploys |-> 0, exports |-> 0]

Spend(what, bound) == spent[what] < bound /\ spent' = [spent EXCEPT ![what] = @ + 1]

\* ---------------------------------------------------------- the relay, deploys

\* The relay stores another op.
Store ==
    /\ head < Len(Target)
    /\ head' = head + 1
    /\ UNCHANGED <<given, mark, rows, edges, build, run, export, snapshot, reader, seen, spent>>

\* Another build is deployed, also an older one; a run at work goes on with its own.
Deploy ==
    /\ Careful => mark # NoMark
    /\ \E b \in Builds \ {build} : build' = b
    /\ Spend("deploys", MaxDeploys)
    /\ UNCHANGED <<given, head, mark, rows, edges, run, export, snapshot, reader, seen>>

\* ------------------------------------------------------------------- the fold

\* is_current
IsCurrent(b) == mark.rev = b

\* fold_batch of the ops from one position to another.
Folding(b, from, last) == [pc |-> "row", build |-> b, at |-> from, last |-> last]

\* A run begins: a stream that other rules folded is cleared, another goes on behind its watermark.
Begin ==
    /\ run = NoRun
    /\ \/ /\ mark # NoMark /\ ~IsCurrent(build)
          /\ Careful => export = NoExport
          /\ run' = [pc |-> "sentinel", build |-> build, until |-> head,
                     rows |-> {r \in Row : rows[r] # NoRow}, edges |-> {r \in Row : edges[r] # NoEdge}]
       \/ /\ mark = NoMark \/ IsCurrent(build)
          /\ LET from == IF mark = NoMark THEN 1 ELSE mark.through + 1
             IN  \E last \in from..head : last < from + Batch /\ run' = Folding(build, from, last)
    /\ UNCHANGED <<given, head, mark, rows, edges, build, export, snapshot, reader, seen, spent>>

\* The next op of the batch, or its end.
NextOp == run' = IF run.at = run.last THEN [run EXCEPT !.pc = "advance"]
                 ELSE [run EXCEPT !.pc = "row", !.at = @ + 1]

\* fold, the row: written where it is absent or beaten. An op the table cannot hold writes nothing.
FoldRow ==
    LET r == Target[run.at]
    IN /\ run.pc = "row"
       /\ IF run.at \in Refused THEN NextOp /\ UNCHANGED rows
          ELSE /\ rows' = IF rows[r] = NoRow \/ Rank[run.at] > Rank[rows[r].op]
                          THEN [rows EXCEPT ![r].op = run.at, ![r].red = run.build.red] ELSE rows
               /\ run' = [run EXCEPT !.pc = "edges"]
       /\ UNCHANGED <<given, head, mark, edges, build, export, snapshot, reader, seen, spent>>

\* The flag says whether the row's activity is new to its edges.
Flips(r) == rows[r].flag # rows[r].op

\* after, the edges first: they are told the new activity.
FoldEdges ==
    LET r == Target[run.at]
    IN /\ run.pc = "edges"
       /\ edges' = IF Flips(r) THEN [edges EXCEPT ![r] = [op |-> rows[r].op, idx |-> run.build.idx]] ELSE edges
       /\ run' = [run EXCEPT !.pc = "flag"]
       /\ UNCHANGED <<given, head, mark, rows, build, export, snapshot, reader, seen, spent>>

\* The row's own flag after them.
FoldFlag ==
    LET r == Target[run.at]
    IN /\ run.pc = "flag"
       /\ rows' = [rows EXCEPT ![r].flag = rows[r].op]
       /\ NextOp
       /\ UNCHANGED <<given, head, mark, edges, build, export, snapshot, reader, seen, spent>>

\* Mutant of Advanced: the position of the next batch.
AdvancedOneMore(last, b) == [mark EXCEPT !.through = last + 1, !.rev = b]

\* Mutant of Advanced: the revisions stay as they were.
AdvancedBare(last, b) == [mark EXCEPT !.through = last]

\* The watermark of a batch, with the build's revisions and the refold position it had.
Advanced(last, b) == [mark EXCEPT !.through = last, !.rev = b]

\* advance: never backwards.
Advance ==
    /\ run.pc = "advance"
    /\ mark' = IF run.last > mark.through THEN Advanced(run.last, run.build) ELSE mark
    /\ run' = NoRun
    /\ UNCHANGED <<given, head, rows, edges, build, export, snapshot, reader, seen, spent>>

\* ------------------------------------------------------------------ the clear

\* Mutant of Sentinel: the revisions stay.
SentinelKeepsRev(until) == [mark EXCEPT !.through = 0, !.until = until]

\* Mutant of Sentinel: served from the first refolded batch on.
SentinelAtOnce(until) == [through |-> 0, rev |-> NoRev, until |-> 0]

\* The watermark a clear begins with.
Sentinel(until) == [through |-> 0, rev |-> NoRev, until |-> until]

ClearMark ==
    /\ run.pc = "sentinel"
    /\ mark' = Sentinel(run.until)
    /\ run' = [run EXCEPT !.pc = "clear"]
    /\ reader' = IF reader = NoReader THEN reader ELSE [reader EXCEPT !.cleared = TRUE]
    /\ UNCHANGED <<given, head, rows, edges, build, export, snapshot, seen, spent>>

\* clear: one item after the other.
DeleteItem ==
    /\ run.pc = "clear"
    /\ \/ \E r \in run.rows :
            /\ rows' = [rows EXCEPT ![r] = NoRow]
            /\ run' = [run EXCEPT !.rows = @ \ {r}]
            /\ UNCHANGED edges
       \/ \E r \in run.edges :
            /\ edges' = [edges EXCEPT ![r] = NoEdge]
            /\ run' = [run EXCEPT !.edges = @ \ {r}]
            /\ UNCHANGED rows
    /\ UNCHANGED <<given, head, mark, build, export, snapshot, reader, seen, spent>>

\* The refold follows, from position 0.
Refold ==
    /\ run.pc = "clear" /\ run.rows = {} /\ run.edges = {}
    /\ run' = IF head = 0 THEN NoRun ELSE Folding(run.build, 1, IF head < Batch THEN head ELSE Batch)
    /\ UNCHANGED <<given, head, mark, rows, edges, build, export, snapshot, reader, seen, spent>>

\* ------------------------------------------------------------------ snapshots

\* export: the watermark first,
ExportMark ==
    /\ export = NoExport /\ mark # NoMark
    /\ Careful => run.pc \notin {"sentinel", "clear"}
    /\ export' = [pc |-> "tables", mark |-> mark, left |-> Row, rows |-> [r \in Row |-> NoRow]]
    /\ Spend("exports", MaxExports)
    /\ UNCHANGED <<given, head, mark, rows, edges, build, run, snapshot, reader, seen>>

\* then the tables, one by one,
ExportTable ==
    /\ export.pc = "tables"
    /\ \E r \in export.left :
         export' = [export EXCEPT !.left = @ \ {r}, !.rows[r] = [rows[r] EXCEPT !.flag = 0]]
    /\ UNCHANGED <<given, head, mark, rows, edges, build, run, snapshot, reader, seen, spent>>

\* without the index attributes.
ExportEnds ==
    /\ export.pc = "tables" /\ export.left = {}
    /\ snapshot' = [through |-> export.mark.through, red |-> export.mark.rev.red, other |-> export.mark.rev.other,
                   rows |-> export.rows]
    /\ export' = NoExport
    /\ UNCHANGED <<given, head, mark, rows, edges, build, run, reader, seen, spent>>

\* import's checks: a stream whose watermark names no revision, a snapshot of this build's reducers. The index
\* revision does not matter. It follows a clear or starts a stream.
Import ==
    /\ run = NoRun \/ (run.pc = "clear" /\ run.rows = {} /\ run.edges = {})
    /\ snapshot # NoSnapshot
    /\ mark.rev = NoRev
    /\ Careful => \A r \in Row : rows[r] = NoRow /\ edges[r] = NoEdge
    /\ LET b == IF run = NoRun THEN build ELSE run.build
       IN  /\ snapshot.red = b.red /\ snapshot.other = b.other
           /\ run' = [pc |-> "unserved", build |-> b, from |-> snapshot,
                      rows |-> {r \in Row : snapshot.rows[r] # NoRow}, edges |-> {}]
    /\ UNCHANGED <<given, head, mark, rows, edges, build, export, snapshot, reader, seen, spent>>

\* Its sentinel, which keeps a refold position,
ImportMark ==
    /\ run.pc = "unserved"
    /\ mark' = [mark EXCEPT !.through = 0]
    /\ run' = [run EXCEPT !.pc = "import"]
    /\ UNCHANGED <<given, head, rows, edges, build, export, snapshot, reader, seen, spent>>

\* the rows,
ImportRow ==
    /\ run.pc = "import"
    /\ \E r \in run.rows :
         /\ rows' = [rows EXCEPT ![r].op = run.from.rows[r].op, ![r].red = run.from.rows[r].red]
         /\ run' = [run EXCEPT !.rows = @ \ {r}, !.edges = @ \cup {r}]
    /\ UNCHANGED <<given, head, mark, edges, build, export, snapshot, reader, seen, spent>>

\* reindex: the entries of every row from the rows alone,
Reindex ==
    /\ run.pc = "import" /\ run.rows = {}
    /\ \E r \in run.edges :
         /\ edges' = [edges EXCEPT ![r] = [op |-> rows[r].op, idx |-> run.build.idx]]
         /\ rows' = [rows EXCEPT ![r].flag = rows[r].op]
         /\ run' = [run EXCEPT !.edges = @ \ {r}]
    /\ UNCHANGED <<given, head, mark, build, export, snapshot, reader, seen, spent>>

\* and the watermark last.
Stamp ==
    /\ run.pc = "import" /\ run.rows = {} /\ run.edges = {}
    /\ mark' = [through |-> run.from.through, rev |-> run.build, until |-> 0]
    /\ run' = NoRun
    /\ UNCHANGED <<given, head, rows, edges, build, export, snapshot, reader, seen, spent>>

\* ------------------------------------------------------------ readers, crashes

\* check_current, for a reader of build b: the index rules and the task reducer are compared, not the other reducers.
\* A stream without a watermark reads as an empty board.
Serves(b) == mark = NoMark \/ (mark.rev.red = b.red /\ mark.rev.idx = b.idx /\ mark.through >= mark.until)

\* A reader is let in (active_board, with_ranking, list_board).  What it reads from then on, one item at a time and
\* without another check, is what the rows and the entries hold until it ends.
CheckCurrent ==
    /\ reader = NoReader
    /\ \E b \in Builds :
         /\ Serves(b)
         /\ reader' = [pc |-> "items", build |-> b, through |-> mark.through, cleared |-> FALSE]
    /\ seen' = IF mark.through > seen THEN mark.through ELSE seen
    /\ UNCHANGED <<given, head, mark, rows, edges, build, run, export, snapshot, spent>>

\* It has read what it serves.
ReadEnds ==
    /\ reader # NoReader
    /\ reader' = NoReader
    /\ UNCHANGED <<given, head, mark, rows, edges, build, run, export, snapshot, seen, spent>>

\* A run dies, or a write fails: what it wrote stays.
Crash ==
    /\ run # NoRun
    /\ run' = NoRun
    /\ Spend("crashes", MaxCrashes)
    /\ UNCHANGED <<given, head, mark, rows, edges, build, export, snapshot, reader, seen>>

Fold == FoldRow \/ FoldEdges \/ FoldFlag \/ Advance
Clear == ClearMark \/ DeleteItem \/ Refold
Start == ImportMark \/ ImportRow \/ Reindex \/ Stamp

Next ==
    \/ Store \/ Deploy \/ Begin \/ Fold \/ Clear
    \/ ExportMark \/ ExportTable \/ ExportEnds \/ Import \/ Start
    \/ CheckCurrent \/ ReadEnds \/ Crash

Spec == Init /\ [][Next]_vars

\* Whoever drives the runs begins one after the other, and a run and an export go on until they end or die.
FairSpec == Spec /\ WF_vars(Begin) /\ WF_vars(Fold \/ Clear \/ Start) /\ WF_vars(ExportTable \/ ExportEnds)

\* ----------------------------------------------------------------- properties

TypeOK ==
    /\ head \in 0..Len(Target)
    /\ mark.through \in -1..head /\ mark.until \in 0..head /\ mark.rev \in Builds \cup {NoRev}
    /\ \A r \in Row : rows[r].op \in 0..head /\ rows[r].flag \in 0..head /\ edges[r].op \in 0..head
    /\ snapshot.through \in -1..head /\ seen \in 0..head

\* The ops that a reader let in at a position has to find in row r, and whether op n shows them.
Claimed(r) == {n \in DOMAIN Target : n <= reader.through /\ Target[n] = r /\ n \notin Refused}
Shows(n, r) == \A k \in Claimed(r) : n # 0 /\ Rank[n] >= Rank[k]

AllShown == \A r \in Row : Shows(rows[r].op, r) /\ Shows(edges[r].op, r)

\* A reader reads on, and no clear has begun since it was let in.
Reading == reader # NoReader /\ ~reader.cleared

\* A reader finds every op up to the position it was let in at, in the rows and in what was derived from them, at
\* whatever time it comes to them and wherever runs died before, as long as no clear begins while it reads and whoever
\* drives the runs is careful.  (records.rs, fold.rs clear)
ServedIsWhole == Careful /\ Reading => AllShown

\* It finds only what its own build's rules folded (records.rs check_current), through deployments, rollbacks and
\* clears that died, under the same conditions.
ServedByItsRules ==
    Careful /\ Reading /\ reader.through >= 0 =>
        \A r \in Row : rows[r].red \in {0, reader.build.red} /\ edges[r].idx \in {0, reader.build.idx}

\* "the relay position a refold has to reach before the stream is served again" (fold.rs refold_until): a reader that
\* was let in at a position is not let in at a lower one later, unless a snapshot was imported.
NeverServedLess == MaxExports = 0 => \A b \in Builds : Serves(b) => mark.through >= seen \/ seen = 0

\* "so a refold that dies and is resumed, or folds a batch twice, ends served all the same" (fold.rs clear): in the
\* end the deployed build serves the whole stream.
EndsServed == []<>(Serves(build) /\ (head > 0 => mark.through = head))

\* What a reader finds is what its build would have folded, whole (check_current).
ServedIsCurrent == ServedIsWhole /\ ServedByItsRules

\* "a cleared, half-cleared or half-refolded stream is never served as if whole" (fold.rs clear): also a reader that
\* was let in before the clear began finds everything up to its position.
NeverServedHalfCleared == Careful /\ reader # NoReader => AllShown
=============================================================================
