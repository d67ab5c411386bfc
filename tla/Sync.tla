-------------------------------- MODULE Sync --------------------------------
(* The client side of the sync (crates/sync/src/engine.rs, crates/nxs/src/   *)
(* sync/mod.rs): a pass pushes the workspace's own ops in row order, pulls    *)
(* the stream page by page, and writes its two positions to .nxs/sync.toml    *)
(* each time one is reached and once more at its end.  Passes of the          *)
(* background service, passes started by hand and a rebind work on one        *)
(* workspace at the same time; nothing locks the file.                        *)
(*                                                                            *)
(* A stream is the ordered log of OrderedLog: it stores an op once and is     *)
(* read in order.  Batches are cut by count, by bytes and by a 413: here the  *)
(* first request is any run of the ops still to go, up to one that is too     *)
(* large for the relay.  Registration of the prefix is Prefixes; snapshots,   *)
(* presence and signatures are left out.  A page's transactions and the       *)
(* write of the position are one step, as are the load of the file and the    *)
(* read of the log: done again after a crash they give the same.              *)
EXTENDS Integers, FiniteSets, Sequences, SequencesExt

CONSTANTS
    Workspaces,
    Processes,    \* processes that run passes
    Home,         \* the workspace a process works on
    Streams,      \* the streams a workspace may be bound to
    First,        \* the one every workspace is bound to at first
    NoFile,
    Page,         \* page_limit
    MaxOps,       \* bound on the ops of a workspace
    Settings      \* Settings[n]: who takes part, and what goes wrong

VARIABLE given    \* the setting of this system

Written == Settings[given].workspaces     \* the workspaces ops are written in
Running == Settings[given].processes      \* the processes that run
Large == Settings[given].large            \* ops no relay takes
Mints == Settings[given].mints            \* bound on the ops a workspace mints
MaxTrouble == Settings[given].trouble     \* bound on failed requests, crashes and passes out of budget
MaxFaults == Settings[given].faults       \* bound on database errors while a page is examined
MaxRebinds == Settings[given].rebinds     \* bound on rebinds

ASSUME PageAssumption == Page \in Nat \ {0}
ASSUME FirstAssumption == First \in Streams
ASSUME HomeAssumption == Home \in [Processes -> Workspaces]
ASSUME SettingsAssumption ==
    \A n \in DOMAIN Settings :
        LET s == Settings[n]
        IN s.workspaces \subseteq Workspaces /\ s.processes \subseteq Processes /\ s.mints \in 0..MaxOps

VARIABLES
    rows,     \* each workspace's op log, by row id
    file,     \* each workspace's .nxs/sync.toml
    log,      \* each stream
    pass,     \* what each process is doing
    binder,   \* a rebind in progress: what it still has to do and the stream it takes
    spent     \* what the bounds above have used up

vars == <<rows, file, log, pass, binder, spent, given>>

Ops == Workspaces \X (1..MaxOps)
Meta(stream, pushed, pulled) == [stream |-> stream, pushed |-> pushed, pulled |-> pulled]
NoPass == [pc |-> "none"]
NoBind == [pc |-> "none"]

Init ==
    /\ given \in DOMAIN Settings
    /\ rows = [w \in Workspaces |-> <<>>]
    /\ file = [w \in Workspaces |-> Meta(First, 0, 0)]
    /\ log = [s \in Streams |-> <<>>]
    /\ pass = [p \in Processes |-> NoPass]
    /\ binder = [w \in Workspaces |-> NoBind]
    /\ spent = [trouble |-> 0, faults |-> 0, rebinds |-> 0]

\* Positions stay within what they count, and a pass has what its step needs.
TypeOK ==
    /\ \A w \in Workspaces :
        /\ ToSet(rows[w]) \subseteq Ops
        /\ \/ file[w] = NoFile
           \/ /\ file[w].stream \in Streams
              /\ file[w].pushed \in 0..Len(rows[w])
              /\ file[w].pulled \in 0..Len(log[file[w].stream])
        /\ binder[w].pc # "none" => binder[w].stream \in Streams
    /\ \A s \in Streams : ToSet(log[s]) \subseteq Ops
    /\ \A p \in Processes :
        \/ pass[p] = NoPass
        \/ /\ pass[p].pc \in {"push", "pull", "apply"}
           /\ pass[p].marks.stream \in Streams
           /\ ToSet(pass[p].page) \subseteq Ops

Spend(what, bound) == spent[what] < bound /\ spent' = [spent EXCEPT ![what] = @ + 1]

\* Another process of the workspace writes an op.
Mint(w) ==
    LET own == {o \in ToSet(rows[w]) : o[1] = w}
    IN /\ Cardinality(own) < Mints
       /\ rows' = [rows EXCEPT ![w] = Append(@, <<w, Cardinality(own) + 1>>)]
       /\ UNCHANGED <<file, log, pass, binder, spent, given>>

\* local_ops_since: the rows above a position that this replica wrote.
LocalOpsSince(w, after) ==
    SetToSortSeq({i \in DOMAIN rows[w] : i > after /\ rows[w][i][1] = w}, <)

\* A pass begins: the positions are loaded, and the ops to push read once.
Begin(p) ==
    LET w == Home[p]
    IN /\ pass[p] = NoPass
       /\ file[w] # NoFile
       /\ pass' = [pass EXCEPT ![p] = [pc |-> "push", marks |-> file[w], page |-> <<>>,
                                       local |-> LocalOpsSince(w, file[w].pushed)]]
       /\ UNCHANGED <<rows, file, log, binder, spent, given>>

\* The stream takes the ops it does not have yet.
Stored(entries, new) == entries \o SelectSeq(new, LAMBDA o : o \notin ToSet(entries))

\* The runs a request may carry: from the first op still to go, none too large.
Requests(p) ==
    {n \in 1..Page : /\ n <= Len(pass[p].local)
                     /\ \A i \in 1..n : rows[Home[p]][pass[p].local[i]] \notin Large}
Request(p, n) == [i \in 1..n |-> rows[Home[p]][pass[p].local[i]]]

\* SaveEachStep: every position reached is written down with the binding the
\* pass loaded.
Checkpoint(p, marks) == file' = [file EXCEPT ![Home[p]] = marks]

\* push_halving_on_413: a request lands and moves the position.
PushLands(p) ==
    /\ pass[p].pc = "push"
    /\ \E n \in Requests(p) :
        LET marks == [pass[p].marks EXCEPT !.pushed = pass[p].local[n]]
        IN /\ log' = [log EXCEPT ![marks.stream] = Stored(@, Request(p, n))]
           /\ pass' = [pass EXCEPT ![p] = [@ EXCEPT !.marks = marks,
                                                    !.local = SubSeq(@, n + 1, Len(@))]]
           /\ Checkpoint(p, marks)
    /\ UNCHANGED <<rows, binder, spent, given>>

\* Mutant of PushEnds: an op that is too large ends the pass.
PushEndsPass(p) ==
    /\ pass[p].pc = "push"
    /\ Requests(p) = {}
    /\ pass' = [pass EXCEPT ![p] = IF pass[p].local = <<>> THEN [@ EXCEPT !.pc = "pull"] ELSE NoPass]
    /\ UNCHANGED <<rows, file, log, binder, spent, given>>

\* Everything is pushed, or the next op is too large even alone: the pull follows.
PushEnds(p) ==
    /\ pass[p].pc = "push"
    /\ Requests(p) = {}
    /\ pass' = [pass EXCEPT ![p].pc = "pull"]
    /\ UNCHANGED <<rows, file, log, binder, spent, given>>

\* The pass ends: its positions are saved before any error is reported.
EndPass(p, marks) ==
    /\ pass' = [pass EXCEPT ![p] = NoPass]
    /\ file' = [file EXCEPT ![Home[p]] = marks]

\* A request fails, or only its answer is lost, or the relay's deadline cut it
\* in the middle: any beginning of it may be stored.
PushFails(p) ==
    /\ pass[p].pc = "push"
    /\ \E n \in Requests(p) : \E k \in 0..n :
        log' = [log EXCEPT ![pass[p].marks.stream] = Stored(@, SubSeq(Request(p, n), 1, k))]
    /\ EndPass(p, pass[p].marks)
    /\ Spend("trouble", MaxTrouble)
    /\ UNCHANGED <<rows, binder, given>>

\* Mutant of Pull: the position is kept before the page is applied.
PullSaves(p) ==
    LET marks == pass[p].marks
        entries == log[marks.stream]
    IN /\ pass[p].pc = "pull"
       /\ marks.pulled < Len(entries)
       /\ pass' = [pass EXCEPT ![p] = [@ EXCEPT !.pc = "apply", !.page = <<entries[marks.pulled + 1]>>,
                                                !.marks.pulled = @ + 1]]
       /\ Checkpoint(p, [marks EXCEPT !.pulled = @ + 1])
       /\ UNCHANGED <<rows, log, binder, spent, given>>

\* transport.pull: a page arrives and the position moves to its end, before the
\* page is applied.
Pull(p) ==
    LET marks == pass[p].marks
        entries == log[marks.stream]
    IN /\ pass[p].pc = "pull"
       /\ marks.pulled < Len(entries)
       /\ \E n \in 1..Page :
            /\ marks.pulled + n <= Len(entries)
            /\ pass' = [pass EXCEPT ![p] = [@ EXCEPT !.pc = "apply",
                                                     !.page = SubSeq(entries, marks.pulled + 1,
                                                                     marks.pulled + n),
                                                     !.marks.pulled = marks.pulled + n]]
       /\ UNCHANGED <<rows, file, log, binder, spent, given>>

\* The position stood still: the stream is exhausted and the pass is over.
Exhausted(p) ==
    /\ pass[p].pc = "pull"
    /\ pass[p].marks.pulled >= Len(log[pass[p].marks.stream])
    /\ EndPass(p, pass[p].marks)
    /\ UNCHANGED <<rows, log, binder, spent, given>>

\* store.apply takes the ops the log does not have, then the position is kept.
Apply(p) ==
    /\ pass[p].pc = "apply"
    /\ rows' = [rows EXCEPT ![Home[p]] = Stored(@, pass[p].page)]
    /\ pass' = [pass EXCEPT ![p] = [@ EXCEPT !.pc = "pull", !.page = <<>>]]
    /\ Checkpoint(p, pass[p].marks)
    /\ UNCHANGED <<log, binder, spent, given>>

\* The pull fails, or the pass stops at its page ceiling or its time budget.
PullStops(p) ==
    /\ pass[p].pc = "pull"
    /\ EndPass(p, pass[p].marks)
    /\ Spend("trouble", MaxTrouble)
    /\ UNCHANGED <<rows, log, binder, given>>

\* downgrades: the database fails while the page is examined, the pass ends
\* with an error and its positions are saved.
ExamineFails(p) ==
    /\ pass[p].pc = "apply"
    /\ EndPass(p, pass[p].marks)
    /\ Spend("faults", MaxFaults)
    /\ UNCHANGED <<rows, log, binder, given>>

\* The process is killed: what it had not written down is gone.
Crash(p) ==
    /\ pass[p] # NoPass
    /\ pass' = [pass EXCEPT ![p] = NoPass]
    /\ Spend("trouble", MaxTrouble)
    /\ UNCHANGED <<rows, file, log, binder, given>>

\* bind --rebind: the old binding's file is removed,
Unbind(w, s) ==
    /\ binder[w] = NoBind
    /\ file[w] # NoFile
    /\ file[w].stream # s
    /\ file' = [file EXCEPT ![w] = NoFile]
    /\ binder' = [binder EXCEPT ![w] = [pc |-> "removed", stream |-> s]]
    /\ Spend("rebinds", MaxRebinds)
    /\ UNCHANGED <<rows, log, pass, given>>

\* the new one written, unless the workspace is bound again by now,
Bind(w) ==
    /\ binder[w].pc = "removed"
    /\ IF file[w] = NoFile
       THEN /\ file' = [file EXCEPT ![w] = Meta(binder[w].stream, 0, 0)]
            /\ binder' = [binder EXCEPT ![w].pc = "bound"]
       ELSE /\ binder' = [binder EXCEPT ![w] = NoBind]
            /\ UNCHANGED file
    /\ UNCHANGED <<rows, log, pass, spent, given>>

\* and once more with the endpoint it carries over.
BindEndpoint(w) ==
    /\ binder[w].pc = "bound"
    /\ file' = [file EXCEPT ![w] = Meta(binder[w].stream, 0, 0)]
    /\ binder' = [binder EXCEPT ![w] = NoBind]
    /\ UNCHANGED <<rows, log, pass, spent, given>>

Step(p) == PushLands(p) \/ PushEnds(p) \/ Pull(p) \/ Exhausted(p) \/ Apply(p)

Next ==
    \/ \E p \in Running :
        \/ Begin(p) \/ Step(p)
        \/ PushFails(p) \/ PullStops(p) \/ ExamineFails(p) \/ Crash(p)
    \/ \E w \in Written :
        \/ Mint(w) \/ Bind(w) \/ BindEndpoint(w)
        \/ \E s \in Streams : Unbind(w, s)

Spec == Init /\ [][Next]_vars

\* Workspaces that stay bound and databases that answer.
Undisturbed == MaxRebinds = 0 /\ MaxFaults = 0

\* The background service starts a pass again and again and a pass goes on
\* while nothing fails; the bounds make the failures finite.
FairSpec ==
    /\ Spec
    /\ \A p \in Processes :
        /\ WF_vars(Undisturbed /\ p \in Running /\ Begin(p))
        /\ WF_vars(Undisturbed /\ p \in Running /\ Step(p))

\* ----------------------------------------------------------------- properties

Own(w, after) == {rows[w][i] : i \in {j \in DOMAIN rows[w] : j <= after /\ rows[w][j][1] = w}}

\* Every own op up to the position a workspace keeps is on its stream: a pass
\* that resumes there skips none, whatever was lost, cut in the middle, killed,
\* pushed by two passes or bound anew.  (push_halving_on_413, SaveEachStep)
PushedIsStored ==
    \A w \in Workspaces :
        file[w] # NoFile => Own(w, file[w].pushed) \subseteq ToSet(log[file[w].stream])

\* Every op of the stream up to the position a workspace keeps is in its log:
\* a position beyond it would never be read again.  (sync_with_pull_ceiling)
PositionIsApplied ==
    \A w \in Workspaces :
        file[w] # NoFile =>
            \A i \in 1..file[w].pulled : log[file[w].stream][i] \in ToSet(rows[w])

\* The same of a workspace whose database answers, whatever else is lost,
\* killed, out of budget, done by two passes at once or bound anew.
PulledIsApplied == MaxFaults = 0 => PositionIsApplied

\* The ops that stand behind none that is too large.
Sendable(w) == {o \in ToSet(rows[w]) : o[1] = w /\ \A k \in 1..o[2] : <<w, k>> \notin Large}

\* Every such op of a workspace reaches every other, also those whose own push
\* is stuck: time and again all of them have all.
EveryOpArrives ==
    Undisturbed ~> \A w, v \in Written : Sendable(w) \subseteq ToSet(rows[v])

\* Neither of the positions a workspace keeps is ahead of what was done (SyncMeta in nxs/src/sync/mod.rs).
PositionsHold == TypeOK /\ PushedIsStored /\ PulledIsApplied
============================================================================
