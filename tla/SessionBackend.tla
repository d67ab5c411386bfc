--------------------------- MODULE SessionBackend ---------------------------
(***************************************************************************)
(* One session key: the files of its ledger (crates/run-session-claude:    *)
(* ledger.rs, spawn.rs), the adapter that starts, stops and watches its    *)
(* process (lib.rs), and the host that drains its facts into the inbox     *)
(* (crates/run-host: host.rs drain_session, start.rs start_session).       *)
(*                                                                         *)
(* Files and processes know no lease: several hosts may be anywhere in     *)
(* start and drain at once, and each may crash there, which forgets what   *)
(* it had read.  A fact is a line of the fact file, its key the line's     *)
(* number.  The process writes lines, ends with or without saying so, and  *)
(* may leave members of its group behind.                                  *)
(***************************************************************************)
EXTENDS Integers, Sequences, FiniteSets

CONSTANTS
  Host,
  Settings   \* Settings[n]: the hosts of a session, and what may happen to it

VARIABLE given      \* the setting of this session

Hosts == Settings[given].hosts                \* the hosts that run
RecordFails == Settings[given].record_fails   \* writing child.json may fail after the spawn
Blind == Settings[given].blind                \* listing the processes may fail
MaxProcs == Settings[given].max_procs         \* bound: processes spawned for the key
MaxFacts == Settings[given].max_facts         \* bound: lines the process itself writes

ASSUME SettingsAssumption ==
  \A n \in DOMAIN Settings :
    /\ Settings[n].hosts \subseteq Host
    /\ Settings[n].record_fails \in BOOLEAN /\ Settings[n].blind \in BOOLEAN
    /\ Settings[n].max_procs \in Nat \ {0} /\ Settings[n].max_facts \in Nat

VARIABLES
  spawn,     \* spawn.json: "none", "empty" (created, not yet written), "fresh", or "old" when it is past NO_CHILD_GRACE_MS
  child,     \* child.json: the process it names, NoProc
  procs,     \* what the processes of this key are, in the order they were spawned
  facts,     \* facts.jsonl: the kinds of its lines
  said,      \* sample.json: lingering_said
  offset,    \* the offset file: lines that need not be read again
  keys,      \* the fact keys in the inbox or the log: line numbers, Stopped, StartLost
  slot,      \* the slot as the run's log has it: "live", "stopping", "ended"
  host,      \* each host's place, its cached offset and what it read
  overtaken  \* history: a claim was written for a session that the run was stopping already, or had seen end

vars == <<spawn, child, procs, facts, said, offset, keys, slot, host, overtaken, given>>

NoProc == 0
Stopped == -1     \* the key fact/<key>/stopped
StartLost == -2   \* the key fact/<key>/start-lost
NoCache == -1
Idle == [pc |-> "idle", cached |-> NoCache, started |-> FALSE, proc |-> NoProc, confirmed |-> FALSE,
         batch |-> {}, next |-> 0, quiet |-> FALSE]

Init ==
  /\ given \in DOMAIN Settings
  /\ spawn = "none" /\ child = NoProc /\ procs = <<>> /\ facts = <<>> /\ said = FALSE
  /\ offset = 0 /\ keys = {} /\ slot = "live"
  /\ host = [h \in Host |-> Idle] /\ overtaken = FALSE

IsEnd(kind) == kind \in {"ended", "lost"}
HasEndedLine == \E n \in DOMAIN facts : IsEnd(facts[n])
Goto(h, pc) == host' = [host EXCEPT ![h].pc = pc]

\* end_state of the recorded leader, asked fresh. Members left in the group, or work outside it, keep the end open.
EndState == CASE child = NoProc -> "running"
              [] procs[child] = "up" -> "running"
              [] procs[child] = "lingering" -> "lingering"
              [] OTHER -> "confirmed"

-----------------------------------------------------------------------------
(* start_session and ClaudeBackend::start.                                 *)

\* A host finds the start owed and opens the thread, composes the turn and the spec: the run may go on meanwhile.
DecideStart(h) ==
  /\ host[h].pc = "idle" /\ slot = "live" /\ ~host[h].started
  /\ Goto(h, "claim")
  /\ UNCHANGED <<spawn, child, procs, facts, said, offset, keys, slot, overtaken, given>>

\* Mutant: whoever finds no child record spawns.
ClaimSpawnByChild(h) ==
  /\ host[h].pc = "claim"
  /\ IF child = NoProc THEN spawn' = "empty" /\ Goto(h, "write") ELSE UNCHANGED spawn /\ Goto(h, "look")
  /\ UNCHANGED <<child, procs, facts, said, offset, keys, slot, overtaken, given>>

\* claim_spawn: spawn.json is created with O_EXCL, before the spawn.
ClaimSpawn(h) ==
  /\ host[h].pc = "claim"
  /\ IF spawn = "none" THEN spawn' = "empty" /\ Goto(h, "write") ELSE UNCHANGED spawn /\ Goto(h, "look")
  /\ UNCHANGED <<child, procs, facts, said, offset, keys, slot, overtaken, given>>

\* Its record, with the instant alive goes by; an empty one reads as an old one.
WriteClaim(h) ==
  /\ host[h].pc = "write"
  /\ spawn' = "fresh"
  /\ overtaken' = (overtaken \/ slot # "live")
  /\ Goto(h, "spawn")
  /\ UNCHANGED <<child, procs, facts, said, offset, keys, slot, given>>

\* try_spawn up to the spawn: a failure before it gives the key back.
TrySpawn(h) ==
  /\ host[h].pc = "spawn"
  /\ \/ /\ Len(procs) < MaxProcs
        /\ procs' = Append(procs, "up")
        /\ host' = [host EXCEPT ![h].pc = "record", ![h].proc = Len(procs) + 1]
        /\ UNCHANGED spawn
     \/ /\ spawn' = "none"
        /\ Goto(h, "idle")
        /\ UNCHANGED procs
  /\ UNCHANGED <<child, facts, said, offset, keys, slot, overtaken, given>>

\* write_child_unless_there: the child's own record stands. A process already gone leaves no record to write; a write
\* that fails is a failed spawn, whose claim is released.
RecordChild(h) ==
  /\ host[h].pc = "record"
  /\ \/ /\ child' = IF child = NoProc THEN host[h].proc ELSE child
        /\ host' = [host EXCEPT ![h].pc = "idle", ![h].started = TRUE]
        /\ UNCHANGED spawn
     \/ /\ procs[host[h].proc] # "up"
        /\ host' = [host EXCEPT ![h].pc = "idle", ![h].started = TRUE]
        /\ UNCHANGED <<child, spawn>>
     \/ /\ RecordFails
        /\ spawn' = "none"
        /\ Goto(h, "idle")
        /\ UNCHANGED child
  /\ UNCHANGED <<procs, facts, said, offset, keys, slot, overtaken, given>>

\* A key somebody claimed: Waiting without a record, Reattached to a live leader or one that said its end, else Lost,
\* which start_session reports at once.
LookAtChild(h) ==
  /\ host[h].pc = "look"
  /\ LET lost == child # NoProc /\ procs[child] # "up" /\ ~HasEndedLine
     IN  keys' = IF lost THEN keys \cup {StartLost} ELSE keys
  /\ host' = [host EXCEPT ![h].pc = "idle", ![h].started = TRUE]
  /\ UNCHANGED <<spawn, child, procs, facts, said, offset, slot, overtaken, given>>

-----------------------------------------------------------------------------
(* drain_session and ClaudeBackend::drain_facts.                           *)

From(h) == IF host[h].cached = NoCache THEN offset ELSE host[h].cached

\* Mutant: an end nobody wrote is left to alive.
ObserveOnly(h) ==
  /\ host[h].pc = "idle" /\ slot # "ended"
  /\ IF EndState = "lingering" /\ ~said
     THEN facts' = Append(facts, "group_lingering") /\ said' = TRUE
     ELSE UNCHANGED <<facts, said>>
  /\ host' = [host EXCEPT ![h].pc = "read", ![h].cached = From(h), ![h].confirmed = (EndState = "confirmed")]
  /\ UNCHANGED <<spawn, child, procs, offset, keys, slot, overtaken, given>>

\* observe, before the file is read: a lingering group is said once, a confirmed end without a line gets one.
Observe(h) ==
  /\ host[h].pc = "idle" /\ slot # "ended"
  /\ \/ /\ EndState = "lingering" /\ ~said
        /\ facts' = Append(facts, "group_lingering") /\ said' = TRUE
     \/ /\ EndState = "confirmed" /\ ~HasEndedLine
        /\ facts' = Append(facts, "lost") /\ UNCHANGED said
     \/ /\ ~(EndState = "lingering" /\ ~said) /\ ~(EndState = "confirmed" /\ ~HasEndedLine)
        /\ UNCHANGED <<facts, said>>
  /\ host' = [host EXCEPT ![h].pc = "read", ![h].cached = From(h), ![h].confirmed = (EndState = "confirmed")]
  /\ UNCHANGED <<spawn, child, procs, offset, keys, slot, overtaken, given>>

\* The lines from n on that are delivered: all of them, but for an end that is not confirmed.
Delivered(n, confirmed) == {line \in (n + 1)..Len(facts) : confirmed \/ ~IsEnd(facts[line])}

\* Where the next read starts: on the first end that is held back.
ReadTo(n, confirmed) ==
  LET held == {i \in (n + 1)..Len(facts) : IsEnd(facts[i]) /\ ~confirmed}
  IN  IF held = {} THEN Len(facts) ELSE (CHOOSE i \in held : \A j \in held : i <= j) - 1

\* drain_facts' reading of the file.
ReadFacts(h) ==
  /\ host[h].pc = "read"
  /\ LET n == From(h)
         c == host[h].confirmed
     IN  host' = [host EXCEPT ![h].pc = "enqueue", ![h].batch = Delivered(n, c), ![h].next = ReadTo(n, c),
                              ![h].quiet = (Delivered(n, c) = {})]
  /\ UNCHANGED <<spawn, child, procs, facts, said, offset, keys, slot, overtaken, given>>

\* One enqueue per fact, in the order of the lines.
EnqueueFact(h) ==
  /\ host[h].pc = "enqueue"
  /\ \E line \in host[h].batch :
       /\ \A other \in host[h].batch : line <= other
       /\ keys' = keys \cup {line}
       /\ host' = [host EXCEPT ![h].batch = @ \ {line}]
  /\ UNCHANGED <<spawn, child, procs, facts, said, offset, slot, overtaken, given>>

\* A store that refuses an enqueue ends the drain with the offset where it was.
RefuseFact(h) ==
  /\ host[h].pc = "enqueue" /\ host[h].batch # {}
  /\ host' = [host EXCEPT ![h].pc = "idle", ![h].batch = {}]
  /\ UNCHANGED <<spawn, child, procs, facts, said, offset, keys, slot, overtaken, given>>

\* store_offset, by rename: the cache follows a write that succeeded. Then alive is asked if the slot is stopping and
\* nothing was read.
StoreOffset(h) ==
  /\ host[h].pc = "enqueue" /\ host[h].batch = {}
  /\ \/ /\ offset' = IF host[h].next # From(h) THEN host[h].next ELSE offset
        /\ host' = [host EXCEPT ![h].cached = host[h].next,
                                ![h].pc = IF slot = "stopping" /\ host[h].quiet THEN "alive" ELSE "idle"]
     \/ /\ host[h].next # From(h)
        /\ Goto(h, IF slot = "stopping" /\ host[h].quiet THEN "alive" ELSE "idle")
        /\ UNCHANGED offset
  /\ UNCHANGED <<spawn, child, procs, facts, said, keys, slot, overtaken, given>>

\* Mutant: the leader is what counts.
DeadLeader == IF child = NoProc THEN spawn # "fresh" ELSE procs[child] # "up"

\* alive: without a record, alive only while the spawn is young; else dead once the end is confirmed.
Dead == IF child = NoProc THEN spawn # "fresh" ELSE EndState = "confirmed"

AskAlive(h) ==
  /\ host[h].pc = "alive"
  /\ keys' = IF Dead THEN keys \cup {Stopped} ELSE keys
  /\ Goto(h, "idle")
  /\ UNCHANGED <<spawn, child, procs, facts, said, offset, slot, overtaken, given>>

\* end_state without a list of the processes is Unverifiable: observe says nothing, no end is confirmed, and alive
\* answers Alive.
ListingFails(h) ==
  /\ Blind /\ child # NoProc /\ procs[child] # "up"
  /\ \/ /\ host[h].pc = "idle" /\ slot # "ended"
        /\ host' = [host EXCEPT ![h].pc = "read", ![h].cached = From(h), ![h].confirmed = FALSE]
     \/ /\ host[h].pc = "alive"
        /\ Goto(h, "idle")
  /\ UNCHANGED <<spawn, child, procs, facts, said, offset, keys, slot, overtaken, given>>

-----------------------------------------------------------------------------
(* The run, the process and time.                                          *)

EndKeys == {k \in keys : k \in {Stopped, StartLost} \/ (k \in DOMAIN facts /\ IsEnd(facts[k]))}

\* The run decides to stop the session, or folds its end.
StopSlot ==
  /\ slot = "live"
  /\ slot' = "stopping"
  /\ UNCHANGED <<spawn, child, procs, facts, said, offset, keys, host, overtaken, given>>

FoldEnd ==
  /\ slot # "ended" /\ EndKeys # {}
  /\ slot' = "ended"
  /\ UNCHANGED <<spawn, child, procs, facts, said, offset, keys, host, overtaken, given>>

\* ClaudeBackend::stop with force: the group and the recorded work.
Kill ==
  /\ slot = "stopping" /\ child # NoProc /\ procs[child] \in {"up", "lingering"}
  /\ procs' = [procs EXCEPT ![child] = "gone"]
  /\ UNCHANGED <<spawn, child, facts, said, offset, keys, slot, host, overtaken, given>>

\* The child records itself, replacing the adapter's record.
RecordSelf(p) ==
  /\ procs[p] = "up" /\ child # p
  /\ child' = p
  /\ UNCHANGED <<spawn, procs, facts, said, offset, keys, slot, host, overtaken, given>>

\* A complete line of the process, its end among them; it has recorded itself before and writes nothing after its end.
WriteFact(p) ==
  /\ procs[p] = "up" /\ child # NoProc /\ ~HasEndedLine
  /\ Cardinality({n \in DOMAIN facts : facts[n] \in {"fact", "ended"}}) < MaxFacts
  /\ \E kind \in {"fact", "ended"} : facts' = Append(facts, kind)
  /\ UNCHANGED <<spawn, child, procs, said, offset, keys, slot, host, overtaken, given>>

\* The leader exits, with or without members left in its group; these go later, by themselves or by a signal. One
\* that has not come to its own record has started nothing.
Exit(p) ==
  /\ \/ /\ procs[p] = "up"
        /\ \E next \in IF child = NoProc THEN {"gone"} ELSE {"lingering", "gone"} : procs' = [procs EXCEPT ![p] = next]
     \/ procs[p] = "lingering" /\ procs' = [procs EXCEPT ![p] = "gone"]
  /\ UNCHANGED <<spawn, child, facts, said, offset, keys, slot, host, overtaken, given>>

\* NO_CHILD_GRACE_MS passes. Assumed: a process that lives has recorded itself by then, and a host that is about to
\* spawn has done so.
Age ==
  /\ spawn = "fresh"
  /\ \A p \in DOMAIN procs : procs[p] = "up" => child = p
  /\ \A h \in Host : host[h].pc \notin {"spawn", "record"}
  /\ spawn' = "old"
  /\ UNCHANGED <<child, procs, facts, said, offset, keys, slot, host, overtaken, given>>

\* A host dies and starts again: cache, position and start are forgotten.
Crash(h) ==
  /\ host[h] # Idle
  /\ host' = [host EXCEPT ![h] = Idle]
  /\ UNCHANGED <<spawn, child, procs, facts, said, offset, keys, slot, overtaken, given>>

Drain(h) == Observe(h) \/ ReadFacts(h) \/ EnqueueFact(h) \/ StoreOffset(h) \/ AskAlive(h)
Start(h) == DecideStart(h) \/ ClaimSpawn(h) \/ WriteClaim(h) \/ TrySpawn(h) \/ RecordChild(h) \/ LookAtChild(h)

Next ==
  \/ \E h \in Hosts : Start(h) \/ Drain(h) \/ ListingFails(h) \/ RefuseFact(h) \/ Crash(h)
  \/ \E p \in DOMAIN procs : RecordSelf(p) \/ WriteFact(p) \/ Exit(p)
  \/ StopSlot \/ FoldEnd \/ Kill \/ Age

Spec == Init /\ [][Next]_vars

\* A host keeps starting and draining, and from some time on it stays up, the processes can be listed and the store
\* takes what it is given.
Trouble == \E h \in Host : Crash(h) \/ RefuseFact(h) \/ ListingFails(h)
FairSpec ==
  /\ Spec
  /\ \A h \in Host : WF_vars(h \in Hosts /\ Drain(h)) /\ WF_vars(h \in Hosts /\ Start(h))
  /\ <>[][~Trouble]_vars

-----------------------------------------------------------------------------
(* Properties.                                                             *)

TypeOK ==
  /\ spawn \in {"none", "empty", "fresh", "old"} /\ overtaken \in BOOLEAN /\ child \in 0..MaxProcs
  /\ procs \in Seq({"up", "lingering", "gone"}) /\ Len(procs) <= MaxProcs
  /\ facts \in Seq({"fact", "ended", "lost", "group_lingering"}) /\ said \in BOOLEAN
  /\ offset \in 0..Len(facts) /\ keys \subseteq DOMAIN facts \cup {Stopped, StartLost}
  /\ slot \in {"live", "stopping", "ended"}
  /\ \A h \in Host : host[h].cached \in NoCache..Len(facts) /\ host[h].next \in 0..Len(facts)

\* "Idempotent by session key, and answered from the ledger" (lib.rs start): whichever hosts start the session, and
\* wherever they crash, it gets one process. A record that cannot be written after the spawn gives the key back, and
\* promises nothing.
OneProcess == ~RecordFails => Len(procs) <= 1

\* The offset a host reads from, on file or cached, is never ahead of what reached the inbox (host.rs drain_run): a
\* crash, a second host or a refused enqueue delivers a line again and never skips one.
NothingSkipped ==
  \A n \in DOMAIN facts : n \notin keys => offset < n /\ \A h \in Host : host[h].cached < n

\* An end that is drained is the end: the leader is reaped and nothing of its group is left (lib.rs drain_facts). So
\* is the end of a stopped slot that alive answered, unless a host that had decided to start the session before wrote
\* its claim after the stop began. As above, where the record can be written.
DrainedEndIsTheEnd ==
  ~RecordFails /\ ((\E k \in keys \cap DOMAIN facts : IsEnd(facts[k])) \/ (Stopped \in keys /\ ~overtaken))
    => \A p \in DOMAIN procs : procs[p] = "gone"

\* A session that is gone does not stay unnoticed: the run is told of an end.
EndIsReported == (~RecordFails /\ child # NoProc /\ procs[child] = "gone") ~> (EndKeys # {})

\* What the run is told of its session: the read position passes over no line, and no end comes before the end
\* (host.rs drain_run, lib.rs drain_facts). Lines behind the position when the end is told are StoppedAfterItsFacts.
FactsAreTrue == TypeOK /\ NothingSkipped /\ DrainedEndIsTheEnd

\* host.rs drain_session: "An end is confirmed by the backend, and only once its facts are drained to the end". The
\* facts are read before alive is asked, so a line written in between, and the exit after it, contradict it.
StoppedAfterItsFacts == Stopped \in keys => \A n \in DOMAIN facts : IsEnd(facts[n]) \/ n \in keys
=============================================================================
