------------------------------ MODULE RunStore ------------------------------
(***************************************************************************)
(* One run in the coordination store (crates/run-store-sqlite) and the     *)
(* hosts that compete for it (crates/run-host: lease.rs, fold.rs, host.rs).*)
(*                                                                         *)
(* Anyone enqueues inputs; only the owner, fenced by the epoch of its      *)
(* lease, moves them into the log.  Every store call is one transaction,   *)
(* so an action is one call; what a host read in an earlier call (a lease, *)
(* a cached state, the oldest input, a poison count) is kept in its own    *)
(* variables and may be stale when the host uses it.  A host that crashes  *)
(* simply takes no further step: a restarted service mints a new owner id  *)
(* (host.rs mint_owner_id), so it is another member of Host.               *)
(*                                                                         *)
(* What the reducer decides is left open here (any of a few decision       *)
(* lists); module RunEngine models it.                                     *)
(***************************************************************************)
EXTENDS Integers, Sequences

CONSTANTS
  Host,         \* owner ids, one per started service process
  Commission,   \* the input that creates the run
  CliInput,     \* the other inputs a CLI, an adapter or the executor enqueues
  Bad,          \* the ones whose fold panics (fold.rs reduce)
  Timer,        \* timer ids of the run
  Version,      \* Version[h]: the contract version a host writes
  CliVersion,   \* the contract versions of the processes that enqueue from outside
  LeaseExpiry,  \* lease.rs LEASE_EXPIRY, in ticks of the clock
  MaxAttempts,  \* the budget of one input before it is poison
  MaxTime,      \* bound: the clock
  MaxLog,       \* bound: the length of the log
  MaxAccepted   \* bound: the inputs accepted

ASSUME ConstantsAssumption ==
  /\ Bad \subseteq CliInput
  /\ Version \in [Host -> Nat] /\ CliVersion \subseteq Nat
  /\ LeaseExpiry \in Nat /\ MaxAttempts \in Nat /\ MaxTime \in Nat /\ MaxLog \in Nat /\ MaxAccepted \in Nat
  /\ Commission \notin CliInput

VARIABLES
  now,       \* the clock every process reads
  lease,     \* kv['owner/<run>']: epoch 0 while nobody ever held it
  row,       \* the run's row: "absent", "open" or "finished"
  max_v,     \* the row's max_v
  log,       \* table events, in seq order
  inbox,     \* table inbox, in rowid order: inputs
  stamp,     \* the v of each input's row: the version of the process that enqueued it
  timers,    \* table timers: the armed instant of each timer, or Off
  poison,    \* kv['poison/<run>/<key>']: failures counted per input
  held,      \* held[h]: the epoch this host believes it owns, 0 for none
  cache,     \* cache[h]: the seq its cached RunState is the fold of, NoCache or ReadOnly
  step,      \* step[h]: what the host read and has not used yet
  accepted   \* history: the inputs enqueue accepted, in order

vars == <<now, lease, row, max_v, log, inbox, stamp, timers, poison, held, cache, step, accepted>>

storeVars == <<lease, row, max_v, log, inbox, stamp, timers, poison, accepted>>
hostVars == <<held, cache, step>>

Off == -1
NoCache == -1
ReadOnly == -2
Idle == [pc |-> "idle"]

-----------------------------------------------------------------------------
(* Inputs, keys and events.                                                *)

\* The timer of an event that is about none.
NoTimer == "no timer"

Firing == [timer : Timer, at : 0 .. MaxTime + 1]
Input == CliInput \cup Firing \cup {Commission}

\* An event is keyed by the input it came from and its part in that input's
\* append, which is what decision_key builds from the input's key.
Part == {"input", "decision1", "decision2", "poison"}
Kind == {"input", "ignored", "set", "cleared", "fired", "finished", "parked"}

Event == [in : Input, part : Part, kind : Kind, timer : Timer \cup {NoTimer}, at : Nat,
          v : Nat, epoch : Nat, by : Host]

\* Event::new by host h under epoch e; epoch and by are history.
NewEvent(h, e, i, part, kind, t, at) ==
  [in |-> i, part |-> part, kind |-> kind, timer |-> t, at |-> at,
   v |-> Version[h], epoch |-> e, by |-> h]

Logged(i, part) == \E n \in 1 .. Len(log) : log[n].in = i /\ log[n].part = part
Waiting(i) == \E n \in 1 .. Len(inbox) : inbox[n] = i

\* DELETE FROM inbox by key: the sequence without the one place that holds i.
Without(s, i) ==
  IF \E n \in 1 .. Len(s) : s[n] = i
  THEN LET n == CHOOSE n \in 1 .. Len(s) : s[n] = i
       IN  [m \in 1 .. Len(s) - 1 |-> IF m < n THEN s[m] ELSE s[m + 1]]
  ELSE s

-----------------------------------------------------------------------------
(* The lease (lease.rs acquire_or_renew).                                  *)

Lease == [owner : Host \cup {"nobody"}, epoch : Nat, expires : Int]
NoLease == [owner |-> "nobody", epoch |-> 0, expires |-> 0]

\* A lease that was never held, or whose expiry has passed, is up for anyone.
Expired(l) == l.epoch = 0 \/ l.expires - now <= 0

HeldByOther(l, h) == ~Expired(l) /\ l.owner # h

\* Half the expiry or more is left: acquire_or_renew writes nothing.
Fresh(l) == 2 * (l.expires - now) >= LeaseExpiry

\* The value acquire_or_renew wants to write over the value it read.
NextLease(l, h) ==
  [owner |-> h,
   epoch |-> IF Expired(l) THEN l.epoch + 1 ELSE l.epoch,
   expires |-> now + LeaseExpiry]

-----------------------------------------------------------------------------
(* append (append.rs), its checks in their order and its effects.          *)

\* Mutants: append without its fence, its sequence check, its version check.
AppendResultUnfenced(expected, fence, evs) ==
  IF Len(log) # expected THEN "seq_mismatch"
  ELSE IF \E n \in 1 .. Len(evs) : evs[n].v < max_v THEN "version_too_old"
  ELSE IF \E n \in 1 .. Len(evs) : Logged(evs[n].in, evs[n].part) THEN "duplicate_key"
  ELSE "appended"
AppendResultAnySeq(expected, fence, evs) ==
  IF lease.epoch = 0 \/ lease.epoch # fence THEN "fenced"
  ELSE IF \E n \in 1 .. Len(evs) : evs[n].v < max_v THEN "version_too_old"
  ELSE IF \E n \in 1 .. Len(evs) : Logged(evs[n].in, evs[n].part) THEN "duplicate_key"
  ELSE "appended"
AppendResultAnyVersion(expected, fence, evs) ==
  IF lease.epoch = 0 \/ lease.epoch # fence THEN "fenced"
  ELSE IF Len(log) # expected THEN "seq_mismatch"
  ELSE IF \E n \in 1 .. Len(evs) : Logged(evs[n].in, evs[n].part) THEN "duplicate_key"
  ELSE "appended"

AppendResult(expected, fence, evs) ==
  IF lease.epoch = 0 \/ lease.epoch # fence THEN "fenced"
  ELSE IF Len(log) # expected THEN "seq_mismatch"
  ELSE IF \E n \in 1 .. Len(evs) : evs[n].v < max_v THEN "version_too_old"
  ELSE IF \E n \in 1 .. Len(evs) : Logged(evs[n].in, evs[n].part) THEN "duplicate_key"
  ELSE "appended"

\* Mutant: a firing takes the timer off whatever instant it is armed for.
TimerAfterAnyInstant(tm, ev) ==
  [t \in Timer |->
     IF ev.kind = "finished" THEN Off
     ELSE IF ev.timer # t THEN tm[t]
     ELSE IF ev.kind = "set" THEN ev.at
     ELSE IF ev.kind \in {"cleared", "fired"} THEN Off
     ELSE tm[t]]

\* timers.rs apply, for one event: arm, clear and fire; finished clears all.
TimerAfter(tm, ev) ==
  [t \in Timer |->
     IF ev.kind = "finished" THEN Off
     ELSE IF ev.timer # t THEN tm[t]
     ELSE IF ev.kind = "set" THEN ev.at
     ELSE IF ev.kind = "cleared" THEN Off
     ELSE IF ev.kind = "fired" /\ tm[t] = ev.at THEN Off
     ELSE tm[t]]

\* The events of one append are an input and at most two decisions.
TimersAfter(tm, evs) ==
  LET one == TimerAfter(tm, evs[1])
      two == IF Len(evs) >= 2 THEN TimerAfter(one, evs[2]) ELSE one
  IN  IF Len(evs) >= 3 THEN TimerAfter(two, evs[3]) ELSE two

Finishes(evs) == \E n \in 1 .. Len(evs) : evs[n].kind = "finished"

MaxOf(a, b) == IF a >= b THEN a ELSE b

\* The store's half of a successful append that consumes input i.  max_v goes up to
\* the highest v of the events: the input's own, or the host's that all its decisions have.
ApplyAppend(evs, i) ==
  /\ log' = log \o evs
  /\ inbox' = Without(inbox, i)
  /\ timers' = TimersAfter(timers, evs)
  /\ max_v' = MaxOf(max_v, MaxOf(evs[1].v, evs[Len(evs)].v))
  /\ row' = IF Finishes(evs) THEN "finished" ELSE row

-----------------------------------------------------------------------------
(* What the reducer may answer to an input, in a state that is final or not.*)

Decision(h, e, i, part, kind, t, at) == NewEvent(h, e, i, part, kind, t, at)

\* The input as it is logged: reduce clones the row, so its v stays the enqueuer's.
InputEvent(h, e, i) ==
  [in |-> i, part |-> "input", kind |-> IF i \in Firing THEN "fired" ELSE "input",
   timer |-> IF i \in Firing THEN i.timer ELSE NoTimer,
   at |-> IF i \in Firing THEN i.at ELSE 0,
   v |-> stamp[i], epoch |-> e, by |-> h]

Decided(h, e, i, final) ==
  LET d1(kind, t, at) == Decision(h, e, i, "decision1", kind, t, at)
      d2(kind, t, at) == Decision(h, e, i, "decision2", kind, t, at)
  IN  IF final
      THEN {<<d1("ignored", NoTimer, 0)>>}
      ELSE {<<>>, <<d1("ignored", NoTimer, 0)>>, <<d1("finished", NoTimer, 0)>>}
             \cup {<<d1("set", t, now + 1)>> : t \in Timer}
             \cup {<<d1("cleared", t, 0)>> : t \in Timer}
             \cup {<<d1("cleared", t, 0), d2("finished", NoTimer, 0)>> : t \in Timer}

-----------------------------------------------------------------------------

Init ==
  /\ now = 0
  /\ lease = NoLease
  /\ row = "absent"
  /\ max_v = 0
  /\ log = <<>>
  /\ inbox = <<>>
  /\ stamp = [i \in Input |-> 0]
  /\ timers = [t \in Timer |-> Off]
  /\ poison = [i \in Input |-> 0]
  /\ held = [h \in Host |-> 0]
  /\ cache = [h \in Host |-> NoCache]
  /\ step = [h \in Host |-> Idle]
  /\ accepted = <<>>

Tick ==
  /\ now < MaxTime
  /\ now' = now + 1
  /\ UNCHANGED <<storeVars, hostVars>>

\* append.rs enqueue: a key that waits or is logged is a Duplicate and writes
\* nothing; only commissioned creates the run.
EnqueueAccepts(i) ==
  /\ ~Waiting(i) /\ ~Logged(i, "input")
  /\ (row = "absent") = (i = Commission)

\* By a process of contract version v, which Event::new writes into the row.
Enqueue(i, v) ==
  /\ EnqueueAccepts(i)
  /\ Len(accepted) < MaxAccepted
  /\ inbox' = Append(inbox, i)
  /\ stamp' = [stamp EXCEPT ![i] = v]
  /\ accepted' = Append(accepted, i)
  /\ row' = IF row = "absent" THEN "open" ELSE row
  /\ UNCHANGED <<now, lease, max_v, log, timers, poison, hostVars>>

EnqueueFromOutside == \E i \in CliInput \cup {Commission}, v \in CliVersion : Enqueue(i, v)

\* host.rs fire_due_timers: the owner enqueues each armed timer that is due.
FireDueTimer(h) ==
  /\ step[h] = Idle /\ held[h] > 0
  /\ \E t \in Timer :
       /\ timers[t] # Off /\ timers[t] <= now
       /\ Enqueue([timer |-> t, at |-> timers[t]], Version[h])

\* Forget what this host knows of the run (host.rs: self.runs.remove).
Forget(h) ==
  /\ held' = [held EXCEPT ![h] = 0]
  /\ cache' = [cache EXCEPT ![h] = NoCache]
  /\ step' = [step EXCEPT ![h] = Idle]

\* The top of a tick (host.rs tick, leases): a run that is no longer open is
\* dropped; for an open one, the read of acquire_or_renew.
AcquireRead(h) ==
  /\ step[h] = Idle
  /\ row # "absent"
  /\ \/ /\ row = "finished" \/ HeldByOther(lease, h)
        /\ Forget(h)
     \/ /\ row = "open" /\ ~Expired(lease) /\ lease.owner = h /\ Fresh(lease)
        /\ held' = [held EXCEPT ![h] = lease.epoch]
        /\ UNCHANGED <<cache, step>>
     \/ /\ row = "open" /\ ~HeldByOther(lease, h)
        /\ Expired(lease) \/ ~Fresh(lease)
        /\ step' = [step EXCEPT ![h] = [pc |-> "lease", from |-> lease, to |-> NextLease(lease, h)]]
        /\ UNCHANGED <<held, cache>>
  /\ UNCHANGED <<now, storeVars>>

\* Its compare-and-set on the exact value read; CasFailed skips the run.
AcquireCas(h) ==
  /\ step[h].pc = "lease"
  /\ IF lease = step[h].from
     THEN /\ lease' = step[h].to
          /\ held' = [held EXCEPT ![h] = step[h].to.epoch]
          /\ step' = [step EXCEPT ![h] = Idle]
          /\ UNCHANGED cache
     ELSE /\ Forget(h)
          /\ UNCHANGED lease
  /\ UNCHANGED <<now, row, max_v, log, inbox, stamp, timers, poison, accepted>>

\* fold.rs loaded_state: fold the log once, then keep the state.  A run with
\* neither a log nor an inbox row has no definition to read.
Load(h) ==
  /\ step[h] = Idle /\ held[h] > 0 /\ cache[h] = NoCache
  /\ Len(log) > 0 \/ Len(inbox) > 0
  /\ cache' = [cache EXCEPT ![h] = Len(log)]
  /\ UNCHANGED <<now, storeVars, held, step>>

\* fold.rs step_input: the oldest inbox row.
NextInput(h) ==
  /\ step[h] = Idle /\ held[h] > 0 /\ cache[h] >= 0
  /\ Len(inbox) > 0
  /\ step' = [step EXCEPT ![h] = [pc |-> "input", in |-> Head(inbox)]]
  /\ UNCHANGED <<now, storeVars, held, cache>>

\* Mutant: a refused append leaves the row consumed.
RefusedConsumes(h, error, i) ==
  /\ error # "appended"
  /\ IF error = "fenced" THEN Forget(h)
     ELSE /\ cache' = [cache EXCEPT ![h] = NoCache]
          /\ step' = [step EXCEPT ![h] = Idle]
          /\ UNCHANGED held
  /\ inbox' = Without(inbox, i)
  /\ UNCHANGED <<row, max_v, log, timers, poison>>

\* fold.rs append_refused, by error; a DuplicateKey also consumed the row.
Refused(h, error, i) ==
  /\ error # "appended"
  /\ IF error = "fenced" THEN Forget(h)
     ELSE /\ cache' = [cache EXCEPT ![h] = IF error = "version_too_old" THEN ReadOnly
                                           ELSE IF error = "cas_failed" THEN @ ELSE NoCache]
          /\ step' = [step EXCEPT ![h] = Idle]
          /\ UNCHANGED held
  /\ inbox' = IF error = "duplicate_key" THEN Without(inbox, i) ELSE inbox
  /\ UNCHANGED <<row, max_v, log, timers, poison>>

\* The cached state is final: `finished` is in the part of the log it folds.
Final(h) == \E n \in 1 .. Len(log) : n <= cache[h] /\ log[n].kind = "finished"

\* fold.rs commit_input: the input and its decisions in one append, which also
\* deletes the input's poison count.
CommitInput(h) ==
  /\ step[h].pc = "input" /\ step[h].in \notin Bad
  /\ \E ds \in Decided(h, held[h], step[h].in, Final(h)) :
       LET i == step[h].in
           evs == <<InputEvent(h, held[h], i)>> \o ds
           result == AppendResult(cache[h], held[h], evs)
       IN  /\ Len(log) + Len(evs) <= MaxLog
           /\ \/ Refused(h, result, i)
              \/ /\ result = "appended"
                 /\ ApplyAppend(evs, i)
                 /\ poison' = [poison EXCEPT ![i] = 0]
                 /\ cache' = [cache EXCEPT ![h] = @ + Len(evs)]
                 /\ step' = [step EXCEPT ![h] = Idle]
                 /\ UNCHANGED held
  /\ UNCHANGED <<now, lease, stamp, accepted>>

\* fold.rs count_poison: the read of the count of an input that did not fold.
CountPoisonRead(h) ==
  /\ step[h].pc = "input" /\ step[h].in \in Bad
  /\ step' = [step EXCEPT ![h] = [pc |-> "count", in |-> step[h].in, count |-> poison[step[h].in]]]
  /\ UNCHANGED <<now, storeVars, held, cache>>

\* Mutants: the count goes down from zero; the count is never written.
CountPoisonDown(h) ==
  /\ step[h].pc = "count" /\ step[h].count + 1 < MaxAttempts
  /\ poison' = [poison EXCEPT ![step[h].in] = step[h].count - 1]
  /\ step' = [step EXCEPT ![h] = Idle]
  /\ UNCHANGED <<now, lease, row, max_v, log, inbox, stamp, timers, held, cache, accepted>>
CountPoisonForgets(h) ==
  /\ step[h].pc = "count" /\ step[h].count + 1 < MaxAttempts
  /\ step' = [step EXCEPT ![h] = Idle]
  /\ UNCHANGED <<now, storeVars, held, cache>>

\* Below the budget the count goes up by compare-and-set; a lost race is no count.
CountPoison(h) ==
  /\ step[h].pc = "count" /\ step[h].count + 1 < MaxAttempts
  /\ poison' = IF poison[step[h].in] = step[h].count
               THEN [poison EXCEPT ![step[h].in] = @ + 1] ELSE poison
  /\ step' = [step EXCEPT ![h] = Idle]
  /\ UNCHANGED <<now, lease, row, max_v, log, inbox, stamp, timers, held, cache, accepted>>

\* fold.rs consume_poison: at the budget the count is read again, to be deleted
\* by a compare-and-set inside the append.
ConsumePoisonRead(h) ==
  /\ step[h].pc = "count" /\ step[h].count + 1 >= MaxAttempts
  /\ step' = [step EXCEPT ![h] = [pc |-> "consume", in |-> step[h].in, count |-> poison[step[h].in]]]
  /\ UNCHANGED <<now, storeVars, held, cache>>

\* One parked event consumes the row, and the cached state, which does not have
\* that event, is dropped.
ConsumePoison(h) ==
  /\ step[h].pc = "consume"
  /\ LET i == step[h].in
         evs == <<NewEvent(h, held[h], i, "poison", "parked", NoTimer, 0)>>
         checked == AppendResult(cache[h], held[h], evs)
         result == IF checked = "appended" /\ step[h].count # 0 /\ poison[i] # step[h].count
                   THEN "cas_failed" ELSE checked
     IN  /\ Len(log) + 1 <= MaxLog
         /\ \/ Refused(h, result, i)
            \/ /\ result = "appended"
               /\ ApplyAppend(evs, i)
               /\ poison' = [poison EXCEPT ![i] = 0]
               /\ cache' = [cache EXCEPT ![h] = NoCache]
               /\ step' = [step EXCEPT ![h] = Idle]
               /\ UNCHANGED held
  /\ UNCHANGED <<now, lease, stamp, accepted>>

HostStep(h) ==
  \/ FireDueTimer(h) \/ AcquireRead(h) \/ AcquireCas(h) \/ Load(h) \/ NextInput(h)
  \/ CommitInput(h) \/ CountPoisonRead(h) \/ CountPoison(h)
  \/ ConsumePoisonRead(h) \/ ConsumePoison(h)

Next == Tick \/ EnqueueFromOutside \/ \E h \in Host : HostStep(h)

Spec == Init /\ [][Next]_vars

-----------------------------------------------------------------------------
(* Properties.                                                             *)

StepType ==
  {Idle} \cup [pc : {"lease"}, from : Lease, to : Lease]
         \cup [pc : {"input"}, in : Input]
         \cup [pc : {"count", "consume"}, in : Input, count : Nat]

\* The tables of the store and what each host keeps between two calls; the poison
\* counts (fold.rs count_poison) among them, which no race takes below zero.
TypeOK ==
  /\ now \in 0 .. MaxTime
  /\ lease \in Lease
  /\ row \in {"absent", "open", "finished"}
  /\ max_v \in Nat
  /\ log \in Seq(Event)
  /\ inbox \in Seq(Input)
  /\ stamp \in [Input -> Nat]
  /\ timers \in [Timer -> Nat \cup {Off}]
  /\ poison \in [Input -> Nat]
  /\ held \in [Host -> Nat]
  /\ cache \in [Host -> Int]
  /\ step \in [Host -> StepType]
  /\ accepted \in Seq(Input)

\* The fence (append.rs append, lease.rs check_epoch_keeps_rising): along the log
\* the epochs never fall, none is above the lease's, and all events of one epoch
\* were written by one host, whatever a host that lost the run still tries.
OneWriterPerEpoch ==
  /\ \A n \in 1 .. Len(log) : log[n].epoch <= lease.epoch
  /\ \A m, n \in 1 .. Len(log) :
       /\ m < n => log[m].epoch <= log[n].epoch
       /\ log[m].epoch = log[n].epoch => log[m].by = log[n].by

\* lease.rs acquire_or_renew under races of its read and its compare-and-set: no
\* two hosts ever believe they hold the run under the same epoch.
NoSharedEpoch ==
  \A g, h \in Host : held[g] = held[h] /\ held[g] > 0 => g = h

\* enqueue, append and DuplicateKey together: an input is folded at most once,
\* and one that is in the log waits no more.
FoldedOnce ==
  /\ \A m, n \in 1 .. Len(log) : log[m].in = log[n].in /\ log[m].part = log[n].part => m = n
  /\ \A n \in 1 .. Len(inbox) : ~Logged(inbox[n], "input")
  /\ \A m, n \in 1 .. Len(inbox) : inbox[m] = inbox[n] => m = n

\* No input enqueue answered Accepted to is ever lost: it waits, or it is in the
\* log, or the log says it was consumed as poison (fold.rs consume_poison).
NothingLost ==
  \A n \in 1 .. Len(accepted) :
    \/ Waiting(accepted[n]) \/ Logged(accepted[n], "input") \/ Logged(accepted[n], "poison")

\* Inputs enter the log in the order they were accepted, across any change of
\* owner: a stale head of the inbox is never appended (append.rs SeqMismatch).
FoldedInOrder ==
  \A m, n \in 1 .. Len(log) : \A a, b \in 1 .. Len(accepted) :
    /\ m < n /\ log[m].part = "input" /\ log[n].part = "input"
    /\ accepted[a] = log[m].in /\ accepted[b] = log[n].in
    => a < b

\* The instant timer t is armed for according to the log alone: its last set that
\* no later set, clear, firing of that instant or finish undoes.
Undoes(ev, t, at) ==
  \/ ev.kind = "finished"
  \/ ev.timer = t /\ ev.kind \in {"set", "cleared"}
  \/ ev.timer = t /\ ev.kind = "fired" /\ ev.at = at

ArmedByLog(t, at) ==
  \E n \in 1 .. Len(log) :
    /\ log[n].kind = "set" /\ log[n].timer = t /\ log[n].at = at
    /\ \A m \in n + 1 .. Len(log) : ~Undoes(log[m], t, at)

\* timers.rs "it never disagrees with the log": the incremental index is what the
\* whole log implies, so a finished run leaves nothing armed.
TimerIndexAgrees ==
  \A t \in Timer :
    /\ timers[t] # Off => ArmedByLog(t, timers[t])
    /\ timers[t] = Off => \A at \in 0 .. MaxTime + 1 : ~ArmedByLog(t, at)

\* The reducer only ever decides on the state the log is at: after `finished`
\* nothing is decided any more, even by a host whose cached state is older, and
\* the run has one `finished` at most.
FinishedIsFinal ==
  /\ \A m, n \in 1 .. Len(log) :
       m < n /\ log[m].kind = "finished" => log[n].kind \in {"input", "fired", "ignored", "parked"}
  /\ row = "finished" <=> \E n \in 1 .. Len(log) : log[n].kind = "finished"

\* append.rs VersionTooOld, store.rs "`max_v` is the highest `v` ever appended": whichever
\* processes enqueue and fold, max_v bounds the log, and a version falls along it at one place
\* only, from an input a newer process enqueued to that input's own decisions, which an older
\* host took; no later append goes below any event before it.
VersionsRise ==
  /\ \A n \in 1 .. Len(log) : log[n].v <= max_v
  /\ \A m, n \in 1 .. Len(log) :
       m < n => log[m].v <= log[n].v \/ (log[m].part = "input" /\ log[n].in = log[m].in)

\* fold.rs count_poison, consume_poison: while a host lives, an inbox that holds
\* inputs is folded to its end or the run finishes; an input whose fold panics
\* every time does not hold up the ones behind it.
InboxDrains == Len(inbox) > 0 ~> (Len(inbox) = 0 \/ row = "finished")

\* The run has one owner at a time, in what the hosts believe and in what the log
\* says of it (lease.rs, append.rs).
OneOwner == NoSharedEpoch /\ OneWriterPerEpoch

\* An accepted input is folded, or accounted for as poison, exactly once (append.rs
\* enqueue, append; fold.rs append_refused, consume_poison).
ExactlyOnce == FoldedOnce /\ NothingLost

\* The log is the story of one run in its order: inputs as they were accepted, and
\* no decision behind the end (fold.rs fold_run, append.rs SeqMismatch).
LogInOrder == FoldedInOrder /\ FinishedIsFinal
=============================================================================
