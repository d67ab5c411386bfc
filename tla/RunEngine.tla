------------------------------ MODULE RunEngine ------------------------------
(***************************************************************************)
(* The reducer of one run (crates/run-engine): decide and evolve.          *)
(*                                                                         *)
(* The state is one record, st; an action is one input that is not ignored *)
(* (guard.rs is its guard), and st' is the input folded and then every     *)
(* decision it leads to, in the order decide emits them: the whole list    *)
(* goes into the log in one append (module RunStore).  An ignored input is *)
(* a stuttering step.  What the world may report is what the effects the   *)
(* run owes allow (effects.rs); a timer fires at any time while armed, so  *)
(* every race of a deadline and a late answer is a behaviour.              *)
(*                                                                         *)
(* Slots are named by their place in the list.  Left out: the text of      *)
(* turns and messages, pids, instants, counters that only make keys, and   *)
(* the wake rule, which puts a late timer off and changes nothing else.    *)
(***************************************************************************)
EXTENDS Integers, Sequences, FiniteSets

CONSTANTS
  Settings,     \* Settings[n]: a flow, a policy and surroundings that a run may be given
  Persona,      \* the handles a flow may name
  Synth,        \* the consolidator's member id
  NoStep,
  Holder        \* other runs that may hold the claim

VARIABLES
  st,           \* the RunState
  given         \* the setting the run was commissioned in and meets

\* The flow and the policy of the commission (run-contracts).
Step == Settings[given].step                 \* the steps of the flow
First == Settings[given].first               \* its first step
Members == Settings[given].members           \* Members[s]: the personas of a step, in order
FanOut == Settings[given].fan_out            \* the steps that are a fan-out, with a synthesis
NextStep == Settings[given].next             \* NextStep[s], or NoStep
ReworkTo == Settings[given].rework           \* ReworkTo[s]: on_needs_rework, or NoStep
MaxPasses == Settings[given].max_passes      \* MaxPasses[s]: the ceiling of the back edge s declares
MaxAttempts == Settings[given].max_attempts  \* policy.max_attempts
MaxHolds == Settings[given].max_holds        \* policy.max_holds

\* What surrounds it, and the bounds.
Beat == Settings[given].beats                \* the heartbeat kinds the backend reports
Cause == Settings[given].causes              \* the end causes it reports
May == Settings[given].may                   \* what else the environment may do, see below
Fires == Settings[given].fires               \* the purposes of the timers that may fire
MaxSlots == Settings[given].max_slots        \* bound: attempts of all seats together
MaxSignals == Settings[given].max_signals    \* bound: stop signals of one slot, for a person who resumes a stop again and again

\* "sampler_fails": a host that sampled a session before cannot sample it now.
\* "poison": an input whose fold panics parks the run (run-host fold.rs).
\* "late_start": a session whose end is folded already reports that it started.
\* "group_lingers": a session's leader dies before the rest of its group.
Mays == {"sampler_fails", "poison", "late_start", "group_lingers"}
RunPurposes == {"root_deadline", "tree_window"}
SlotPurposes == {"start_deadline", "quiet", "subprocess_idle", "call_bound", "confirm",
                 "stop_grace_1", "stop_grace_2", "wind_down", "hold_retry"}
Beats == {"model_output", "calls_open", "calls_closed", "subprocess_moved", "blind", "other"}
Causes == {"turn_complete", "failed", "hold", "hold_until_reset", "permission_refused"}

\* What flow.rs compile lets through: known steps, members that are not reserved names,
\* at least one and none twice in a step (NoMembers, DuplicateMember), no ceiling of zero.
ASSUME SettingsAssumption ==
  \A n \in DOMAIN Settings : LET g == Settings[n] IN
    /\ g.first \in g.step /\ NoStep \notin g.step /\ g.fan_out \subseteq g.step
    /\ g.next \in [g.step -> g.step \cup {NoStep}] /\ g.rework \in [g.step -> g.step \cup {NoStep}]
    /\ g.max_passes \in [g.step -> Nat \ {0}]
    /\ g.members \in [g.step -> Seq(Persona)]
    /\ \A s \in g.step :
         /\ Len(g.members[s]) > 0
         /\ \A j, k \in 1 .. Len(g.members[s]) : g.members[s][j] = g.members[s][k] => j = k
    /\ g.beats \subseteq Beats /\ g.causes \subseteq Causes /\ g.may \subseteq Mays
    /\ g.fires \subseteq RunPurposes \cup SlotPurposes
    /\ g.max_attempts \in Nat \ {0} /\ g.max_holds \in Nat /\ g.max_slots \in Nat /\ g.max_signals \in Nat

ASSUME NamesAssumption == Synth \notin Persona

vars == <<st, given>>

-----------------------------------------------------------------------------
(* State (state.rs).                                                       *)

NoLadder == [on |-> FALSE, forced |-> FALSE, sent |-> 0, total |-> 0, fired |-> 0]

\* Ladder::new: `sent` is of this round, `total` of the slot's whole life.
NewLadder(forced) == [NoLadder EXCEPT !.on = TRUE, !.forced = forced]

\* A fresh SlotRecord in Pending.  `open` is an open call, `restart` is
\* AfterStop::Restart, `live` the process of a replied slot; `logged`
\* is history: the highest nth in a stop_signalled of it.
NewSlot(step, visit, member, attempt) ==
  [step |-> step, visit |-> visit, member |-> member, attempt |-> attempt,
   at |-> "Pending", open |-> FALSE, restart |-> FALSE, escalate |-> FALSE, rework |-> FALSE,
   live |-> FALSE, ladder |-> NoLadder, cause |-> "none", restarts |-> 0, holds |-> 0,
   condition |-> "none", fresh |-> FALSE, blind |-> FALSE, sampling |-> FALSE,
   logged |-> 0]

Initial ==
  [phase |-> "Created", commissioned |-> FALSE, root |-> FALSE, behind |-> "none",
   tree |-> "Unprepared", park |-> "none", outcome |-> "none", condition |-> "none",
   slots |-> <<>>, visits |-> [s \in Step |-> 0], passes |-> [s \in Step |-> 0],
   current |-> NoStep, questions |-> <<>>, timers |-> {}, root_periods |-> 0,
   cancel_owed |-> FALSE, delivered |-> {}, withdrawn |-> FALSE]

Slots(s) == 1 .. Len(s.slots)

Talking(r) == r.at \in {"Running", "Quiet", "Nudged"}

\* is_live: whether a process of this attempt may exist.
Live(r) == Talking(r) \/ r.at \in {"Starting", "Stopping"} \/ (r.at = "Replied" /\ r.live)

SameSeat(p, r) == p.step = r.step /\ p.visit = r.visit /\ p.member = r.member

\* latest: the place of a seat's latest attempt, or 0.
Latest(s, step, visit, member) ==
  LET of == {i \in Slots(s) : /\ s.slots[i].step = step /\ s.slots[i].visit = visit
                              /\ s.slots[i].member = member}
  IN  IF of = {} THEN 0 ELSE CHOOSE i \in of : \A j \in of : j <= i

Superseded(s, i) ==
  LET r == s.slots[i] IN s.slots[Latest(s, r.step, r.visit, r.member)].attempt # r.attempt

PersonaLive(s, member) == \E i \in Slots(s) : s.slots[i].member = member /\ Live(s.slots[i])
AnyLive(s) == \E i \in Slots(s) : Live(s.slots[i])
TreePrepared(s) == s.phase = "Running" /\ s.tree = "Prepared"
Finishing(s) == s.phase = "Finishing"

Open(q) == ~q.answered
OpenQuestions(s) == {k \in 1 .. Len(s.questions) : Open(s.questions[k])}

\* Conditions on seats' latest attempts.
Conditioned(s) == {i \in Slots(s) : s.slots[i].condition # "none" /\ ~Superseded(s, i)}

\* RunState::view, its precedence.
View(s) ==
  IF s.phase \in {"Finished", "Finishing", "Queued"} THEN s.phase
  ELSE IF OpenQuestions(s) # {} THEN "NeedsDecision"
  ELSE IF \E i \in Conditioned(s) : s.slots[i].condition = "Held" THEN "Held"
  ELSE IF Conditioned(s) # {} \/ s.condition # "none" THEN "Parked"
  ELSE s.phase

-----------------------------------------------------------------------------
(* Timers: a set of <<purpose, slot>>, slot 0 for the run's own.           *)

SetTimer(s, purpose, i) == [s EXCEPT !.timers = s.timers \cup {<<purpose, i>>}]
ClearTimers(s, purposes, i) ==
  [s EXCEPT !.timers = {t \in s.timers : ~(t[1] \in purposes /\ t[2] = i)}]
ClearSlotTimers(s, i) == [s EXCEPT !.timers = {t \in s.timers : t[2] # i}]
Armed(s, purpose, i) == <<purpose, i>> \in s.timers

-----------------------------------------------------------------------------
(* What the run owes (effects.rs).                                         *)

\* Mutant: the table has no kill after the second SIGTERM.
StopSignalTwice(l) ==
  IF ~l.on THEN "none"
  ELSE IF l.sent = 0 THEN "Term"
  ELSE IF l.sent = 1 /\ l.fired >= 1 THEN IF l.forced THEN "Kill" ELSE "Term"
  ELSE "none"

\* stop_signal: the stop table.
StopSignal(l) ==
  IF ~l.on THEN "none"
  ELSE IF l.sent = 0 THEN "Term"
  ELSE IF l.sent = 1 /\ l.fired >= 1 THEN IF l.forced THEN "Kill" ELSE "Term"
  ELSE IF l.sent = 2 /\ l.forced /\ l.fired = 2 THEN "Kill"
  ELSE "none"

\* result_deliveries and the questions: what owed_deliveries names, and what of
\* it `delivered` has not recorded.
OwedResults(s) ==
  IF s.root /\ Finishing(s) /\ s.park # "none"
  THEN ({"result"} \cup IF s.park = "committed" /\ s.outcome # "Withdrawn" THEN {"notice"} ELSE {})
         \ s.delivered
  ELSE {}
OwedQuestions(s) ==
  {k \in OpenQuestions(s) : s.root /\ s.phase = "Running" /\ ~s.questions[k].delivered}

\* ready_to_release: every stop confirmed, the park recorded, every delivery done.
ReadyToRelease(s) ==
  Finishing(s) /\ s.park # "none" /\ ~AnyLive(s) /\ OwedResults(s) = {}

StopOwed(s, i) ==
  /\ StopSignal(s.slots[i].ladder) # "none"
  /\ Finishing(s) \/ TreePrepared(s)

\* pending_effects: the effects owed now, by kind and slot.
PendingEffects(s) ==
  LET stops == {<<"StopSession", i>> : i \in {j \in Slots(s) : StopOwed(s, j)}}
      results == {<<"Deliver", 0>> : d \in OwedResults(s)}
  IN  CASE s.phase = "Created" ->
             IF s.commissioned /\ ~s.root /\ s.condition = "none" THEN {<<"OpenRoot", 0>>} ELSE {}
        [] s.phase = "Queued" -> {<<"TakeClaim", 0>>}
        [] s.phase = "Running" /\ s.cancel_owed -> {<<"CancelTree", 0>>}
        [] s.phase = "Running" /\ ~s.cancel_owed /\ s.tree = "Unprepared" ->
             IF s.condition = "none" THEN {<<"PrepareTree", 0>>} ELSE {}
        [] TreePrepared(s) /\ ~s.cancel_owed ->
             stops \cup {<<"Deliver", k>> : k \in OwedQuestions(s)}
                   \cup {<<"StartSession", i>> : i \in {j \in Slots(s) : s.slots[j].at = "Starting"}}
                   \cup {<<"NudgeSession", i>> : i \in {j \in Slots(s) : s.slots[j].at = "Quiet"}}
        [] Finishing(s) ->
             IF AnyLive(s) THEN stops
             ELSE IF s.park = "none" THEN {<<"ParkTree", 0>>}
             ELSE IF results # {} THEN results ELSE {<<"ReleaseClaim", 0>>}
        [] OTHER -> {}

-----------------------------------------------------------------------------
(* Starting slots and routing (decide/route.rs, evolve.rs).                *)

With(s, i, r) == [s EXCEPT !.slots[i] = r]

\* arm_ready: under a prepared tree, every waiting slot whose persona has no
\* process; arming its deadline is what takes it to Starting (arm_start).
ArmReady(s) ==
  LET waits(i) == s.slots[i].at = "Pending"
      ready == {i \in Slots(s) :
                  /\ waits(i) /\ ~PersonaLive(s, s.slots[i].member)
                  /\ ~\E j \in 1 .. i - 1 : waits(j) /\ s.slots[j].member = s.slots[i].member}
  IN  IF ~TreePrepared(s) THEN s
      ELSE [s EXCEPT !.slots = [i \in Slots(s) |-> IF i \in ready THEN [s.slots[i] EXCEPT !.at = "Starting"]
                                                   ELSE s.slots[i]],
                     !.timers = s.timers \cup {<<"start_deadline", i>> : i \in ready}]

HoldCauses == {"hold", "hold_until_reset"}

\* new_record and next_attempt: an answered escalation and a hold spend no
\* restart, and a person's resume starts the budgets over.
NextRecord(s, step, visit, member, attempt, answered) ==
  LET new == NewSlot(step, visit, member, attempt)
      last == Latest(s, step, visit, member)
      prior == s.slots[last]
      free == answered \/ (prior.at = "Ended" /\ prior.cause \in HoldCauses)
  IN  IF last = 0 \/ prior.fresh THEN new
      ELSE [new EXCEPT !.holds = prior.holds,
                       !.restarts = prior.restarts + IF free THEN 0 ELSE 1]

\* step_started, folded, and the arm_ready that follows each of its emissions.
StepStarted(s, step, visit, attempt, members, answered) ==
  ArmReady([s EXCEPT
    !.phase = IF s.phase \in {"Queued", "Created"} THEN "Running" ELSE s.phase,
    !.visits[step] = visit, !.current = step,
    !.slots = s.slots \o [k \in 1 .. Len(members) |->
                      NextRecord(s, step, visit, members[k], attempt, answered)]])

StartStep(s, step) == StepStarted(s, step, s.visits[step] + 1, 1, Members[step], FALSE)

Restart(s, i, answered) ==
  LET r == s.slots[i] IN StepStarted(s, r.step, r.visit, r.attempt + 1, <<r.member>>, answered)

\* finish_run and apply_finishing: every session still running is stopped and
\* only the timers of a stop and of a wind-down stay.
FinishedSlot(r, forced) ==
  LET bare == [r EXCEPT !.condition = "none"]
  IN  IF r.at = "Pending" THEN [bare EXCEPT !.at = "Ended", !.cause = "failed"]
      ELSE IF r.at = "Starting" \/ Talking(r)
           THEN [bare EXCEPT !.at = "Stopping", !.open = FALSE, !.ladder = NewLadder(forced)]
      ELSE [bare EXCEPT !.restart = FALSE]

FinishRun(s, outcome) ==
  [s EXCEPT !.phase = "Finishing", !.outcome = outcome, !.condition = "none", !.cancel_owed = FALSE,
            !.slots = [i \in Slots(s) |-> FinishedSlot(s.slots[i], s.withdrawn)],
            !.timers = {t \in s.timers : t[1] \in {"stop_grace_1", "stop_grace_2", "wind_down"}}]

Ask(s, asked, i, step, pass) ==
  [s EXCEPT !.questions = Append(s.questions, [asked |-> asked, slot |-> i, step |-> step,
                                               visit |-> s.visits[step], pass |-> pass,
                                               answered |-> FALSE, delivered |-> FALSE])]

Rework(s, step, pass) == StartStep([s EXCEPT !.passes[step] = pass], ReworkTo[step])

Onward(s, step, outcome) ==
  IF NextStep[step] = NoStep THEN FinishRun(s, outcome) ELSE StartStep(s, NextStep[step])

\* finish_step: the back edge while its ceiling allows, then a question.
FinishStep(s, step, needs_rework) ==
  LET pass == s.passes[step] + 1
  IN  IF needs_rework /\ ReworkTo[step] # NoStep
      THEN IF pass <= MaxPasses[step] THEN Rework(s, step, pass) ELSE Ask(s, "ceiling", 0, step, pass)
      ELSE Onward(s, step, "Delivered")

\* Mutant: an escalating reply counts as an answer.
VotedWhileAsking(r) == r.at = "Replied"

\* member_verdict: whether a member's latest attempt counts.
Voted(r) == r.at = "Replied" /\ ~r.escalate

\* after_reply: is the step of slot i done?  Every member's latest attempt has
\* replied without escalate, and the consolidator has replied too.
AfterReply(s, i) ==
  LET step == s.slots[i].step
      visit == s.slots[i].visit
      latest(m) == s.slots[Latest(s, step, visit, m)]
      members == {Members[step][k] : k \in 1 .. Len(Members[step])}
      synth == Latest(s, step, visit, Synth)
  IN  IF \/ s.current # step \/ s.visits[step] # visit
         \/ \E m \in members : ~Voted(latest(m))
      THEN s
      ELSE IF step \in FanOut /\ synth = 0
           THEN StepStarted(s, step, visit, 1, <<Synth>>, FALSE)
      ELSE IF step \in FanOut /\ s.slots[synth].at # "Replied" THEN s
      ELSE FinishStep(s, step, \E m \in members : latest(m).rework)

-----------------------------------------------------------------------------
(* Sessions (decide/session.rs, input.rs).                                 *)

SetCondition(s, i, condition) == [s EXCEPT !.slots[i].condition = condition]

\* restart_or_park
RestartOrPark(s, i) ==
  IF s.slots[i].restarts + 1 < MaxAttempts THEN Restart(s, i, FALSE) ELSE SetCondition(s, i, "Parked")

\* Mutant: one hold more than the budget.
HoldOneMore(s, i, named) ==
  LET counted == [s EXCEPT !.slots[i].holds = IF named THEN @ ELSE @ + 1]
  IN  IF ~named /\ s.slots[i].holds > MaxHolds THEN SetCondition(s, i, "Parked")
      ELSE SetTimer(SetCondition(counted, i, "Held"), "hold_retry", i)

\* hold: only one with no named reset counts.
Hold(s, i, named) ==
  LET counted == [s EXCEPT !.slots[i].holds = s.slots[i].holds + IF named THEN 0 ELSE 1]
  IN  IF ~named /\ s.slots[i].holds >= MaxHolds THEN SetCondition(s, i, "Parked")
      ELSE SetTimer(SetCondition(counted, i, "Held"), "hold_retry", i)

\* Liveness with any reason but quiet: a stop whose end restarts the seat.
Conclude(s, i) ==
  With(s, i, [s.slots[i] EXCEPT !.at = "Stopping", !.open = FALSE, !.restart = TRUE,
                                !.ladder = NewLadder(s.withdrawn)])

\* Liveness quiet, and the time to confirm it (timers.rs quiet).
GoQuiet(s, i) == SetTimer(With(s, i, [s.slots[i] EXCEPT !.at = "Quiet",
                                                           !.open = s.slots[i].open /\ s.slots[i].at # "Quiet"]),
                          "confirm", i)

\* Mutant: a revived slot gets no quiet timer unless its beat asks for one.
RearmOnBeatOnly(s, i, was_quiet, beat) ==
  LET base == IF was_quiet THEN ClearTimers(s, {"confirm"}, i) ELSE s
      closed == ClearTimers(base, {"subprocess_idle", "call_bound"}, i)
  IN  IF s.slots[i].open
      THEN SetTimer(ClearTimers(base, {"quiet"}, i), IF s.slots[i].blind THEN "call_bound"
                                                     ELSE "subprocess_idle", i)
      ELSE IF beat \in {"model_output", "calls_closed", "subprocess_moved"}
           THEN SetTimer(closed, "quiet", i) ELSE closed

\* rearm: the signs of life for what is now true of the slot.
Rearm(s, i, was_quiet, beat) ==
  LET r == s.slots[i]
      base == IF was_quiet THEN ClearTimers(s, {"confirm"}, i) ELSE s
      closed == ClearTimers(base, {"subprocess_idle", "call_bound"}, i)
      open == ClearTimers(base, {"quiet"} \cup (IF r.blind THEN {"subprocess_idle"} ELSE {})
                                          \cup (IF r.sampling THEN {"call_bound"} ELSE {}), i)
      back == was_quiet \/ beat = "calls_open"
      idle == IF ~r.blind /\ (back \/ beat = "subprocess_moved")
              THEN SetTimer(open, "subprocess_idle", i) ELSE open
  IN  IF ~r.open
      THEN IF was_quiet \/ beat \in {"model_output", "calls_closed", "subprocess_moved"}
           THEN SetTimer(closed, "quiet", i) ELSE closed
      ELSE IF ~r.sampling /\ (back \/ beat = "blind") THEN SetTimer(idle, "call_bound", i) ELSE idle

\* apply_ended: the end of a process, folded, with its timers cleared.
FoldEnded(s, i, cause) ==
  LET r == s.slots[i]
      bare == [r EXCEPT !.condition = "none", !.ladder = NoLadder, !.open = FALSE, !.restart = FALSE]
  IN  ClearSlotTimers(With(s, i, IF r.at = "Replied" THEN [bare EXCEPT !.live = FALSE]
                                 ELSE [bare EXCEPT !.at = "Ended", !.cause = cause]), i)

\* Mutant: the end of a replied session frees its persona and wakes nobody.
EndedWakesNobody(s, i, was, cause) ==
  IF Finishing(s) \/ was.at = "Replied" THEN s
  ELSE IF was.at = "Stopping" /\ ~was.restart THEN ArmReady(s)
  ELSE IF cause \in HoldCauses /\ was.at # "Stopping" THEN Hold(s, i, cause = "hold_until_reset")
  ELSE IF cause = "permission_refused" /\ was.at # "Stopping" THEN SetCondition(s, i, "Parked")
  ELSE RestartOrPark(s, i)

\* ended: what the end leads to is the state the slot ended in; an end out of the
\* blue is the table of how a session ends.
Ended(s, i, was, cause) ==
  IF Finishing(s) THEN s
  ELSE IF was.at = "Replied" \/ (was.at = "Stopping" /\ ~was.restart) THEN ArmReady(s)
  ELSE IF was.at = "Stopping" THEN RestartOrPark(s, i)
  ELSE IF cause \in HoldCauses THEN Hold(s, i, cause = "hold_until_reset")
  ELSE IF cause = "permission_refused" THEN SetCondition(s, i, "Parked")
  ELSE RestartOrPark(s, i)

\* start_reply_stop: an overdue reply, or one whose group lingers, owes a stop.
StartReplyStop(s, i) ==
  IF s.slots[i].at = "Replied" /\ ~s.slots[i].ladder.on
  THEN With(s, i, [s.slots[i] EXCEPT !.ladder = NewLadder(s.withdrawn)]) ELSE s

-----------------------------------------------------------------------------
(* Inputs.                                                                 *)

Init == given \in DOMAIN Settings /\ st = Initial

\* The state an input leads to, within the bound on attempts.
Become(s) == Len(s.slots) <= MaxSlots /\ st' = s /\ UNCHANGED given

Commissioned ==
  /\ ~st.commissioned
  /\ Become(SetTimer([st EXCEPT !.commissioned = TRUE], "root_deadline", 0))

RootOpened ==
  /\ st.commissioned /\ ~st.root /\ st.phase \in {"Created", "Finishing"}
  /\ LET opened == [st EXCEPT !.root = TRUE, !.condition = "none"]
     IN  Become(IF st.phase = "Finishing" THEN opened
                ELSE ClearTimers([opened EXCEPT !.phase = "Queued"], {"root_deadline"}, 0))

ClaimTaken ==
  /\ st.phase = "Queued"
  /\ Become(SetTimer(StartStep([st EXCEPT !.behind = "none"], First), "tree_window", 0))

ClaimBusy(holder) ==
  /\ st.phase = "Queued" /\ st.behind # holder
  /\ Become([st EXCEPT !.behind = holder])

TreePreparedInput ==
  /\ st.phase = "Running" /\ st.tree = "Unprepared"
  /\ Become(ArmReady(ClearTimers([st EXCEPT !.tree = "Prepared", !.condition = "none",
                                            !.cancel_owed = FALSE], {"tree_window"}, 0)))

\* A transient refusal is counted and retried; the window decides.
TreeRefused(permanent) ==
  /\ st.phase = "Running" /\ st.tree = "Unprepared"
  /\ LET folded == [st EXCEPT !.cancel_owed = FALSE]
     IN  Become(IF permanent /\ st.condition = "none"
                THEN ClearTimers([folded EXCEPT !.condition = "tree_refused"], {"tree_window"}, 0)
                ELSE folded)

\* The host parks once the effect is owed, which is when no session lives.
TreeParked(outcome) ==
  /\ Finishing(st) /\ st.park = "none"
  /\ ~AnyLive(st) \/ "late_start" \in May
  /\ outcome = "committed" => st.tree = "Prepared"
  /\ Become([st EXCEPT !.park = outcome])

DeliveredResult(d) ==
  /\ d \in OwedResults(st)
  /\ Become([st EXCEPT !.delivered = st.delivered \cup {d}])

DeliveredQuestion(k) ==
  /\ k \in OwedQuestions(st)
  /\ Become([st EXCEPT !.questions[k].delivered = TRUE])

ClaimReleased ==
  /\ ReadyToRelease(st)
  /\ Become([st EXCEPT !.phase = "Finished", !.timers = {}])

Nudged(i) ==
  /\ st.slots[i].at = "Quiet"
  /\ Become(SetTimer([st EXCEPT !.slots[i].at = "Nudged"], "confirm", i))

\* The host signals what the table owes and enqueues stop_signalled/<key>/<nth>;
\* a key that is in the log already is a duplicate and is never folded.
StopSignalled(i) ==
  /\ StopOwed(st, i)
  /\ st.slots[i].ladder.total + 1 > st.slots[i].logged
  /\ LET old == st.slots[i].ladder
         l == [old EXCEPT !.sent = old.sent + 1, !.total = old.total + 1]
         s == With(st, i, [st.slots[i] EXCEPT !.ladder = l, !.logged = l.total])
     IN  Become(IF l.sent = 1 THEN SetTimer(s, "stop_grace_1", i)
                ELSE IF l.sent = 2 THEN SetTimer(s, "stop_grace_2", i) ELSE s)

Started(i) ==
  /\ st.slots[i].at = "Starting"
  /\ Become(SetTimer(ClearTimers([st EXCEPT !.slots[i].at = "Running"], {"start_deadline"}, i), "quiet", i))

\* A superseded attempt that reports it started owes a stop.
LateStarted(i) ==
  /\ "late_start" \in May
  /\ st.phase # "Finished" /\ st.slots[i].at = "Ended" /\ Superseded(st, i)
  /\ Become(With(st, i, [st.slots[i] EXCEPT !.at = "Stopping", !.cause = "none",
                                            !.ladder = NewLadder(st.withdrawn)]))

\* Any fact revives a quiet slot; usage, a refused permission and an unknown
\* beat ("other") do nothing else.
Heartbeat(i, beat) ==
  /\ Talking(st.slots[i])
  /\ LET r == st.slots[i]
         was_quiet == r.at # "Running"
         s == With(st, i, [r EXCEPT !.at = "Running",
                                    !.open = beat = "calls_open" \/ (r.open /\ beat # "calls_closed"),
                                    !.sampling = r.sampling \/ beat = "subprocess_moved",
                                    !.blind = r.blind \/ beat = "blind"])
     IN  /\ beat = "blind" /\ r.sampling => "sampler_fails" \in May
         /\ beat = "subprocess_moved" /\ r.blind => "sampler_fails" \in May
         /\ Become(IF beat = "other" /\ ~was_quiet THEN s ELSE Rearm(s, i, was_quiet, beat))

\* The leader is dead and its group is not empty.
GroupLingering(i) ==
  /\ "group_lingers" \in May
  /\ Live(st.slots[i]) /\ st.slots[i].at # "Stopping"
  /\ Become(IF st.slots[i].at = "Replied" THEN ClearTimers(StartReplyStop(st, i), {"wind_down"}, i)
            ELSE Conclude(ClearSlotTimers(st, i), i))

EndedFact(i, cause) ==
  /\ Live(st.slots[i])
  /\ Become(Ended(FoldEnded(st, i, cause), i, st.slots[i], cause))

\* The synthesis carries no bits, and without a back edge there is nothing to pull.
Reply(i, escalate, needs_rework) ==
  /\ st.slots[i].at = "Starting" \/ Talking(st.slots[i])
  /\ ~Superseded(st, i) /\ ~Finishing(st)
  /\ LET r == st.slots[i]
         bits == r.member # Synth
         s == SetTimer(ClearSlotTimers(With(st, i,
                [r EXCEPT !.at = "Replied", !.live = TRUE, !.open = FALSE,
                          !.escalate = escalate /\ bits,
                          !.rework = needs_rework /\ bits /\ ReworkTo[r.step] # NoStep]), i),
                "wind_down", i)
     IN  Become(AfterReply(IF escalate /\ bits THEN Ask(s, "escalation", i, r.step, 0) ELSE s, i))

\* Mutant: an answer is folded while the run finishes.
AnswerAnyTime(k, disposition) ==
  /\ Open(st.questions[k])
  /\ st.questions[k].asked = "escalation" /\ disposition = "Continue"
  /\ Become(Restart([st EXCEPT !.questions[k].answered = TRUE], st.questions[k].slot, TRUE))

Answer(k, disposition) ==
  /\ st.phase \notin {"Finishing", "Finished"}
  /\ Open(st.questions[k])
  /\ st.questions[k].asked = "escalation" => disposition = "Continue"
  /\ LET q == st.questions[k]
         s == [st EXCEPT !.questions[k].answered = TRUE]
     IN  Become(IF q.asked = "escalation" THEN Restart(s, q.slot, TRUE)
                ELSE IF disposition = "Continue" THEN Rework(s, q.step, q.pass)
                ELSE Onward(s, q.step, "Accepted"))

\* Mutant: a resume starts the count of signals over.
ResumeCountsAnew(i) ==
  /\ st.phase \notin {"Finishing", "Finished"} /\ i \in Conditioned(st)
  /\ st.slots[i].condition = "WouldNotStop"
  /\ Become([st EXCEPT !.slots[i].condition = "none", !.slots[i].ladder = NewLadder(FALSE)])

\* resume: of the named slot, or of the oldest condition, which is one of them.  A
\* stop that did not work is tried again; anything else starts the next attempt.
Resume(i) ==
  /\ st.phase \notin {"Finishing", "Finished"} /\ i \in Conditioned(st)
  /\ LET s == SetCondition(st, i, "none")
         again == With(s, i, [s.slots[i] EXCEPT !.ladder = [st.slots[i].ladder EXCEPT !.sent = 0, !.fired = 0]])
         fresh == [s EXCEPT !.slots[i].fresh = TRUE]
     IN  IF st.slots[i].condition = "WouldNotStop"
         THEN st.slots[i].ladder.total < MaxSignals /\ Become(again)
         ELSE Become(Restart(ClearTimers(fresh, {"hold_retry"}, i), i, FALSE))

\* resume_run: what it re-arms is what the condition names.
ResumeRun ==
  /\ st.phase \notin {"Finishing", "Finished"} /\ st.condition # "none"
  /\ LET s == [st EXCEPT !.condition = "none", !.root_periods = 0]
     IN  Become(IF st.condition = "root_failed" THEN SetTimer(s, "root_deadline", 0)
                ELSE IF st.condition = "tree_refused" THEN SetTimer(s, "tree_window", 0) ELSE s)

\* Mutant: the withdrawal misses the stop of a replied session.
WithdrawnForStopping ==
  /\ st.commissioned /\ st.phase # "Finished" /\ ~Finishing(st)
  /\ LET force(r) == [r EXCEPT !.ladder.forced = r.at = "Stopping"]
     IN  Become(FinishRun([st EXCEPT !.withdrawn = TRUE, !.slots = [i \in Slots(st) |-> force(@[i])]],
                          "Withdrawn"))

\* A withdrawal forces every stop under way; it finishes the run, or speeds up
\* one that is finishing.
Withdrawn ==
  /\ st.commissioned /\ st.phase # "Finished"
  /\ Finishing(st) => \E i \in Slots(st) : st.slots[i].ladder.on /\ ~st.slots[i].ladder.forced
  /\ LET force(r) == [r EXCEPT !.ladder.forced = r.ladder.on,
                               !.condition = IF r.condition = "WouldNotStop" THEN "none" ELSE r.condition]
         s == [st EXCEPT !.withdrawn = TRUE, !.slots = [i \in Slots(st) |-> force(st.slots[i])]]
     IN  Become(IF Finishing(st) THEN s ELSE FinishRun(s, "Withdrawn"))

\* run-host fold.rs consume_poison: parked, with no slot, outside decide.
PoisonParked ==
  /\ "poison" \in May
  /\ st.commissioned /\ st.phase # "Finished"
  /\ Become([st EXCEPT !.condition = "poison"])

-----------------------------------------------------------------------------
(* Timers that fire (decide/timers.rs, input.rs apply_firing).             *)

\* Mutant: the last rung says nothing.
GraceOverSilent(s, i, n) ==
  [s EXCEPT !.slots[i].ladder.fired = IF s.slots[i].ladder.on /\ @ < n THEN n ELSE @]

\* The second grace of an unforced stop is its last rung.
GraceOver(s, i, n) ==
  LET l == s.slots[i].ladder
      t == [s EXCEPT !.slots[i].ladder.fired = IF l.on /\ l.fired < n THEN n ELSE l.fired]
  IN  IF n = 2 /\ ~l.forced THEN SetCondition(t, i, "WouldNotStop") ELSE t

Fired(s, purpose, i) ==
  CASE purpose = "root_deadline" ->
         LET n == s.root_periods + 1
             t == [s EXCEPT !.root_periods = n]
         IN  IF n >= MaxAttempts THEN [t EXCEPT !.condition = "root_failed"]
             ELSE SetTimer(t, "root_deadline", 0)
    [] purpose = "tree_window" -> [s EXCEPT !.cancel_owed = TRUE, !.condition = "tree_refused"]
    [] purpose = "start_deadline" -> Conclude(s, i)
    [] purpose = "quiet" -> GoQuiet(s, i)
    [] purpose = "subprocess_idle" -> GoQuiet(ClearTimers(s, {"call_bound"}, i), i)
    [] purpose = "call_bound" ->
         IF s.slots[i].blind THEN GoQuiet(ClearTimers(s, {"subprocess_idle"}, i), i) ELSE s
    [] purpose = "confirm" -> Conclude(ClearSlotTimers(s, i), i)
    [] purpose = "stop_grace_1" -> GraceOver(s, i, 1)
    [] purpose = "stop_grace_2" -> GraceOver(s, i, 2)
    [] purpose = "wind_down" -> StartReplyStop(s, i)
    [] purpose = "hold_retry" -> Restart(s, i, FALSE)

TimerFired(t) ==
  /\ t \in st.timers /\ t[1] \in Fires
  /\ Become(Fired([st EXCEPT !.timers = st.timers \ {t}], t[1], t[2]))

RunInput ==
  \/ Commissioned \/ RootOpened \/ ClaimTaken \/ (\E h \in Holder : ClaimBusy(h))
  \/ TreePreparedInput \/ (\E p \in BOOLEAN : TreeRefused(p))
  \/ (\E o \in {"clean", "committed"} : TreeParked(o))
  \/ (\E d \in {"result", "notice"} : DeliveredResult(d))
  \/ (\E k \in OpenQuestions(st) : DeliveredQuestion(k)) \/ ClaimReleased

SlotInput(i) ==
  \/ Nudged(i) \/ StopSignalled(i) \/ Started(i) \/ LateStarted(i)
  \/ (\E b \in Beat : Heartbeat(i, b)) \/ GroupLingering(i)
  \/ (\E c \in Cause : EndedFact(i, c))
  \/ (\E e, w \in BOOLEAN : Reply(i, e, w))

PersonInput ==
  \/ (\E k \in OpenQuestions(st), d \in {"Continue", "Accept"} : Answer(k, d))
  \/ (\E i \in Slots(st) : Resume(i)) \/ ResumeRun \/ Withdrawn

Next ==
  \/ RunInput \/ (\E i \in Slots(st) : SlotInput(i)) \/ PersonInput
  \/ (\E t \in st.timers : TimerFired(t)) \/ PoisonParked

Spec == Init /\ [][Next]_vars

\* What the host's ticks bring about while a run finishes: owed effects are
\* executed, due timers fire, and a session that was sent the last signal of a
\* forced stop, a SIGKILL, is dead.  Nothing is assumed of the session before.
HostProgress ==
  /\ st.withdrawn
  /\ \/ TreeParked("clean") \/ ClaimReleased \/ (\E d \in {"result", "notice"} : DeliveredResult(d))
     \/ \E i \in Slots(st) : StopSignalled(i)
     \/ \E i \in Slots(st) : st.slots[i].ladder.sent = 3 /\ EndedFact(i, "failed")
     \/ \E t \in st.timers : TimerFired(t)

FairSpec == Spec /\ WF_vars(HostProgress)

-----------------------------------------------------------------------------
(* Properties.                                                             *)

States == {"Pending", "Starting", "Running", "Quiet", "Nudged", "Stopping", "Replied", "Ended"}

LadderType == [on : BOOLEAN, forced : BOOLEAN, sent : 0 .. 3, total : Nat, fired : 0 .. 2]

SlotType(r) ==
  /\ r.step \in Step /\ r.visit \in Nat /\ r.attempt \in Nat
  /\ r.at \in States /\ r.cause \in Causes \cup {"none"}
  /\ r.ladder \in LadderType /\ r.logged \in Nat
  /\ r.restarts \in 0 .. MaxAttempts - 1 /\ r.holds \in 0 .. MaxHolds
  /\ r.condition \in {"none", "Held", "Parked", "WouldNotStop"}
  /\ r.open => Talking(r)
  /\ r.ladder.on => r.at = "Stopping" \/ (r.at = "Replied" /\ r.live)
  /\ r.at = "Stopping" => r.ladder.on

\* The shape of RunState, with the budgets of restart_or_park and hold and the
\* fields that only some slot states carry (SlotState, Ladder).
TypeOK ==
  /\ st.phase \in {"Created", "Queued", "Running", "Finishing", "Finished"}
  /\ st.tree \in {"Unprepared", "Prepared"} /\ st.park \in {"none", "clean", "committed"}
  /\ st.outcome \in {"none", "Delivered", "Accepted", "Withdrawn"}
  /\ st.condition \in {"none", "root_failed", "tree_refused", "poison"}
  /\ st.visits \in [Step -> Nat] /\ st.passes \in [Step -> Nat]
  /\ st.current \in Step \cup {NoStep} /\ st.root_periods \in 0 .. MaxAttempts
  /\ st.delivered \subseteq {"result", "notice"}
  /\ st.timers \subseteq (RunPurposes \X {0}) \cup (SlotPurposes \X Slots(st))
  /\ \A i \in Slots(st) : SlotType(st.slots[i])

\* rearm, reply, stop_signalled and grace_over together: whatever order facts,
\* signals and timers come in, every process that may be alive has a timer that
\* will notice it, a signal that is owed, or every signal the host may send behind
\* it: two unforced, three forced.
LiveSlotsAreWatched ==
  \A i \in Slots(st) :
    LET r == st.slots[i]
        l == r.ladder
    IN  /\ r.at = "Starting" => Armed(st, "start_deadline", i)
        /\ r.at = "Running" /\ ~r.open => Armed(st, "quiet", i)
        /\ r.at = "Running" /\ r.open =>
             Armed(st, "subprocess_idle", i) \/ (r.blind /\ Armed(st, "call_bound", i))
        /\ r.at \in {"Quiet", "Nudged"} => Armed(st, "confirm", i)
        /\ r.at = "Replied" /\ r.live /\ ~l.on => Armed(st, "wind_down", i)
        /\ l.on => \/ StopOwed(st, i) \/ l.sent = 3 \/ (~l.forced /\ l.sent = 2 /\ l.fired = 2)
                   \/ l.sent = 1 /\ Armed(st, "stop_grace_1", i)
                   \/ l.sent = 2 /\ Armed(st, "stop_grace_2", i)

\* The other direction (clear_slot_timers, finish_run): no timer outlives the slot
\* state it was armed for, so none can conclude anything about a session that has
\* moved on, replied, ended or been superseded.
TimersFitTheirSlot ==
  \A t \in st.timers :
    LET r == st.slots[t[2]]
    IN  CASE t[1] = "root_deadline" -> st.phase = "Created"
          [] t[1] = "tree_window" -> st.phase = "Running" /\ st.tree = "Unprepared"
          [] t[1] = "start_deadline" -> r.at = "Starting"
          [] t[1] = "quiet" -> r.at = "Running" /\ ~r.open
          [] t[1] \in {"subprocess_idle", "call_bound"} -> r.at = "Running" /\ r.open
          [] t[1] = "confirm" -> r.at \in {"Quiet", "Nudged"}
          [] t[1] = "wind_down" -> r.at = "Replied" /\ r.live /\ ~r.ladder.on
          [] t[1] = "stop_grace_1" -> r.ladder.on /\ r.ladder.sent >= 1 /\ r.ladder.fired = 0
          [] t[1] = "stop_grace_2" -> r.ladder.on /\ r.ladder.sent >= 2 /\ r.ladder.fired < 2
          [] t[1] = "hold_retry" -> r.at = "Ended" /\ r.condition = "Held" /\ ~Superseded(st, t[2])

\* tests/enumeration.rs assert_has_a_remedy, for every reachable state and not
\* only its examples.  A finishing run whose session outlived both signals waits for
\* a person (status.rs reason), also where apply_finishing cleared would_not_stop,
\* and after the last signal of a forced stop for the kernel.
EveryStateHasARemedy ==
  st.commissioned /\ st.phase # "Finished" =>
    \/ PendingEffects(st) # {} \/ st.timers # {}
    \/ View(st) \in {"NeedsDecision", "Held", "Parked"}
    \/ \E i \in Slots(st) :
         LET l == st.slots[i].ladder
         IN  \/ st.slots[i].condition = "WouldNotStop" \/ l.sent = 3
             \/ Finishing(st) /\ l.on /\ ~l.forced /\ l.sent = 2 /\ l.fired = 2

\* arm_ready is called wherever a persona or the tree may have become free: a slot
\* that waits under a prepared tree waits for a process of its persona.
WaitingSlotsWaitForSomeone ==
  TreePrepared(st) =>
    \A i \in Slots(st) : st.slots[i].at = "Pending" => PersonaLive(st, st.slots[i].member)

\* persona_is_live: two processes never share one backend session, as long as no
\* session whose end is folded reports that it started.
OneProcessPerPersona ==
  "late_start" \notin May =>
    \A i, j \in Slots(st) :
      Live(st.slots[i]) /\ Live(st.slots[j]) /\ st.slots[i].member = st.slots[j].member => i = j

\* Slot::session_key, the escalation's and ceiling_key: attempts, visits and passes
\* make keys that never repeat, or find, find_slot and an answer would meet the
\* wrong record.
KeysAreUnique ==
  /\ \A i, j \in Slots(st) :
       SameSeat(st.slots[i], st.slots[j]) /\ st.slots[i].attempt = st.slots[j].attempt => i = j
  /\ \A j, k \in 1 .. Len(st.questions) :
       LET p == st.questions[j]
           q == st.questions[k]
       IN  (/\ p.asked = q.asked /\ p.slot = q.slot /\ p.step = q.step
            /\ p.visit = q.visit /\ p.pass = q.pass) => j = k

Done(s, step, visit) ==
  /\ \A k \in 1 .. Len(Members[step]) :
       LET i == Latest(s, step, visit, Members[step][k])
       IN  i > 0 /\ s.slots[i].at = "Replied" /\ ~s.slots[i].escalate
  /\ step \in FanOut =>
       LET i == Latest(s, step, visit, Synth) IN i > 0 /\ s.slots[i].at = "Replied"

\* after_reply, restart and step_started together: a run never goes on from, or
\* back into, a visit that some member's latest attempt has not answered, and it
\* is delivered or accepted only when its last one is.
NoStepLeftBehind ==
  /\ \A i \in Slots(st) :
       LET r == st.slots[i]
       IN  r.step # st.current \/ r.visit # st.visits[st.current] => Done(st, r.step, r.visit)
  /\ st.outcome \in {"Delivered", "Accepted"} => Done(st, st.current, st.visits[st.current])

\* finish_step, one_more_pass: a back edge is taken past its ceiling only once for
\* each question about it that a person answered.
CeilingIsAsked ==
  \A s \in Step :
    st.passes[s] <= MaxPasses[s]
      + Cardinality({k \in 1 .. Len(st.questions) :
                       /\ st.questions[k].asked = "ceiling" /\ st.questions[k].step = s
                       /\ st.questions[k].answered})

\* RunState.withdrawn: "every stop from here on is forced, and only this ever
\* forces one", whichever of a withdrawal and a stop comes first.
WithdrawalForcesEveryStop ==
  \A i \in Slots(st) : st.slots[i].ladder.on => st.slots[i].ladder.forced = st.withdrawn

\* finishing_effects, ready_to_release: a finished run has no process, its tree is
\* parked and, if it has a thread, its result is on it.
FinishedLeavesNothing ==
  st.phase = "Finished" =>
    /\ ~AnyLive(st) /\ st.timers = {} /\ st.park # "none"
    /\ st.root => "result" \in st.delivered

\* Every outcome goes through Finishing: from there on the outcome is kept, no
\* attempt is added, none starts, and the run never goes back.
NothingStartsAfterFinishing ==
  [][st.phase \in {"Finishing", "Finished"} =>
       /\ st'.phase = st.phase \/ st'.phase = "Finished"
       /\ st'.outcome = st.outcome /\ Len(st'.slots) = Len(st.slots)
       /\ \A i \in Slots(st) : st'.slots[i].at \in {st.slots[i].at, "Stopping", "Ended"}]_st

\* The human exit: where every timer may fire, a withdrawal finishes the run, from
\* any state and whatever its sessions do with a SIGTERM.
WithdrawalFinishes ==
  Fires = RunPurposes \cup SlotPurposes => (st.withdrawn ~> (st.phase = "Finished"))

\* A run that is neither parked nor past them has its root deadline and its tree
\* window running, so what the host cannot do for it ends in a park a person sees
\* (decide/timers.rs, root_period: "after `max_attempts` periods the RUN parks";
\* tests/enumeration.rs: "the tree's window is what is armed").  A run that is
\* parked a second time, for an input that panics, is not among them: evolve.rs
\* overwrites the reason that resume_run would re-arm the deadline for.
WaitsAreTimed ==
  "poison" \notin May =>
    /\ st.phase = "Created" /\ st.commissioned /\ st.condition = "none" => Armed(st, "root_deadline", 0)
    /\ st.phase = "Running" /\ st.tree = "Unprepared" /\ st.condition = "none" => Armed(st, "tree_window", 0)

\* Effect::StopSession: `nth` rises over the slot's whole life, so the key of the
\* input that records a signal never repeats, as long as no session whose end is
\* folded reports that it started: input.rs gives that one a new ladder.
StopKeysNeverRepeat ==
  "late_start" \notin May =>
    \A i \in Slots(st) : StopOwed(st, i) => st.slots[i].ladder.total + 1 > st.slots[i].logged

\* The timers and what they wait for agree in both directions, for slots and for
\* the run (decide/session.rs, decide/timers.rs).
TimersAgree == LiveSlotsAreWatched /\ TimersFitTheirSlot /\ WaitsAreTimed

\* No key of a session, a question or a signal is ever used twice.
KeysNeverRepeat == KeysAreUnique /\ StopKeysNeverRepeat

\* The ways out of a step (decide/route.rs): with every answer in, and back again
\* no oftener than the flow or a person allows.
StepsAreLeftInOrder == NoStepLeftBehind /\ CeilingIsAsked

\* A persona's slots take turns (arm_ready): one process at a time, and a slot that
\* waits does so for another's.
PersonasTakeTurns == OneProcessPerPersona /\ WaitingSlotsWaitForSomeone

\* How a run ends (apply_finishing, withdrawn): by force only when it is withdrawn,
\* and with nothing left behind.
EndsInOrder == WithdrawalForcesEveryStop /\ FinishedLeavesNothing
=============================================================================
