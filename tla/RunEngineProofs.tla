--------------------------- MODULE RunEngineProofs ---------------------------
(* Proofs about RunEngine, for every flow, policy and surroundings.  The    *)
(* invariant has a part for each slot and its timers, a part for the run,   *)
(* and a second layer for seats, visits and questions; an input is the      *)
(* composition of a few changes of the state, each of which has its lemmas. *)
EXTENDS RunEngine, FiniteSetTheorems, WellFoundedInduction, TLAPS

\* ----------------------------------------------------------------------- types

SlotSet(g) ==
  [step : g.step, visit : Nat, member : Persona \cup {Synth}, attempt : Nat, at : States, open : BOOLEAN,
   restart : BOOLEAN, escalate : BOOLEAN, rework : BOOLEAN, live : BOOLEAN, ladder : LadderType,
   cause : Causes \cup {"none"}, restarts : Nat, holds : 0 .. g.max_holds,
   condition : {"none", "Held", "Parked", "WouldNotStop"}, fresh : BOOLEAN, blind : BOOLEAN,
   sampling : BOOLEAN, logged : Nat]

QuestionSet(g) ==
  [asked : {"escalation", "ceiling"}, slot : Nat, step : g.step, visit : Nat, pass : Nat,
   answered : BOOLEAN, delivered : BOOLEAN]

StateSet(g) ==
  [phase : {"Created", "Queued", "Running", "Finishing", "Finished"}, commissioned : BOOLEAN,
   root : BOOLEAN, behind : Holder \cup {"none"}, tree : {"Unprepared", "Prepared"},
   park : {"none", "clean", "committed"}, outcome : {"none", "Delivered", "Accepted", "Withdrawn"},
   condition : {"none", "root_failed", "tree_refused", "poison"},
   slots : Seq(SlotSet(g)), visits : [g.step -> Nat], passes : [g.step -> Nat],
   current : g.step \cup {NoStep}, questions : Seq(QuestionSet(g)),
   timers : SUBSET ((RunPurposes \cup SlotPurposes) \X Nat), root_periods : Nat,
   cancel_owed : BOOLEAN, delivered : SUBSET {"result", "notice"}, withdrawn : BOOLEAN]

\* --------------------------------------------------------------- the invariant

Over(s) == s.phase \in {"Finishing", "Finished"}

\* Where a slot may have left Pending: under a prepared tree, or in a run that is over.
Ready(s) == Over(s) \/ TreePrepared(s)

StopPurposes == {"stop_grace_1", "stop_grace_2", "wind_down"}

\* The ladder of a stop.
LadderFits(r, withdrawn) ==
  /\ r.ladder.on => r.at = "Stopping" \/ (r.at = "Replied" /\ r.live)
  /\ r.at = "Stopping" => r.ladder.on
  /\ r.ladder.on => r.ladder.forced = withdrawn
  /\ ~r.ladder.on => r.ladder.sent = 0 /\ r.ladder.fired = 0 /\ r.ladder.total = 0
  /\ r.ladder.fired <= r.ladder.sent /\ (r.ladder.sent = 3 => r.ladder.fired = 2)
  /\ r.ladder.sent = 2 => r.ladder.fired >= 1
  /\ r.condition = "WouldNotStop" => ~r.ladder.forced /\ r.ladder.sent = 2 /\ r.ladder.fired = 2

\* A slot r by itself.
SlotFits(g, r, withdrawn, over, ready) ==
  /\ LadderFits(r, withdrawn)
  /\ r.open => Talking(r)
  /\ over => r.at \in {"Stopping", "Replied", "Ended"}
  /\ r.live => r.at = "Replied"
  /\ r.restart => r.at = "Stopping"
  /\ r.at # "Pending" => ready
  /\ ~over /\ r.ladder.on /\ ~r.ladder.forced /\ r.ladder.sent = 2 /\ r.ladder.fired = 2 => r.condition = "WouldNotStop"
  /\ r.condition \in {"Held", "Parked"} => r.at = "Ended" \/ (r.at = "Stopping" /\ ~r.restart)
  /\ "sampler_fails" \notin g.may => ~(r.sampling /\ r.blind)
  /\ "late_start" \notin g.may =>
       /\ r.ladder.on => r.logged <= r.ladder.total
       /\ ~r.ladder.on /\ r.at # "Ended" /\ (r.at = "Replied" => r.live) => r.logged = 0

\* Its timers fit it, hold_retry aside.
TimersFit(s, i, r) ==
  /\ Armed(s, "start_deadline", i) => r.at = "Starting"
  /\ Armed(s, "quiet", i) => r.at = "Running" /\ ~r.open
  /\ Armed(s, "subprocess_idle", i) => r.at = "Running" /\ r.open
  /\ Armed(s, "call_bound", i) => r.at = "Running" /\ r.open
  /\ Armed(s, "confirm", i) => r.at \in {"Quiet", "Nudged"}
  /\ Armed(s, "wind_down", i) => r.at = "Replied" /\ r.live /\ ~r.ladder.on
  /\ Armed(s, "stop_grace_1", i) => r.ladder.on /\ r.ladder.sent >= 1 /\ r.ladder.fired = 0
  /\ Armed(s, "stop_grace_2", i) => r.ladder.on /\ r.ladder.sent >= 2 /\ r.ladder.fired < 2

\* And it is watched.
Watched(g, s, i, r) ==
  /\ r.at = "Starting" => Armed(s, "start_deadline", i)
  /\ r.at = "Running" /\ ~r.open => Armed(s, "quiet", i)
  /\ "sampler_fails" \notin g.may /\ r.at = "Running" /\ r.open =>
       Armed(s, IF r.blind THEN "call_bound" ELSE "subprocess_idle", i)
  /\ r.at \in {"Quiet", "Nudged"} => Armed(s, "confirm", i)
  /\ r.at = "Replied" /\ r.live /\ ~r.ladder.on => Armed(s, "wind_down", i)
  /\ r.ladder.on /\ r.ladder.sent = 1 /\ r.ladder.fired = 0 => Armed(s, "stop_grace_1", i)
  /\ r.ladder.on /\ r.ladder.sent = 2 /\ r.ladder.fired < 2 => Armed(s, "stop_grace_2", i)

SlotOK(g, s, i) ==
  /\ SlotFits(g, s.slots[i], s.withdrawn, Over(s), Ready(s))
  /\ TimersFit(s, i, s.slots[i])
  /\ Watched(g, s, i, s.slots[i])

\* The run's own conditions and deadlines.
DeadlinesFit(g, s) ==
  /\ Armed(s, "root_deadline", 0) => s.phase = "Created" /\ s.commissioned /\ s.root_periods < g.max_attempts
  /\ Armed(s, "tree_window", 0) => s.phase = "Running" /\ s.tree = "Unprepared"
  /\ s.condition = "root_failed" => s.phase = "Created"
  /\ s.condition = "tree_refused" => s.phase = "Running" /\ s.tree = "Unprepared"
  /\ s.condition = "poison" => "poison" \in g.may
  /\ s.root_periods <= g.max_attempts
  /\ ~s.commissioned => s.root_periods = 0 /\ s.condition = "none"
  /\ "poison" \notin g.may =>
       /\ s.phase = "Created" /\ s.commissioned /\ s.condition = "none" => Armed(s, "root_deadline", 0)
       /\ s.phase = "Running" /\ s.tree = "Unprepared" /\ s.condition = "none" => Armed(s, "tree_window", 0)

\* How far the run is.
PhaseFits(s) ==
  /\ s.phase = "Created" => ~s.root
  /\ s.phase # "Created" => s.commissioned
  /\ Len(s.slots) > 0 => s.phase = "Running" \/ Over(s)
  /\ s.tree = "Prepared" => s.phase = "Running" \/ Over(s)
  /\ s.phase \in {"Created", "Queued"} => s.current = NoStep
  /\ s.phase = "Running" => s.current # NoStep
  /\ s.outcome # "none" <=> Over(s)
  /\ Over(s) => ~s.cancel_owed

TimersTyped(s) ==
  \A p, i : Armed(s, p, i) =>
    \/ p \in RunPurposes /\ i = 0
    \/ p \in SlotPurposes /\ i \in Slots(s)

OnlyStops(s) == Over(s) => \A p, i : Armed(s, p, i) => p \in StopPurposes

NothingLeft(s) ==
  s.phase = "Finished" =>
    /\ ~AnyLive(s) /\ s.timers = {} /\ s.park # "none"
    /\ s.root => "result" \in s.delivered

QuestionsFit(g, s) ==
  \A k \in 1 .. Len(s.questions) :
    /\ Slots(s) # {}
    /\ s.questions[k].asked = "escalation" => s.questions[k].slot \in Slots(s)
    /\ s.questions[k].asked = "ceiling" => g.rework[s.questions[k].step] # NoStep

RunOK(g, s) ==
  /\ DeadlinesFit(g, s) /\ PhaseFits(s) /\ TimersTyped(s) /\ OnlyStops(s)
  /\ NothingLeft(s) /\ QuestionsFit(g, s)

Fine(g, s) ==
  /\ s \in StateSet(g) /\ RunOK(g, s)
  /\ \A i \in Slots(s) : SlotOK(g, s, i)

Shape == given \in DOMAIN Settings /\ Fine(Settings[given], st)

\* ------------------------------------------------- changes of one slot's state

\* Slots and timers aside, s and t are the same.
RunSame(s, t) ==
  /\ t.phase = s.phase /\ t.commissioned = s.commissioned /\ t.root = s.root /\ t.behind = s.behind
  /\ t.tree = s.tree /\ t.park = s.park /\ t.outcome = s.outcome /\ t.condition = s.condition
  /\ t.visits = s.visits /\ t.passes = s.passes /\ t.current = s.current /\ t.questions = s.questions
  /\ t.root_periods = s.root_periods /\ t.cancel_owed = s.cancel_owed /\ t.delivered = s.delivered
  /\ t.withdrawn = s.withdrawn

\* Of the slots, only i and the timers of i differ.
Touch(g, s, t, i) ==
  /\ t \in StateSet(g) /\ RunSame(s, t) /\ Len(t.slots) = Len(s.slots)
  /\ \A j \in Slots(s) : j # i => t.slots[j] = s.slots[j]
  /\ \A p, j : j # i => (Armed(t, p, j) <=> Armed(s, p, j))

LEMMA WithFacts ==
  ASSUME NEW g, NEW s \in StateSet(g), NEW i \in Slots(s), NEW r \in SlotSet(g)
  PROVE  /\ Touch(g, s, With(s, i, r), i)
         /\ With(s, i, r).slots[i] = r
         /\ \A p, j : Armed(With(s, i, r), p, j) <=> Armed(s, p, j)
<1>1. s.slots \in Seq(SlotSet(g))
  BY DEF StateSet
<1> DEFINE w == [s.slots EXCEPT ![i] = r]
<1>2. w \in Seq(SlotSet(g)) /\ Len(w) = Len(s.slots) /\ w[i] = r /\ \A j \in Slots(s) : j # i => w[j] = s.slots[j]
  BY <1>1 DEF Slots
<1> HIDE DEF w
<1>3. With(s, i, r) = [s EXCEPT !.slots = w]
  BY DEF With, w
<1>4. [s EXCEPT !.slots = w] \in StateSet(g)
  BY <1>2 DEF StateSet
<1>5. RunSame(s, [s EXCEPT !.slots = w]) /\ [s EXCEPT !.slots = w].slots = w /\ [s EXCEPT !.slots = w].timers = s.timers
  BY DEF StateSet, RunSame
<1> QED BY <1>2, <1>3, <1>4, <1>5 DEF Touch, Armed

\* Only the timers change, and T they are.
LEMMA NewTimers ==
  ASSUME NEW g, NEW s \in StateSet(g), NEW T \in SUBSET ((RunPurposes \cup SlotPurposes) \X Nat)
  PROVE  LET t == [s EXCEPT !.timers = T]
         IN  t \in StateSet(g) /\ RunSame(s, t) /\ t.slots = s.slots /\ t.timers = T
<1> DEFINE t == [s EXCEPT !.timers = T]
<1>1. t \in StateSet(g)
  BY DEF StateSet
<1>2. RunSame(s, t) /\ t.slots = s.slots /\ t.timers = T
  BY DEF StateSet, RunSame
<1> QED BY <1>1, <1>2

LEMMA SetTimerFacts ==
  ASSUME NEW g, NEW s \in StateSet(g), NEW q \in RunPurposes \cup SlotPurposes, NEW i \in Nat
  PROVE  /\ SetTimer(s, q, i) \in StateSet(g) /\ RunSame(s, SetTimer(s, q, i))
         /\ SetTimer(s, q, i).slots = s.slots
         /\ \A p, j : Armed(SetTimer(s, q, i), p, j) <=> Armed(s, p, j) \/ (p = q /\ j = i)
<1> DEFINE T == s.timers \cup {<<q, i>>}
<1>1. T \in SUBSET ((RunPurposes \cup SlotPurposes) \X Nat)
  BY DEF StateSet
<1>2. \A p, j : <<p, j>> \in T <=> <<p, j>> \in s.timers \/ (p = q /\ j = i)
  OBVIOUS
<1> HIDE DEF T
<1>3. SetTimer(s, q, i) = [s EXCEPT !.timers = T]
  BY DEF SetTimer, T
<1> QED BY <1>1, <1>2, <1>3, NewTimers DEF Armed

LEMMA ClearTimersFacts ==
  ASSUME NEW g, NEW s \in StateSet(g), NEW Q, NEW i
  PROVE  /\ ClearTimers(s, Q, i) \in StateSet(g) /\ RunSame(s, ClearTimers(s, Q, i))
         /\ ClearTimers(s, Q, i).slots = s.slots
         /\ \A p, j : Armed(ClearTimers(s, Q, i), p, j) <=> Armed(s, p, j) /\ ~(p \in Q /\ j = i)
<1> DEFINE T == {t \in s.timers : ~(t[1] \in Q /\ t[2] = i)}
<1>1. T \in SUBSET ((RunPurposes \cup SlotPurposes) \X Nat)
  BY DEF StateSet
<1>2. \A p, j : <<p, j>> \in T <=> <<p, j>> \in s.timers /\ ~(p \in Q /\ j = i)
  OBVIOUS
<1> HIDE DEF T
<1>3. ClearTimers(s, Q, i) = [s EXCEPT !.timers = T]
  BY DEF ClearTimers, T
<1> QED BY <1>1, <1>2, <1>3, NewTimers DEF Armed

LEMMA ClearSlotTimersFacts ==
  ASSUME NEW g, NEW s \in StateSet(g), NEW i
  PROVE  /\ ClearSlotTimers(s, i) \in StateSet(g) /\ RunSame(s, ClearSlotTimers(s, i))
         /\ ClearSlotTimers(s, i).slots = s.slots
         /\ \A p, j : Armed(ClearSlotTimers(s, i), p, j) <=> Armed(s, p, j) /\ j # i
<1> DEFINE T == {t \in s.timers : t[2] # i}
<1>1. T \in SUBSET ((RunPurposes \cup SlotPurposes) \X Nat)
  BY DEF StateSet
<1>2. \A p, j : <<p, j>> \in T <=> <<p, j>> \in s.timers /\ j # i
  OBVIOUS
<1> HIDE DEF T
<1>3. ClearSlotTimers(s, i) = [s EXCEPT !.timers = T]
  BY DEF ClearSlotTimers, T
<1> QED BY <1>1, <1>2, <1>3, NewTimers DEF Armed

\* The timer that fires is no longer armed.
Spent(s, q, i) == [s EXCEPT !.timers = s.timers \ {<<q, i>>}]

LEMMA SpentFacts ==
  ASSUME NEW g, NEW s \in StateSet(g), NEW q, NEW i
  PROVE  /\ Spent(s, q, i) \in StateSet(g) /\ RunSame(s, Spent(s, q, i))
         /\ Spent(s, q, i).slots = s.slots
         /\ \A p, j : Armed(Spent(s, q, i), p, j) <=> Armed(s, p, j) /\ ~(p = q /\ j = i)
<1> DEFINE T == s.timers \ {<<q, i>>}
<1>1. T \in SUBSET ((RunPurposes \cup SlotPurposes) \X Nat)
  BY DEF StateSet
<1>2. \A p, j : <<p, j>> \in T <=> <<p, j>> \in s.timers /\ ~(p = q /\ j = i)
  OBVIOUS
<1> HIDE DEF T
<1>3. Spent(s, q, i) = [s EXCEPT !.timers = T]
  BY DEF Spent, T
<1> QED BY <1>1, <1>2, <1>3, NewTimers DEF Armed

\* A slot that is not touched is as it was.
LEMMA Untouched ==
  ASSUME NEW g, NEW s, NEW t, NEW i, NEW j \in Slots(s), j # i, Touch(g, s, t, i), SlotOK(g, s, j)
  PROVE  SlotOK(g, t, j)
<1>1. t.slots[j] = s.slots[j] /\ t.withdrawn = s.withdrawn /\ (Over(t) <=> Over(s)) /\ (Ready(t) <=> Ready(s))
  BY DEF Touch, RunSame, Over, Ready, TreePrepared
<1>2. \A p : Armed(t, p, j) <=> Armed(s, p, j)
  BY DEF Touch
<1>3. SlotFits(g, t.slots[j], t.withdrawn, Over(t), Ready(t))
  BY <1>1 DEF SlotOK, SlotFits
<1>4. TimersFit(t, j, t.slots[j]) /\ Watched(g, t, j, t.slots[j])
  BY <1>1, <1>2 DEF SlotOK, TimersFit, Watched
<1> QED BY <1>3, <1>4 DEF SlotOK

\* What touches a slot of a run that is not finished keeps the rest of the invariant.
LEMMA Touched ==
  ASSUME NEW g, NEW s, NEW t, NEW i, Fine(g, s), s.phase # "Finished", i \in Slots(s), Touch(g, s, t, i),
         SlotOK(g, t, i), \A p : Armed(t, p, i) => p \in SlotPurposes /\ (Over(s) => p \in StopPurposes)
  PROVE  Fine(g, t)
<1>1. \A j \in Slots(t) : SlotOK(g, t, j)
  BY Untouched DEF Fine, Touch, Slots
<1>2. /\ RunSame(s, t) /\ Slots(t) = Slots(s) /\ i # 0 /\ (Over(t) <=> Over(s)) /\ Len(t.slots) = Len(s.slots)
      /\ \A p, j : j # i => (Armed(t, p, j) <=> Armed(s, p, j))
  BY DEF Touch, RunSame, Slots, Over
<1>3. DeadlinesFit(g, t)
  BY <1>2 DEF Fine, RunOK, DeadlinesFit, RunSame
<1>4. PhaseFits(t)
  BY <1>2 DEF Fine, RunOK, PhaseFits, RunSame
<1>5. TimersTyped(t) /\ OnlyStops(t)
  BY <1>2 DEF Fine, RunOK, TimersTyped, OnlyStops
<1>6. NothingLeft(t) /\ QuestionsFit(g, t)
  BY <1>2 DEF Fine, RunOK, NothingLeft, QuestionsFit, RunSame
<1> QED BY <1>1, <1>3, <1>4, <1>5, <1>6 DEF Fine, RunOK, Touch

LEMMA TouchSelf ==
  ASSUME NEW g, NEW s \in StateSet(g), NEW i
  PROVE  Touch(g, s, s, i)
BY DEF Touch, RunSame

LEMMA TouchWith ==
  ASSUME NEW g, NEW s, NEW a, NEW i \in Slots(s), Touch(g, s, a, i), NEW r \in SlotSet(g)
  PROVE  /\ Touch(g, s, With(a, i, r), i) /\ With(a, i, r).slots[i] = r
         /\ \A p, j : Armed(With(a, i, r), p, j) <=> Armed(a, p, j)
<1>1. a \in StateSet(g) /\ i \in Slots(a)
  BY DEF Touch, Slots
<1>2. /\ Touch(g, a, With(a, i, r), i) /\ With(a, i, r).slots[i] = r
      /\ \A p, j : Armed(With(a, i, r), p, j) <=> Armed(a, p, j)
  BY <1>1, WithFacts
<1> QED BY <1>1, <1>2 DEF Touch, RunSame, Slots

LEMMA TouchSet ==
  ASSUME NEW g, NEW s, NEW a, NEW i \in Nat, Touch(g, s, a, i), NEW q \in SlotPurposes
  PROVE  /\ Touch(g, s, SetTimer(a, q, i), i) /\ SetTimer(a, q, i).slots = a.slots
         /\ \A p, j : Armed(SetTimer(a, q, i), p, j) <=> Armed(a, p, j) \/ (p = q /\ j = i)
<1>1. a \in StateSet(g)
  BY DEF Touch
<1> DEFINE t == SetTimer(a, q, i)
<1>2. /\ t \in StateSet(g) /\ RunSame(a, t) /\ t.slots = a.slots
      /\ \A p, j : Armed(t, p, j) <=> Armed(a, p, j) \/ (p = q /\ j = i)
  BY <1>1, SetTimerFacts
<1> QED BY <1>2 DEF Touch, RunSame

\* The same of a state t that is known only by how it came about.
LEMMA TouchedTimer ==
  ASSUME NEW g, NEW s, NEW a, NEW i \in Nat, Touch(g, s, a, i), \A p, j : Armed(a, p, j) <=> Armed(s, p, j),
         NEW q \in SlotPurposes, NEW t, t = SetTimer(a, q, i)
  PROVE  /\ Touch(g, s, t, i) /\ t.slots = a.slots
         /\ \A p : Armed(t, p, i) <=> Armed(s, p, i) \/ p = q
<1>1. /\ Touch(g, s, t, i) /\ t.slots = a.slots
      /\ \A p, j : Armed(t, p, j) <=> Armed(a, p, j) \/ (p = q /\ j = i)
  BY TouchSet
<1> QED BY <1>1

LEMMA TouchClear ==
  ASSUME NEW g, NEW s, NEW a, NEW i, Touch(g, s, a, i), NEW Q
  PROVE  /\ Touch(g, s, ClearTimers(a, Q, i), i) /\ ClearTimers(a, Q, i).slots = a.slots
         /\ \A p, j : Armed(ClearTimers(a, Q, i), p, j) <=> Armed(a, p, j) /\ ~(p \in Q /\ j = i)
<1>1. a \in StateSet(g)
  BY DEF Touch
<1> DEFINE t == ClearTimers(a, Q, i)
<1>2. /\ t \in StateSet(g) /\ RunSame(a, t) /\ t.slots = a.slots
      /\ \A p, j : Armed(t, p, j) <=> Armed(a, p, j) /\ ~(p \in Q /\ j = i)
  BY <1>1, ClearTimersFacts
<1> QED BY <1>2 DEF Touch, RunSame

LEMMA TouchClearSlot ==
  ASSUME NEW g, NEW s, NEW a, NEW i, Touch(g, s, a, i)
  PROVE  /\ Touch(g, s, ClearSlotTimers(a, i), i) /\ ClearSlotTimers(a, i).slots = a.slots
         /\ \A p, j : Armed(ClearSlotTimers(a, i), p, j) <=> Armed(a, p, j) /\ j # i
<1>1. a \in StateSet(g)
  BY DEF Touch
<1> DEFINE t == ClearSlotTimers(a, i)
<1>2. /\ t \in StateSet(g) /\ RunSame(a, t) /\ t.slots = a.slots
      /\ \A p, j : Armed(t, p, j) <=> Armed(a, p, j) /\ j # i
  BY <1>1, ClearSlotTimersFacts
<1> QED BY <1>2 DEF Touch, RunSame

LEMMA TouchSpent ==
  ASSUME NEW g, NEW s, s \in StateSet(g), NEW q, NEW i
  PROVE  /\ Touch(g, s, Spent(s, q, i), i) /\ Spent(s, q, i).slots = s.slots
         /\ \A p, j : Armed(Spent(s, q, i), p, j) <=> Armed(s, p, j) /\ ~(p = q /\ j = i)
<1> DEFINE t == Spent(s, q, i)
<1>2. /\ t \in StateSet(g) /\ RunSame(s, t) /\ t.slots = s.slots
      /\ \A p, j : Armed(t, p, j) <=> Armed(s, p, j) /\ ~(p = q /\ j = i)
  BY SpentFacts
<1> QED BY <1>2 DEF Touch, RunSame

\* ------------------------------------------------------------------- the seats

\* The attempt works, or will: it waits, has a session, or is stopped to be restarted.
Busy(r) == r.at \in {"Pending", "Starting"} \/ Talking(r) \/ (r.at = "Stopping" /\ r.restart)

\* The latest attempt of its seat.
Newest(s, i) == \A j \in Slots(s) : SameSeat(s.slots[i], s.slots[j]) => j <= i

InVisit(r, step, visit) == r.step = step /\ r.visit = visit
Begun(s, step, visit) == \E i \in Slots(s) : InVisit(s.slots[i], step, visit)
Current(s, step, visit) == step = s.current /\ visit = s.visits[s.current]
MemberOf(g, step, member) == \E k \in 1 .. Len(g.members[step]) : member = g.members[step][k]
HasSeat(s, step, visit, member) ==
  \E j \in Slots(s) : InVisit(s.slots[j], step, visit) /\ s.slots[j].member = member

\* Every seat of the visit has answered, and the synthesis of a fan-out is one of them.
Clear(s, step, visit) ==
  \A i \in Slots(s) : InVisit(s.slots[i], step, visit) /\ Newest(s, i) => Voted(s.slots[i])
Complete(g, s, step, visit) ==
  Clear(s, step, visit) /\ (step \in g.fan_out => HasSeat(s, step, visit, Synth))

\* A slot r of s has its place in the flow, and its visit is the current one or complete.
SeatFits(g, s, r) ==
  /\ r.visit <= s.visits[r.step] /\ r.restarts < g.max_attempts
  /\ MemberOf(g, r.step, r.member) \/ (r.member = Synth /\ r.step \in g.fan_out)
  /\ r.member = Synth => ~r.escalate
  /\ \A m : MemberOf(g, r.step, m) => HasSeat(s, r.step, r.visit, m)
  /\ Current(s, r.step, r.visit) \/ Complete(g, s, r.step, r.visit)

AttemptsRise(s) ==
  \A i, j \in Slots(s) : i < j /\ SameSeat(s.slots[i], s.slots[j]) => s.slots[i].attempt < s.slots[j].attempt

BusyIsNewest(s) == \A i \in Slots(s) : Busy(s.slots[i]) => Newest(s, i)

\* What a retry waits for.
RetryFits(s, i) ==
  /\ s.slots[i].at = "Ended" /\ s.slots[i].cause \in HoldCauses /\ s.slots[i].condition = "Held"
  /\ Newest(s, i)
RetriesFit(s) == \A i \in Slots(s) : Armed(s, "hold_retry", i) => RetryFits(s, i)

\* What a question is about: the reply that asked it, or the visit that is complete.
EscalationFits(s, q) ==
  q.asked = "escalation" =>
    /\ q.slot \in Slots(s) /\ s.slots[q.slot].at = "Replied" /\ s.slots[q.slot].escalate
    /\ Open(q) => Newest(s, q.slot)
CeilingFits(g, s, q) ==
  q.asked = "ceiling" =>
    /\ Begun(s, q.step, q.visit) /\ Complete(g, s, q.step, q.visit)
    /\ Open(q) /\ ~Over(s) => Current(s, q.step, q.visit) /\ q.pass = s.passes[q.step] + 1

\* No two questions are about the same.
SameMatter(p, q) ==
  /\ p.asked = q.asked
  /\ p.asked = "escalation" => p.slot = q.slot
  /\ p.asked = "ceiling" => p.step = q.step /\ p.visit = q.visit
Asked(g, s) ==
  /\ \A k \in 1 .. Len(s.questions) : EscalationFits(s, s.questions[k]) /\ CeilingFits(g, s, s.questions[k])
  /\ \A j, k \in 1 .. Len(s.questions) : SameMatter(s.questions[j], s.questions[k]) => j = k

Underway(g, s) ==
  /\ s.current # NoStep => Begun(s, s.current, s.visits[s.current])
  /\ s.outcome \in {"Delivered", "Accepted"} =>
       s.current # NoStep /\ Complete(g, s, s.current, s.visits[s.current])

\* What holds of the seats at every decision of an input.
Core(g, s) ==
  /\ \A i \in Slots(s) : SeatFits(g, s, s.slots[i])
  /\ AttemptsRise(s) /\ BusyIsNewest(s) /\ RetriesFit(s) /\ Asked(g, s) /\ Underway(g, s)

\* A persona has one process at a time.
OneEach(g, s) ==
  "late_start" \notin g.may =>
    \A i, j \in Slots(s) :
      Live(s.slots[i]) /\ Live(s.slots[j]) /\ s.slots[i].member = s.slots[j].member => i = j

\* A back edge is taken past its ceiling once for each answer.
Permits(s, step) ==
  {k \in 1 .. Len(s.questions) :
     /\ s.questions[k].asked = "ceiling" /\ s.questions[k].step = step /\ s.questions[k].answered}
CeilingsHold(g, s) ==
  \A step \in g.step : s.passes[step] <= g.max_passes[step] + Cardinality(Permits(s, step))

\* What holds when the whole of an input is folded, while the run is not over: a seat
\* works, has answered, or somebody is told; a visit that is complete was left, or a
\* person is asked; and who waits under a prepared tree waits for a process.
AsksAbout(s, i) ==
  \E k \in OpenQuestions(s) : s.questions[k].asked = "escalation" /\ s.questions[k].slot = i
Accounted(s, i) ==
  Newest(s, i) =>
    \/ Busy(s.slots[i]) \/ Voted(s.slots[i])
    \/ s.slots[i].at = "Ended" /\ s.slots[i].condition \in {"Held", "Parked"}
    \/ s.slots[i].at = "Replied" /\ AsksAbout(s, i)
AsksOn(s) ==
  Clear(s, s.current, s.visits[s.current]) => \E k \in OpenQuestions(s) : s.questions[k].asked = "ceiling"
Waiting(s) ==
  TreePrepared(s) => \A i \in Slots(s) : s.slots[i].at = "Pending" => PersonaLive(s, s.slots[i].member)
Settled(s) ==
  ~Over(s) => /\ \A i \in Slots(s) : Accounted(s, i)
              /\ s.current # NoStep => AsksOn(s)
              /\ Waiting(s)

Seats(g, s) == Core(g, s) /\ OneEach(g, s) /\ CeilingsHold(g, s) /\ Settled(s)

\* ------------------------------------------------ changes that seats do not notice

\* The same attempt, as far as its seat goes.
Alike(r, n) ==
  /\ n.step = r.step /\ n.visit = r.visit /\ n.member = r.member /\ n.attempt = r.attempt
  /\ n.restarts = r.restarts /\ n.escalate = r.escalate
  /\ (n.at = "Replied" <=> r.at = "Replied") /\ (n.at = "Pending" <=> r.at = "Pending")
  /\ (Busy(n) <=> Busy(r)) /\ (Live(n) <=> Live(r))
  /\ r.at = "Ended" => n.at = "Ended" /\ n.cause = r.cause /\ n.condition = r.condition

\* The same questions, told of or not.
SameQuestions(s, t) ==
  /\ Len(t.questions) = Len(s.questions)
  /\ \A k \in 1 .. Len(s.questions) :
       /\ t.questions[k].asked = s.questions[k].asked /\ t.questions[k].slot = s.questions[k].slot
       /\ t.questions[k].step = s.questions[k].step /\ t.questions[k].visit = s.questions[k].visit
       /\ t.questions[k].pass = s.questions[k].pass /\ t.questions[k].answered = s.questions[k].answered

Steady(s, t) ==
  /\ Len(t.slots) = Len(s.slots) /\ \A i \in Slots(s) : Alike(s.slots[i], t.slots[i])
  /\ t.visits = s.visits /\ t.passes = s.passes /\ t.current = s.current /\ t.outcome = s.outcome
  /\ SameQuestions(s, t) /\ (Over(t) <=> Over(s)) /\ (TreePrepared(t) => TreePrepared(s))
  /\ \A i \in Slots(s) : Armed(t, "hold_retry", i) => Armed(s, "hold_retry", i)

\* The same, and the tree may have been prepared.
Even(s, t) ==
  /\ Len(t.slots) = Len(s.slots) /\ \A i \in Slots(s) : Alike(s.slots[i], t.slots[i])
  /\ t.visits = s.visits /\ t.passes = s.passes /\ t.current = s.current /\ t.outcome = s.outcome
  /\ SameQuestions(s, t) /\ (Over(t) <=> Over(s))
  /\ \A i \in Slots(s) : Armed(t, "hold_retry", i) => Armed(s, "hold_retry", i)

\* What most inputs do.
Keeps(g, s, t) == Fine(g, t) /\ Steady(s, t)

LEMMA AlikeSelf ==
  ASSUME NEW r
  PROVE  Alike(r, r)
BY DEF Alike

LEMMA SteadyTouch ==
  ASSUME NEW g, NEW s, NEW t, NEW i, Touch(g, s, t, i), Alike(s.slots[i], t.slots[i]),
         Armed(t, "hold_retry", i) => Armed(s, "hold_retry", i)
  PROVE  Steady(s, t)
<1>1. \A j \in Slots(s) : Alike(s.slots[j], t.slots[j])
  BY AlikeSelf DEF Touch
<1>2. \A j \in Slots(s) : Armed(t, "hold_retry", j) => Armed(s, "hold_retry", j)
  BY DEF Touch
<1>3. (Over(t) <=> Over(s)) /\ (TreePrepared(t) => TreePrepared(s)) /\ SameQuestions(s, t)
  BY DEF Touch, RunSame, Over, TreePrepared, SameQuestions
<1> QED BY <1>1, <1>2, <1>3 DEF Steady, Touch, RunSame

LEMMA SteadyRun ==
  ASSUME NEW s, NEW t, t.slots = s.slots, t.visits = s.visits, t.passes = s.passes, t.current = s.current,
         t.outcome = s.outcome, SameQuestions(s, t), Over(t) <=> Over(s), TreePrepared(t) => TreePrepared(s),
         \A i \in Slots(s) : Armed(t, "hold_retry", i) => Armed(s, "hold_retry", i)
  PROVE  Steady(s, t)
<1>1. \A j \in Slots(s) : Alike(s.slots[j], t.slots[j])
  BY AlikeSelf
<1> QED BY <1>1 DEF Steady

\* What is known of a slot of a state that is fine.
LEMMA SlotKnown ==
  ASSUME NEW g, NEW s, Fine(g, s), NEW i \in Slots(s)
  PROVE  /\ s \in StateSet(g) /\ s.slots[i] \in SlotSet(g) /\ SlotOK(g, s, i) /\ i \in Nat /\ i # 0
         /\ s.withdrawn \in BOOLEAN /\ s.slots[i].ladder \in LadderType
         /\ \A p : Armed(s, p, i) => p \in SlotPurposes /\ (Over(s) => p \in StopPurposes)
<1>1. s \in StateSet(g) /\ SlotOK(g, s, i) /\ i \in Nat /\ i # 0
  BY DEF Fine, Slots, StateSet
<1>2. s.slots[i] \in SlotSet(g) /\ s.withdrawn \in BOOLEAN
  BY <1>1 DEF StateSet, Slots
<1>3. s.slots[i].ladder \in LadderType
  BY <1>2 DEF SlotSet
<1>4. \A p : Armed(s, p, i) => p \in SlotPurposes /\ (Over(s) => p \in StopPurposes)
  BY <1>1 DEF Fine, RunOK, TimersTyped, OnlyStops
<1> QED BY <1>1, <1>2, <1>3, <1>4

\* A slot replaced by one that fits, with timers that fit.
LEMMA Replaced ==
  ASSUME NEW g, NEW s, NEW t, NEW i, NEW r, Fine(g, s), s.phase # "Finished", i \in Slots(s),
         Touch(g, s, t, i), t.slots[i] = r,
         SlotFits(g, r, s.withdrawn, Over(s), Ready(s)), TimersFit(t, i, r), Watched(g, t, i, r),
         \A p : Armed(t, p, i) => p \in SlotPurposes /\ (Over(s) => p \in StopPurposes)
  PROVE  Fine(g, t)
<1>1. t.withdrawn = s.withdrawn /\ (Over(t) <=> Over(s)) /\ (Ready(t) <=> Ready(s))
  BY DEF Touch, RunSame, Over, Ready, TreePrepared
<1>2. SlotFits(g, t.slots[i], t.withdrawn, Over(t), Ready(t))
  BY <1>1 DEF SlotFits
<1>3. SlotOK(g, t, i)
  BY <1>2 DEF SlotOK
<1> QED BY <1>3, Touched

\* And the seat does not notice.
LEMMA ReplacedSteady ==
  ASSUME NEW g, NEW s, NEW t, NEW i, NEW r, Fine(g, s), s.phase # "Finished", i \in Slots(s),
         Touch(g, s, t, i), t.slots[i] = r,
         SlotFits(g, r, s.withdrawn, Over(s), Ready(s)), TimersFit(t, i, r), Watched(g, t, i, r),
         \A p : Armed(t, p, i) => p \in SlotPurposes /\ (Over(s) => p \in StopPurposes),
         Alike(s.slots[i], r), Armed(t, "hold_retry", i) => Armed(s, "hold_retry", i)
  PROVE  Keeps(g, s, t)
<1>1. Fine(g, t)
  BY Replaced
<1>2. Steady(s, t)
  BY SteadyTouch
<1> QED BY <1>1, <1>2 DEF Keeps

\* Only live slots of a finished run could be touched, and it has none.
LEMMA LiveIsUnfinished ==
  ASSUME NEW g, NEW s, Fine(g, s), NEW i \in Slots(s), Live(s.slots[i])
  PROVE  s.phase # "Finished"
BY DEF Fine, RunOK, NothingLeft, AnyLive

LEMMA ArmedIsUnfinished ==
  ASSUME NEW g, NEW s, Fine(g, s), NEW p, NEW i, Armed(s, p, i)
  PROVE  s.phase # "Finished"
BY DEF Fine, RunOK, NothingLeft, Armed

\* ------------------------------------------------------ inputs about one slot

LEMMA NudgedKeeps ==
  ASSUME NEW g, NEW s, Fine(g, s), NEW i \in Slots(s), s.slots[i].at = "Quiet"
  PROVE  Keeps(g, s, SetTimer([s EXCEPT !.slots[i].at = "Nudged"], "confirm", i))
<1> DEFINE r == [s.slots[i] EXCEPT !.at = "Nudged"]
           a == With(s, i, r)
           t == SetTimer(a, "confirm", i)
<1>1. s \in StateSet(g) /\ s.slots[i] \in SlotSet(g) /\ i \in Nat /\ SlotOK(g, s, i) /\ Touch(g, s, s, i)
  BY SlotKnown, TouchSelf
<1>2. r \in SlotSet(g)
  BY <1>1 DEF SlotSet, States
<1>3. Touch(g, s, a, i) /\ a.slots[i] = r /\ \A p, j : Armed(a, p, j) <=> Armed(s, p, j)
  BY <1>1, <1>2, TouchWith
<1> HIDE DEF a
<1>4. /\ Touch(g, s, t, i) /\ t.slots = a.slots
      /\ \A p, j : Armed(t, p, j) <=> Armed(a, p, j) \/ (p = "confirm" /\ j = i)
  BY <1>1, <1>3, TouchSet DEF SlotPurposes
<1> HIDE DEF t
<1>5. s.phase # "Finished"
  BY LiveIsUnfinished DEF Live, Talking
<1>6. SlotFits(g, r, s.withdrawn, Over(s), Ready(s))
  BY <1>1 DEF SlotOK, SlotFits, LadderFits, Talking, SlotSet
<1>7. TimersFit(t, i, r) /\ Watched(g, t, i, r)
  BY <1>1, <1>3, <1>4 DEF SlotOK, TimersFit, Watched, SlotFits, LadderFits, SlotSet
<1>8. \A p : Armed(t, p, i) => p \in SlotPurposes /\ (Over(s) => p \in StopPurposes)
  BY <1>1, <1>3, <1>4, SlotKnown DEF SlotPurposes, SlotOK, SlotFits
<1>9. Keeps(g, s, t)
  <2>1. Alike(s.slots[i], r)
    BY <1>1 DEF Alike, Busy, Live, Talking, SlotSet
  <2>2. Armed(t, "hold_retry", i) => Armed(s, "hold_retry", i)
    BY <1>3, <1>4
  <2> QED BY <1>3, <1>4, <1>5, <1>6, <1>7, <1>8, <2>1, <2>2, ReplacedSteady
<1>10. [s EXCEPT !.slots[i].at = "Nudged"] = a
  BY DEF a, With
<1> QED BY <1>9, <1>10 DEF t

LEMMA Purposes ==
  /\ "start_deadline" \in SlotPurposes /\ "quiet" \in SlotPurposes /\ "subprocess_idle" \in SlotPurposes
  /\ "call_bound" \in SlotPurposes /\ "confirm" \in SlotPurposes /\ "stop_grace_1" \in SlotPurposes
  /\ "stop_grace_2" \in SlotPurposes /\ "wind_down" \in SlotPurposes /\ "hold_retry" \in SlotPurposes
BY DEF SlotPurposes

LEMMA NewLadderFacts ==
  ASSUME NEW w \in BOOLEAN
  PROVE  /\ NewLadder(w) \in LadderType /\ NewLadder(w).on /\ NewLadder(w).forced = w
         /\ NewLadder(w).sent = 0 /\ NewLadder(w).fired = 0 /\ NewLadder(w).total = 0
         /\ NoLadder \in LadderType /\ ~NoLadder.on /\ ~NoLadder.forced
         /\ NoLadder.sent = 0 /\ NoLadder.fired = 0 /\ NoLadder.total = 0
<1>1. NoLadder = [on |-> FALSE, forced |-> FALSE, sent |-> 0, total |-> 0, fired |-> 0]
  BY DEF NoLadder
<1>2. NoLadder \in LadderType
  BY <1>1 DEF LadderType
<1>3. ~NoLadder.on /\ ~NoLadder.forced /\ NoLadder.sent = 0 /\ NoLadder.fired = 0 /\ NoLadder.total = 0
  BY <1>1
<1>4. /\ NewLadder(w) \in LadderType /\ NewLadder(w).on /\ NewLadder(w).forced = w
      /\ NewLadder(w).sent = NoLadder.sent /\ NewLadder(w).fired = NoLadder.fired
      /\ NewLadder(w).total = NoLadder.total
  BY <1>2 DEF NewLadder, LadderType
<1> QED BY <1>2, <1>3, <1>4

LEMMA StartedKeeps ==
  ASSUME NEW g, NEW s, Fine(g, s), NEW i \in Slots(s), s.slots[i].at = "Starting"
  PROVE  Keeps(g, s, SetTimer(ClearTimers([s EXCEPT !.slots[i].at = "Running"], {"start_deadline"}, i), "quiet", i))
<1> DEFINE r == [s.slots[i] EXCEPT !.at = "Running"]
           a == With(s, i, r)
           b == ClearTimers(a, {"start_deadline"}, i)
           t == SetTimer(b, "quiet", i)
<1>1. s \in StateSet(g) /\ s.slots[i] \in SlotSet(g) /\ i \in Nat /\ SlotOK(g, s, i) /\ Touch(g, s, s, i)
  BY SlotKnown, TouchSelf
<1>2. r \in SlotSet(g)
  BY <1>1 DEF SlotSet, States
<1>3. Touch(g, s, a, i) /\ a.slots[i] = r /\ \A p, j : Armed(a, p, j) <=> Armed(s, p, j)
  BY <1>1, <1>2, TouchWith
<1> HIDE DEF a
<1>4. /\ Touch(g, s, b, i) /\ b.slots = a.slots
      /\ \A p, j : Armed(b, p, j) <=> Armed(a, p, j) /\ ~(p \in {"start_deadline"} /\ j = i)
  BY <1>1, <1>3, TouchClear
<1> HIDE DEF b
<1>5. /\ Touch(g, s, t, i) /\ t.slots = b.slots
      /\ \A p, j : Armed(t, p, j) <=> Armed(b, p, j) \/ (p = "quiet" /\ j = i)
  BY <1>1, <1>4, TouchSet, Purposes, ZenonT(60)
<1> HIDE DEF t
<1>6. s.phase # "Finished"
  BY LiveIsUnfinished DEF Live, Talking
<1>7. SlotFits(g, r, s.withdrawn, Over(s), Ready(s)) /\ ~Over(s)
  BY <1>1 DEF SlotOK, SlotFits, LadderFits, Talking, SlotSet
<1>8. TimersFit(t, i, r) /\ Watched(g, t, i, r)
  BY <1>1, <1>3, <1>4, <1>5 DEF SlotOK, TimersFit, Watched, SlotFits, LadderFits, SlotSet, Talking
<1>9. \A p : Armed(t, p, i) => p \in SlotPurposes /\ (Over(s) => p \in StopPurposes)
  BY <1>1, <1>3, <1>4, <1>5, <1>7, SlotKnown DEF SlotPurposes
<1>10. Keeps(g, s, t)
  <2>1. Alike(s.slots[i], r)
    BY <1>1 DEF Alike, Busy, Live, Talking, SlotSet
  <2>2. Armed(t, "hold_retry", i) => Armed(s, "hold_retry", i)
    BY <1>3, <1>4, <1>5
  <2> QED BY <1>3, <1>4, <1>5, <1>6, <1>7, <1>8, <1>9, <2>1, <2>2, ReplacedSteady
<1>11. [s EXCEPT !.slots[i].at = "Running"] = a
  BY DEF a, With
<1> QED BY <1>10, <1>11 DEF t, b

\* A ladder whose next signal went out, and its slot.
NextRung(l) == [l EXCEPT !.sent = l.sent + 1, !.total = l.total + 1]
Signalled(r, l) == [r EXCEPT !.ladder = l, !.logged = l.total]

\* Everything else of the slot stays.
SignalledFrom(r, o, l) ==
  /\ r.ladder = l /\ r.logged = l.total /\ r.at = o.at /\ r.open = o.open
  /\ r.restart = o.restart /\ r.live = o.live /\ r.condition = o.condition
  /\ r.blind = o.blind /\ r.sampling = o.sampling /\ Alike(o, r)

LEMMA NextRungFacts ==
  ASSUME NEW o \in LadderType, o.sent < 3
  PROVE  /\ NextRung(o) \in LadderType /\ NextRung(o).on = o.on /\ NextRung(o).forced = o.forced
         /\ NextRung(o).fired = o.fired /\ NextRung(o).sent = o.sent + 1 /\ NextRung(o).total = o.total + 1
<1>1. o.sent + 1 \in 0 .. 3 /\ o.total + 1 \in Nat
  BY DEF LadderType
<1>2. NextRung(o) \in LadderType
  BY <1>1 DEF NextRung, LadderType
<1> QED BY <1>2 DEF NextRung, LadderType

LEMMA SignalledFacts ==
  ASSUME NEW g, NEW o \in SlotSet(g), NEW l \in LadderType
  PROVE  Signalled(o, l) \in SlotSet(g) /\ SignalledFrom(Signalled(o, l), o, l)
<1>1. l.total \in Nat
  BY DEF LadderType
<1>2. Signalled(o, l) \in SlotSet(g)
  BY <1>1 DEF Signalled, SlotSet
<1>3. Alike(o, Signalled(o, l))
  BY DEF Signalled, Alike, Busy, Live, Talking, SlotSet
<1> QED BY <1>2, <1>3 DEF Signalled, SignalledFrom, SlotSet

\* The rungs of a stop that is owed.
LEMMA OwedRungs ==
  ASSUME NEW g, NEW s, Fine(g, s), NEW i \in Slots(s), StopOwed(s, i), NEW o, o = s.slots[i].ladder
  PROVE  /\ o \in LadderType /\ o.on /\ s.slots[i].condition # "WouldNotStop"
         /\ \/ o.sent = 0 /\ o.fired = 0
            \/ o.sent = 1 /\ o.fired = 1
            \/ o.sent = 2 /\ o.fired = 2 /\ o.forced
<1>1. o \in LadderType /\ LadderFits(s.slots[i], s.withdrawn)
  BY SlotKnown DEF SlotOK, SlotFits
<1>2. /\ o.on /\ StopSignal(o) # "none" /\ o.sent \in 0 .. 3 /\ o.fired \in 0 .. 2
      /\ o.fired <= o.sent /\ (o.sent = 3 => o.fired = 2) /\ (o.sent = 2 => o.fired >= 1)
      /\ s.slots[i].condition = "WouldNotStop" => ~o.forced /\ o.sent = 2 /\ o.fired = 2
  <2>1. o.on /\ StopSignal(o) # "none"
    BY DEF StopOwed, StopSignal
  <2>2. o.sent \in 0 .. 3 /\ o.fired \in 0 .. 2
    BY <1>1 DEF LadderType
  <2> QED BY <1>1, <2>1, <2>2 DEF LadderFits
<1> QED BY <1>1, <1>2 DEF StopSignal

\* The grace of a rung that was just climbed.
Grace(l) == IF l.sent = 1 THEN "stop_grace_1" ELSE "stop_grace_2"

\* A slot that has gone up one rung, with the grace of that rung armed.
LEMMA ClimbedFits ==
  ASSUME NEW g, NEW s, Fine(g, s), NEW i \in Slots(s), StopOwed(s, i), NEW l \in LadderType, NEW r, NEW t,
         l.on, l.forced = s.slots[i].ladder.forced, l.fired = s.slots[i].ladder.fired,
         l.sent = s.slots[i].ladder.sent + 1, l.total = s.slots[i].ladder.total + 1,
         r \in SlotSet(g), SignalledFrom(r, s.slots[i], l),
         \A p : Armed(t, p, i) <=> Armed(s, p, i) \/ (l.sent \in {1, 2} /\ p = Grace(l))
  PROVE  SlotFits(g, r, s.withdrawn, Over(s), Ready(s)) /\ TimersFit(t, i, r) /\ Watched(g, t, i, r)
<1> DEFINE o == s.slots[i].ladder
<1>1. /\ o \in LadderType /\ o.on /\ s.slots[i].condition # "WouldNotStop"
      /\ \/ o.sent = 0 /\ o.fired = 0
         \/ o.sent = 1 /\ o.fired = 1
         \/ o.sent = 2 /\ o.fired = 2 /\ o.forced
  BY OwedRungs
<1>2. /\ SlotFits(g, s.slots[i], s.withdrawn, Over(s), Ready(s)) /\ TimersFit(s, i, s.slots[i])
      /\ Watched(g, s, i, s.slots[i])
  BY SlotKnown DEF SlotOK
<1>3. \/ l.sent = 1 /\ l.fired = 0
      \/ l.sent = 2 /\ l.fired = 1
      \/ l.sent = 3 /\ l.fired = 2 /\ l.forced
  BY <1>1
<1> HIDE DEF o
<1>4. LadderFits(r, s.withdrawn)
  BY <1>1, <1>2, <1>3, SMTT(30) DEF SlotFits, LadderFits, SignalledFrom, o
<1>5. SlotFits(g, r, s.withdrawn, Over(s), Ready(s))
  <2>1. o.total \in Nat
    BY <1>1 DEF LadderType
  <2>2. "late_start" \notin g.may =>
          /\ r.ladder.on => r.logged <= r.ladder.total
          /\ ~r.ladder.on /\ r.at # "Ended" /\ (r.at = "Replied" => r.live) => r.logged = 0
    BY <2>1 DEF SignalledFrom, o
  <2> QED BY <1>1, <1>2, <1>3, <1>4, <2>2, SMTT(30) DEF SlotFits, SignalledFrom, Talking
<1>6. TimersFit(t, i, r)
  BY <1>1, <1>2, <1>3, SMTT(30) DEF TimersFit, SignalledFrom, Grace, o
<1>7. Watched(g, t, i, r)
  BY <1>1, <1>2, <1>3, SMTT(30) DEF Watched, SignalledFrom, Grace, o
<1> QED BY <1>5, <1>6, <1>7

\* The stop table, rung by rung: the signal is counted and its grace armed.
LEMMA ClimbKeeps ==
  ASSUME NEW g, NEW s, Fine(g, s), NEW i \in Slots(s), StopOwed(s, i),
         NEW l, l = NextRung(s.slots[i].ladder), NEW w, w = With(s, i, Signalled(s.slots[i], l))
  PROVE  Keeps(g, s, IF l.sent \in {1, 2} THEN SetTimer(w, Grace(l), i) ELSE w)
<1> DEFINE r == Signalled(s.slots[i], l)
           t == IF l.sent \in {1, 2} THEN SetTimer(w, Grace(l), i) ELSE w
<1>1. /\ s.slots[i] \in SlotSet(g) /\ i \in Nat /\ Touch(g, s, s, i) /\ s.slots[i].ladder \in LadderType
      /\ s.slots[i].ladder.on /\ s.slots[i].ladder.sent < 3
  BY SlotKnown, TouchSelf, OwedRungs
<1>2. s.phase # "Finished"
  BY DEF StopOwed, Finishing, TreePrepared
<1>3. /\ l \in LadderType /\ l.on /\ l.forced = s.slots[i].ladder.forced /\ l.fired = s.slots[i].ladder.fired
      /\ l.sent = s.slots[i].ladder.sent + 1 /\ l.total = s.slots[i].ladder.total + 1
  BY <1>1, NextRungFacts
<1>4. r \in SlotSet(g) /\ SignalledFrom(r, s.slots[i], l)
  BY <1>1, <1>3, SignalledFacts
<1> HIDE DEF r
<1>5. Touch(g, s, w, i) /\ w.slots[i] = r /\ \A p, j : Armed(w, p, j) <=> Armed(s, p, j)
  BY <1>1, <1>4, TouchWith DEF r
<1>6. Grace(l) \in SlotPurposes /\ Grace(l) \in StopPurposes
  BY DEF Grace, SlotPurposes, StopPurposes
<1>7. /\ Touch(g, s, t, i) /\ t.slots[i] = r
      /\ \A p : Armed(t, p, i) <=> Armed(s, p, i) \/ (l.sent \in {1, 2} /\ p = Grace(l))
  <2>1. CASE l.sent \in {1, 2}
    <3>1. t = SetTimer(w, Grace(l), i)
      BY <2>1
    <3> HIDE DEF t
    <3>2. /\ Touch(g, s, t, i) /\ t.slots = w.slots
          /\ \A p : Armed(t, p, i) <=> Armed(s, p, i) \/ p = Grace(l)
      BY <1>1, <1>5, <1>6, <3>1, TouchedTimer
    <3> QED BY <1>5, <2>1, <3>2
  <2>2. CASE l.sent \notin {1, 2}
    BY <1>5, <2>2
  <2> QED BY <2>1, <2>2
<1> HIDE DEF t
<1>8. SlotFits(g, r, s.withdrawn, Over(s), Ready(s)) /\ TimersFit(t, i, r) /\ Watched(g, t, i, r)
  BY <1>3, <1>4, <1>7, ClimbedFits
<1>9. \A p : Armed(t, p, i) => p \in SlotPurposes /\ (Over(s) => p \in StopPurposes)
  BY <1>6, <1>7, SlotKnown
<1>10. Keeps(g, s, t)
  <2>1. Alike(s.slots[i], r)
    BY <1>4 DEF SignalledFrom
  <2>2. Armed(t, "hold_retry", i) => Armed(s, "hold_retry", i)
    BY <1>7 DEF Grace
  <2> QED BY <1>2, <1>7, <1>8, <1>9, <2>1, <2>2, ReplacedSteady
<1> QED BY <1>10 DEF t

\* The same as stop_signalled writes it.
LEMMA StopSignalledKeeps ==
  ASSUME NEW g, NEW s, Fine(g, s), NEW i \in Slots(s), StopOwed(s, i),
         NEW l, l = [s.slots[i].ladder EXCEPT !.sent = s.slots[i].ladder.sent + 1,
                                              !.total = s.slots[i].ladder.total + 1],
         NEW w, w = With(s, i, [s.slots[i] EXCEPT !.ladder = l, !.logged = l.total])
  PROVE  Keeps(g, s, IF l.sent = 1 THEN SetTimer(w, "stop_grace_1", i)
                 ELSE IF l.sent = 2 THEN SetTimer(w, "stop_grace_2", i) ELSE w)
<1>1. l = NextRung(s.slots[i].ladder)
  BY DEF NextRung
<1>2. w = With(s, i, Signalled(s.slots[i], l))
  BY DEF Signalled
<1>3. Keeps(g, s, IF l.sent \in {1, 2} THEN SetTimer(w, Grace(l), i) ELSE w)
  BY <1>1, <1>2, ClimbKeeps
<1>4. l.sent = 1 => Grace(l) = "stop_grace_1"
  BY DEF Grace
<1>5. l.sent = 2 => Grace(l) = "stop_grace_2"
  BY DEF Grace
<1>6. CASE l.sent = 1
  BY <1>3, <1>4, <1>6
<1>7. CASE l.sent = 2
  BY <1>3, <1>5, <1>7
<1>8. CASE l.sent # 1 /\ l.sent # 2
  BY <1>3, <1>8
<1> QED BY <1>6, <1>7, <1>8

LEMMA LateStartedKeeps ==
  ASSUME NEW g, NEW s, Fine(g, s), NEW i \in Slots(s), "late_start" \in g.may,
         s.phase # "Finished", s.slots[i].at = "Ended"
  PROVE  Fine(g, With(s, i, [s.slots[i] EXCEPT !.at = "Stopping", !.cause = "none",
                                               !.ladder = NewLadder(s.withdrawn)]))
<1> DEFINE r == [s.slots[i] EXCEPT !.at = "Stopping", !.cause = "none", !.ladder = NewLadder(s.withdrawn)]
           t == With(s, i, r)
<1>1. /\ s \in StateSet(g) /\ s.slots[i] \in SlotSet(g) /\ i \in Nat /\ SlotOK(g, s, i) /\ Touch(g, s, s, i)
      /\ s.withdrawn \in BOOLEAN
  BY SlotKnown, TouchSelf
<1>2. r \in SlotSet(g)
  BY <1>1, NewLadderFacts DEF SlotSet, States
<1>3. Touch(g, s, t, i) /\ t.slots[i] = r /\ \A p, j : Armed(t, p, j) <=> Armed(s, p, j)
  BY <1>1, <1>2, TouchWith
<1> HIDE DEF t
<1>4. SlotFits(g, r, s.withdrawn, Over(s), Ready(s))
  BY <1>1, NewLadderFacts DEF SlotOK, SlotFits, LadderFits, Talking, SlotSet
<1>5. TimersFit(t, i, r) /\ Watched(g, t, i, r)
  BY <1>1, <1>3, NewLadderFacts DEF SlotOK, TimersFit, Watched, SlotFits, LadderFits, SlotSet
<1>6. \A p : Armed(t, p, i) => p \in SlotPurposes /\ (Over(s) => p \in StopPurposes)
  BY <1>1, <1>3, SlotKnown
<1>7. Fine(g, t)
  BY <1>3, <1>4, <1>5, <1>6, Replaced
<1> QED BY <1>7 DEF t

\* Liveness concluded, once the signs of life are no longer timed.
SignsOfLife == {"start_deadline", "quiet", "subprocess_idle", "call_bound", "confirm"}

LEMMA ConcludeKeeps ==
  ASSUME NEW g, NEW s, Fine(g, s), NEW i \in Slots(s), s.slots[i].at = "Starting" \/ Talking(s.slots[i]),
         NEW a, Touch(g, s, a, i), a.slots[i] = s.slots[i],
         \A p : Armed(a, p, i) => Armed(s, p, i) /\ p \notin SignsOfLife
  PROVE  Keeps(g, s, Conclude(a, i))
<1> DEFINE r == [a.slots[i] EXCEPT !.at = "Stopping", !.open = FALSE, !.restart = TRUE,
                                   !.ladder = NewLadder(a.withdrawn)]
           t == With(a, i, r)
<1>1. /\ s \in StateSet(g) /\ s.slots[i] \in SlotSet(g) /\ i \in Nat /\ SlotOK(g, s, i) /\ Touch(g, s, s, i)
      /\ s.withdrawn \in BOOLEAN /\ a.withdrawn = s.withdrawn
  BY SlotKnown, TouchSelf DEF Touch, RunSame
<1>2. r \in SlotSet(g)
  BY <1>1, NewLadderFacts, ZenonT(60) DEF SlotSet, States
<1>3. Touch(g, s, t, i) /\ t.slots[i] = r /\ \A p, j : Armed(t, p, j) <=> Armed(a, p, j)
  BY <1>1, <1>2, TouchWith
<1> HIDE DEF t
<1>4. s.phase # "Finished"
  BY LiveIsUnfinished DEF Live
<1>5. SlotFits(g, r, s.withdrawn, Over(s), Ready(s))
  BY <1>1, NewLadderFacts DEF SlotOK, SlotFits, LadderFits, Talking, SlotSet
<1>6. TimersFit(t, i, r) /\ Watched(g, t, i, r)
  BY <1>1, <1>3, NewLadderFacts DEF SlotOK, TimersFit, Watched, SlotFits, LadderFits, SlotSet, SignsOfLife, Talking
<1>7. \A p : Armed(t, p, i) => p \in SlotPurposes /\ (Over(s) => p \in StopPurposes)
  BY <1>1, <1>3, SlotKnown
<1>8. Keeps(g, s, t)
  <2>1. Alike(s.slots[i], r)
    BY <1>1 DEF Alike, Busy, Live, Talking, SlotSet
  <2>2. Armed(t, "hold_retry", i) => Armed(s, "hold_retry", i)
    BY <1>3
  <2> QED BY <1>3, <1>4, <1>5, <1>6, <1>7, <2>1, <2>2, ReplacedSteady
<1> QED BY <1>8 DEF t, Conclude

\* A slot goes quiet, and only the confirmation is timed.
LEMMA GoQuietKeeps ==
  ASSUME NEW g, NEW s, Fine(g, s), NEW i \in Slots(s), s.slots[i].at = "Running",
         NEW a, Touch(g, s, a, i), a.slots[i] = s.slots[i],
         \A p : Armed(a, p, i) => Armed(s, p, i) /\ p \notin {"quiet", "subprocess_idle", "call_bound"}
  PROVE  Keeps(g, s, GoQuiet(a, i))
<1> DEFINE r == [a.slots[i] EXCEPT !.at = "Quiet", !.open = a.slots[i].open /\ a.slots[i].at # "Quiet"]
           b == With(a, i, r)
           t == SetTimer(b, "confirm", i)
<1>1. /\ s \in StateSet(g) /\ s.slots[i] \in SlotSet(g) /\ i \in Nat /\ SlotOK(g, s, i) /\ Touch(g, s, s, i)
  BY SlotKnown, TouchSelf
<1>2. r \in SlotSet(g)
  BY <1>1, ZenonT(60) DEF SlotSet, States
<1>3. Touch(g, s, b, i) /\ b.slots[i] = r /\ \A p, j : Armed(b, p, j) <=> Armed(a, p, j)
  BY <1>1, <1>2, TouchWith
<1> HIDE DEF b
<1>4. /\ Touch(g, s, t, i) /\ t.slots = b.slots
      /\ \A p, j : Armed(t, p, j) <=> Armed(b, p, j) \/ (p = "confirm" /\ j = i)
  BY <1>1, <1>3, TouchSet DEF SlotPurposes
<1> HIDE DEF t
<1>5. s.phase # "Finished"
  BY LiveIsUnfinished DEF Live, Talking
<1>6. SlotFits(g, r, s.withdrawn, Over(s), Ready(s)) /\ ~Over(s)
  BY <1>1 DEF SlotOK, SlotFits, LadderFits, Talking, SlotSet
<1>7. TimersFit(t, i, r) /\ Watched(g, t, i, r)
  BY <1>1, <1>3, <1>4 DEF SlotOK, TimersFit, Watched, SlotFits, LadderFits, SlotSet
<1>8. \A p : Armed(t, p, i) => p \in SlotPurposes /\ (Over(s) => p \in StopPurposes)
  BY <1>1, <1>3, <1>4, <1>6, SlotKnown DEF SlotPurposes
<1>9. Keeps(g, s, t)
  <2>1. Alike(s.slots[i], r)
    BY <1>1 DEF Alike, Busy, Live, Talking, SlotSet
  <2>2. Armed(t, "hold_retry", i) => Armed(s, "hold_retry", i)
    BY <1>3, <1>4
  <2> QED BY <1>3, <1>4, <1>5, <1>6, <1>7, <1>8, <2>1, <2>2, ReplacedSteady
<1> QED BY <1>9 DEF t, b, GoQuiet

\* rearm, timer by timer.
Rearmed(a, i, r, was_quiet, beat, p) ==
  LET kept == Armed(a, p, i) /\ ~(was_quiet /\ p = "confirm")
      back == was_quiet \/ beat = "calls_open"
  IN  IF ~r.open
      THEN \/ kept /\ p # "subprocess_idle" /\ p # "call_bound"
           \/ (was_quiet \/ beat \in {"model_output", "calls_closed", "subprocess_moved"}) /\ p = "quiet"
      ELSE \/ kept /\ p # "quiet" /\ ~(r.blind /\ p = "subprocess_idle") /\ ~(r.sampling /\ p = "call_bound")
           \/ ~r.blind /\ (back \/ beat = "subprocess_moved") /\ p = "subprocess_idle"
           \/ ~r.sampling /\ (back \/ beat = "blind") /\ p = "call_bound"

LEMMA RearmFacts ==
  ASSUME NEW g, NEW s, NEW a, NEW i \in Nat, Touch(g, s, a, i), NEW was_quiet, NEW beat,
         a.slots[i] \in SlotSet(g)
  PROVE  /\ Touch(g, s, Rearm(a, i, was_quiet, beat), i)
         /\ Rearm(a, i, was_quiet, beat).slots = a.slots
         /\ \A p : Armed(Rearm(a, i, was_quiet, beat), p, i) <=> Rearmed(a, i, a.slots[i], was_quiet, beat, p)
<1> DEFINE r == a.slots[i]
           base == IF was_quiet THEN ClearTimers(a, {"confirm"}, i) ELSE a
           closed == ClearTimers(base, {"subprocess_idle", "call_bound"}, i)
           Q == {"quiet"} \cup (IF r.blind THEN {"subprocess_idle"} ELSE {})
                          \cup (IF r.sampling THEN {"call_bound"} ELSE {})
           open == ClearTimers(base, Q, i)
           back == was_quiet \/ beat = "calls_open"
           idle == IF ~r.blind /\ (back \/ beat = "subprocess_moved")
                   THEN SetTimer(open, "subprocess_idle", i) ELSE open
           shut == IF was_quiet \/ beat \in {"model_output", "calls_closed", "subprocess_moved"}
                   THEN SetTimer(closed, "quiet", i) ELSE closed
           bound == IF ~r.sampling /\ (back \/ beat = "blind") THEN SetTimer(idle, "call_bound", i) ELSE idle
           t == Rearm(a, i, was_quiet, beat)
<1>1. t = IF ~r.open THEN shut ELSE bound
  BY DEF Rearm
<1>2. r.blind \in BOOLEAN /\ r.sampling \in BOOLEAN /\ r.open \in BOOLEAN
  BY DEF SlotSet
<1> HIDE DEF t
<1>3. /\ Touch(g, s, base, i) /\ base.slots = a.slots
      /\ \A p : Armed(base, p, i) <=> Armed(a, p, i) /\ ~(was_quiet /\ p = "confirm")
  <2>1. CASE was_quiet
    <3>1. base = ClearTimers(a, {"confirm"}, i)
      BY <2>1
    <3> HIDE DEF base
    <3> QED BY <2>1, <3>1, TouchClear
  <2>2. CASE ~was_quiet
    BY <2>2
  <2> QED BY <2>1, <2>2
<1> HIDE DEF base
<1>4. /\ Touch(g, s, closed, i) /\ closed.slots = a.slots
      /\ \A p : Armed(closed, p, i) <=> Armed(base, p, i) /\ p # "subprocess_idle" /\ p # "call_bound"
  BY <1>3, TouchClear
<1> HIDE DEF closed
<1>5. /\ Touch(g, s, open, i) /\ open.slots = a.slots
      /\ \A p : Armed(open, p, i) <=> Armed(base, p, i) /\ p \notin Q
  <2> HIDE DEF Q
  <2> QED BY <1>3, TouchClear
<1>6. \A p : p \in Q <=> \/ p = "quiet"
                         \/ r.blind /\ p = "subprocess_idle"
                         \/ r.sampling /\ p = "call_bound"
  BY <1>2
<1> HIDE DEF open, Q
<1>7. /\ Touch(g, s, idle, i) /\ idle.slots = a.slots
      /\ \A p : Armed(idle, p, i) <=>
           Armed(open, p, i) \/ (~r.blind /\ (back \/ beat = "subprocess_moved") /\ p = "subprocess_idle")
  <2>1. CASE ~r.blind /\ (back \/ beat = "subprocess_moved")
    <3>1. idle = SetTimer(open, "subprocess_idle", i)
      BY <2>1
    <3> HIDE DEF idle
    <3>2. Touch(g, s, open, i) /\ open.slots = a.slots
      BY <1>5
    <3>3. /\ Touch(g, s, idle, i) /\ idle.slots = a.slots
          /\ \A p : Armed(idle, p, i) <=> Armed(open, p, i) \/ p = "subprocess_idle"
      <4>1. "subprocess_idle" \in SlotPurposes
        BY Purposes
      <4> QED BY <3>1, <3>2, <4>1, TouchSet
    <3> QED BY <2>1, <3>3
  <2>2. CASE ~(~r.blind /\ (back \/ beat = "subprocess_moved"))
    <3>1. idle = open
      BY <2>2
    <3> QED BY <1>5, <2>2, <3>1
  <2> QED BY <2>1, <2>2
<1>8. CASE ~r.open
  <2>1. CASE was_quiet \/ beat \in {"model_output", "calls_closed", "subprocess_moved"}
    <3>1. t = SetTimer(closed, "quiet", i)
      BY <1>1, <1>8, <2>1
    <3>2. Touch(g, s, t, i) /\ t.slots = a.slots /\ \A p : Armed(t, p, i) <=> Armed(closed, p, i) \/ p = "quiet"
      BY <1>4, <3>1, TouchSet, Purposes
    <3>3. \A p : Armed(t, p, i) <=> Rearmed(a, i, r, was_quiet, beat, p)
      BY <1>3, <1>4, <1>8, <2>1, <3>2 DEF Rearmed
    <3> QED BY <3>2, <3>3 DEF t
  <2>2. CASE ~(was_quiet \/ beat \in {"model_output", "calls_closed", "subprocess_moved"})
    <3>1. t = closed
      BY <1>1, <1>8, <2>2
    <3>3. \A p : Armed(t, p, i) <=> Rearmed(a, i, r, was_quiet, beat, p)
      BY <1>3, <1>4, <1>8, <2>2, <3>1 DEF Rearmed
    <3> QED BY <1>4, <3>1, <3>3 DEF t
  <2> QED BY <2>1, <2>2
<1>9. CASE r.open
  <2> HIDE DEF idle
  <2>1. CASE ~r.sampling /\ (back \/ beat = "blind")
    <3>1. t = SetTimer(idle, "call_bound", i)
      BY <1>1, <1>9, <2>1
    <3>2. Touch(g, s, t, i) /\ t.slots = a.slots /\ \A p : Armed(t, p, i) <=> Armed(idle, p, i) \/ p = "call_bound"
      <4>1. Touch(g, s, idle, i) /\ idle.slots = a.slots
        BY <1>7
      <4>2. "call_bound" \in SlotPurposes
        BY Purposes
      <4> QED BY <3>1, <4>1, <4>2, TouchSet
    <3>3. \A p : Armed(t, p, i) <=> Rearmed(a, i, r, was_quiet, beat, p)
      BY <1>3, <1>5, <1>6, <1>7, <1>9, <2>1, <3>2 DEF Rearmed
    <3> QED BY <3>2, <3>3 DEF t
  <2>2. CASE ~(~r.sampling /\ (back \/ beat = "blind"))
    <3>1. t = idle
      BY <1>1, <1>9, <2>2
    <3>3. \A p : Armed(t, p, i) <=> Rearmed(a, i, r, was_quiet, beat, p)
      BY <1>3, <1>5, <1>6, <1>7, <1>9, <2>2, <3>1 DEF Rearmed
    <3> QED BY <1>7, <3>1, <3>3 DEF t
  <2> QED BY <2>1, <2>2
<1> QED BY <1>2, <1>8, <1>9

\* What a beat makes of a slot.
Beaten(r, beat) ==
  [r EXCEPT !.at = "Running",
            !.open = beat = "calls_open" \/ (r.open /\ beat # "calls_closed"),
            !.sampling = r.sampling \/ beat = "subprocess_moved",
            !.blind = r.blind \/ beat = "blind"]

LEMMA BeatenFacts ==
  ASSUME NEW g, NEW r \in SlotSet(g), NEW beat, NEW b, b = Beaten(r, beat)
  PROVE  /\ b \in SlotSet(g) /\ b.at = "Running" /\ b.restart = r.restart /\ b.live = r.live
         /\ b.ladder = r.ladder /\ b.condition = r.condition /\ b.logged = r.logged
         /\ b.step = r.step /\ b.visit = r.visit /\ b.member = r.member /\ b.attempt = r.attempt
         /\ b.restarts = r.restarts /\ b.escalate = r.escalate
         /\ b.open <=> beat = "calls_open" \/ (r.open /\ beat # "calls_closed")
         /\ b.sampling <=> r.sampling \/ beat = "subprocess_moved"
         /\ b.blind <=> r.blind \/ beat = "blind"
<1> DEFINE o == beat = "calls_open" \/ (r.open /\ beat # "calls_closed")
           m == r.sampling \/ beat = "subprocess_moved"
           n == r.blind \/ beat = "blind"
<1>1. o \in BOOLEAN /\ m \in BOOLEAN /\ n \in BOOLEAN
  OBVIOUS
<1>2. b \in SlotSet(g)
  <2>1. b = [r EXCEPT !.at = "Running", !.open = o, !.sampling = m, !.blind = n]
    BY DEF Beaten
  <2> HIDE DEF o, m, n
  <2> QED BY <1>1, <2>1, ZenonT(60) DEF SlotSet, States
<1>3. /\ b.at = "Running" /\ b.restart = r.restart /\ b.live = r.live
      /\ b.ladder = r.ladder /\ b.condition = r.condition /\ b.logged = r.logged
      /\ b.step = r.step /\ b.visit = r.visit /\ b.member = r.member /\ b.attempt = r.attempt
      /\ b.restarts = r.restarts /\ b.escalate = r.escalate
  BY DEF Beaten, SlotSet
<1>4. /\ b.open = (beat = "calls_open" \/ (r.open /\ beat # "calls_closed"))
      /\ b.sampling = (r.sampling \/ beat = "subprocess_moved") /\ b.blind = (r.blind \/ beat = "blind")
  BY DEF Beaten, SlotSet
<1> QED BY <1>2, <1>3, <1>4

LEMMA HeartbeatKeeps ==
  ASSUME NEW g, NEW s, Fine(g, s), NEW i \in Slots(s), Talking(s.slots[i]), NEW beat,
         beat = "blind" /\ s.slots[i].sampling => "sampler_fails" \in g.may,
         beat = "subprocess_moved" /\ s.slots[i].blind => "sampler_fails" \in g.may,
         NEW w, w = With(s, i, Beaten(s.slots[i], beat)),
         NEW wq \in BOOLEAN, wq <=> s.slots[i].at # "Running"
  PROVE  Keeps(g, s, IF beat = "other" /\ ~wq THEN w ELSE Rearm(w, i, wq, beat))
<1> DEFINE old == s.slots[i]
           r == Beaten(old, beat)
           t == IF beat = "other" /\ ~wq THEN w ELSE Rearm(w, i, wq, beat)
<1>1. /\ s \in StateSet(g) /\ old \in SlotSet(g) /\ i \in Nat /\ SlotOK(g, s, i) /\ Touch(g, s, s, i)
  BY SlotKnown, TouchSelf
<1> HIDE DEF r
<1>2. /\ r \in SlotSet(g) /\ r.at = "Running" /\ r.restart = old.restart /\ r.live = old.live
      /\ r.ladder = old.ladder /\ r.condition = old.condition /\ r.logged = old.logged
      /\ r.step = old.step /\ r.visit = old.visit /\ r.member = old.member /\ r.attempt = old.attempt
      /\ r.restarts = old.restarts /\ r.escalate = old.escalate
      /\ r.open <=> beat = "calls_open" \/ (old.open /\ beat # "calls_closed")
      /\ r.sampling <=> old.sampling \/ beat = "subprocess_moved"
      /\ r.blind <=> old.blind \/ beat = "blind"
  BY <1>1, BeatenFacts DEF r
<1>3. Touch(g, s, w, i) /\ w.slots[i] = r /\ \A p, j : Armed(w, p, j) <=> Armed(s, p, j)
  BY <1>1, <1>2, TouchWith DEF r
<1>4. /\ Touch(g, s, t, i) /\ t.slots[i] = r
      /\ \A p : Armed(t, p, i) <=> IF beat = "other" /\ ~wq THEN Armed(s, p, i)
                                   ELSE Rearmed(w, i, r, wq, beat, p)
  <2>1. CASE beat = "other" /\ ~wq
    BY <1>3, <2>1
  <2>2. CASE ~(beat = "other" /\ ~wq)
    <3>1. t = Rearm(w, i, wq, beat) /\ wq \in BOOLEAN
      BY <2>2
    <3>2. /\ Touch(g, s, Rearm(w, i, wq, beat), i) /\ Rearm(w, i, wq, beat).slots = w.slots
          /\ \A p : Armed(Rearm(w, i, wq, beat), p, i) <=> Rearmed(w, i, w.slots[i], wq, beat, p)
      <4>1. Touch(g, s, w, i) /\ w.slots[i] \in SlotSet(g)
        BY <1>2, <1>3
      <4>2. i \in Nat /\ wq \in BOOLEAN
        BY <1>1
      <4> QED BY <4>1, <4>2, RearmFacts
    <3> HIDE DEF t
    <3> QED BY <1>3, <2>2, <3>1, <3>2
  <2> QED BY <2>1, <2>2
<1> HIDE DEF t
<1>5. s.phase # "Finished"
  BY LiveIsUnfinished DEF Live, Talking
<1>6. SlotFits(g, r, s.withdrawn, Over(s), Ready(s)) /\ ~Over(s)
  BY <1>1, <1>2 DEF SlotOK, SlotFits, LadderFits, Talking
<1>7. TimersFit(t, i, r)
  BY <1>1, <1>2, <1>3, <1>4 DEF SlotOK, TimersFit, SlotFits, LadderFits, Talking, Rearmed
<1>8. Watched(g, t, i, r)
  <2>1. ~r.ladder.on
    BY <1>1, <1>2 DEF SlotOK, SlotFits, LadderFits, Talking
  <2>2. ~r.open => Armed(t, "quiet", i)
    BY <1>1, <1>2, <1>3, <1>4 DEF SlotOK, Watched, Talking, Rearmed
  <2>3. "sampler_fails" \notin g.may /\ r.open =>
          Armed(t, IF r.blind THEN "call_bound" ELSE "subprocess_idle", i)
    <3>1. ASSUME "sampler_fails" \notin g.may, r.open
          PROVE  Armed(t, IF r.blind THEN "call_bound" ELSE "subprocess_idle", i)
      <4>1. ~(r.sampling /\ r.blind)
        BY <1>6, <3>1 DEF SlotFits
      <4>2. CASE beat = "other" /\ ~wq
        BY <1>1, <1>2, <1>4, <3>1, <4>2 DEF SlotOK, Watched
      <4>3. CASE ~(beat = "other" /\ ~wq) /\ (wq \/ beat = "calls_open")
        BY <1>4, <3>1, <4>1, <4>3 DEF Rearmed
      <4>4. CASE beat # "other" /\ ~wq /\ beat # "calls_open"
        <5>1. /\ old.open /\ old.at = "Running"
              /\ Armed(s, IF old.blind THEN "call_bound" ELSE "subprocess_idle", i)
          BY <1>1, <1>2, <3>1, <4>4 DEF SlotOK, Watched
        <5>2. CASE r.blind
          BY <1>2, <1>3, <1>4, <3>1, <4>1, <4>4, <5>1, <5>2 DEF Rearmed
        <5>3. CASE ~r.blind
          BY <1>2, <1>3, <1>4, <3>1, <4>1, <4>4, <5>1, <5>3 DEF Rearmed
        <5> QED BY <5>2, <5>3
      <4> QED BY <4>2, <4>3, <4>4
    <3> QED BY <3>1
  <2> QED BY <1>2, <2>1, <2>2, <2>3 DEF Watched
<1>9. \A p : Armed(t, p, i) => p \in SlotPurposes /\ (Over(s) => p \in StopPurposes)
  BY <1>1, <1>3, <1>4, <1>6, SlotKnown, Purposes DEF Rearmed
<1> QED
  <2>1. Alike(s.slots[i], r)
    BY <1>1, <1>2 DEF Alike, Busy, Live, Talking
  <2>2. Armed(t, "hold_retry", i) => Armed(s, "hold_retry", i)
    BY <1>3, <1>4 DEF Rearmed
  <2> QED BY <1>4, <1>5, <1>6, <1>7, <1>8, <1>9, <2>1, <2>2, ReplacedSteady DEF t

\* A replied session is asked to stop, and its wind-down is no longer timed.
LEMMA ReplyStopKeeps ==
  ASSUME NEW g, NEW s, Fine(g, s), NEW i \in Slots(s), s.slots[i].at = "Replied", s.slots[i].live,
         ~s.slots[i].ladder.on, NEW t, Touch(g, s, t, i),
         t.slots[i] = [s.slots[i] EXCEPT !.ladder = NewLadder(s.withdrawn)],
         \A p : Armed(t, p, i) => Armed(s, p, i) /\ p # "wind_down"
  PROVE  Keeps(g, s, t)
<1> DEFINE r == [s.slots[i] EXCEPT !.ladder = NewLadder(s.withdrawn)]
<1>1. /\ s \in StateSet(g) /\ s.slots[i] \in SlotSet(g) /\ i \in Nat /\ SlotOK(g, s, i)
      /\ s.withdrawn \in BOOLEAN
  BY SlotKnown
<1>2. s.phase # "Finished"
  BY LiveIsUnfinished DEF Live
<1>3. SlotFits(g, r, s.withdrawn, Over(s), Ready(s))
  BY <1>1, NewLadderFacts DEF SlotOK, SlotFits, LadderFits, Talking, SlotSet
<1>4. TimersFit(t, i, r) /\ Watched(g, t, i, r)
  BY <1>1, NewLadderFacts DEF SlotOK, TimersFit, Watched, SlotFits, LadderFits, SlotSet
<1>5. \A p : Armed(t, p, i) => p \in SlotPurposes /\ (Over(s) => p \in StopPurposes)
  BY <1>1, SlotKnown
<1> QED
  <2>1. Alike(s.slots[i], r)
    BY <1>1 DEF Alike, Busy, Live, Talking, SlotSet
  <2>2. Armed(t, "hold_retry", i) => Armed(s, "hold_retry", i)
    BY <1>1
  <2> QED BY <1>2, <1>3, <1>4, <1>5, <2>1, <2>2, ReplacedSteady

LEMMA WindDownKeeps ==
  ASSUME NEW g, NEW s, Fine(g, s), NEW i \in Slots(s), Armed(s, "wind_down", i)
  PROVE  Keeps(g, s, StartReplyStop(Spent(s, "wind_down", i), i))
<1> DEFINE a == Spent(s, "wind_down", i)
           r == [s.slots[i] EXCEPT !.ladder = NewLadder(s.withdrawn)]
           t == With(a, i, r)
<1>1. /\ s \in StateSet(g) /\ s.slots[i] \in SlotSet(g) /\ i \in Nat /\ SlotOK(g, s, i)
      /\ s.withdrawn \in BOOLEAN
  BY SlotKnown
<1>2. s.slots[i].at = "Replied" /\ s.slots[i].live /\ ~s.slots[i].ladder.on
  BY <1>1 DEF SlotOK, TimersFit
<1>3. /\ Touch(g, s, a, i) /\ a.slots = s.slots
      /\ \A p, j : Armed(a, p, j) <=> Armed(s, p, j) /\ ~(p = "wind_down" /\ j = i)
  BY <1>1, TouchSpent
<1> HIDE DEF a
<1>4. r \in SlotSet(g)
  BY <1>1, NewLadderFacts DEF SlotSet
<1>5. Touch(g, s, t, i) /\ t.slots[i] = r /\ \A p, j : Armed(t, p, j) <=> Armed(a, p, j)
  BY <1>3, <1>4, TouchWith
<1>6. StartReplyStop(a, i) = t
  BY <1>2, <1>3 DEF StartReplyStop, Touch, RunSame
<1> HIDE DEF t
<1>7. Keeps(g, s, t)
  BY <1>2, <1>3, <1>5, ReplyStopKeeps
<1> QED BY <1>6, <1>7 DEF a

LEMMA LingeringReplyKeeps ==
  ASSUME NEW g, NEW s, Fine(g, s), NEW i \in Slots(s), s.slots[i].at = "Replied", s.slots[i].live
  PROVE  Keeps(g, s, ClearTimers(StartReplyStop(s, i), {"wind_down"}, i))
<1> DEFINE a == StartReplyStop(s, i)
           r == [s.slots[i] EXCEPT !.ladder = NewLadder(s.withdrawn)]
           t == ClearTimers(a, {"wind_down"}, i)
<1>1. /\ s \in StateSet(g) /\ s.slots[i] \in SlotSet(g) /\ i \in Nat /\ SlotOK(g, s, i) /\ Touch(g, s, s, i)
      /\ s.withdrawn \in BOOLEAN
  BY SlotKnown, TouchSelf
<1>2. r \in SlotSet(g)
  BY <1>1, NewLadderFacts DEF SlotSet
<1>3. CASE s.slots[i].ladder.on
  <2>1. a = s
    BY <1>3 DEF StartReplyStop
  <2>2. /\ Touch(g, s, t, i) /\ t.slots = s.slots
        /\ \A p, j : Armed(t, p, j) <=> Armed(s, p, j) /\ ~(p \in {"wind_down"} /\ j = i)
    BY <1>1, <2>1, TouchClear
  <2> HIDE DEF t
  <2>3. SlotFits(g, s.slots[i], s.withdrawn, Over(s), Ready(s)) /\ TimersFit(t, i, s.slots[i])
    BY <1>1, <2>2 DEF SlotOK, TimersFit
  <2>4. Watched(g, t, i, s.slots[i])
    BY <1>1, <1>3, <2>2 DEF SlotOK, Watched
  <2>5. \A p : Armed(t, p, i) => p \in SlotPurposes /\ (Over(s) => p \in StopPurposes)
    BY <2>2, SlotKnown
  <2>6. s.phase # "Finished"
    BY LiveIsUnfinished DEF Live
  <2>7. Alike(s.slots[i], s.slots[i]) /\ (Armed(t, "hold_retry", i) => Armed(s, "hold_retry", i))
    BY <2>2, AlikeSelf
  <2> QED BY <2>2, <2>3, <2>4, <2>5, <2>6, <2>7, ReplacedSteady DEF t
<1>4. CASE ~s.slots[i].ladder.on
  <2>1. a = With(s, i, r)
    BY <1>4 DEF StartReplyStop
  <2>2. Touch(g, s, a, i) /\ a.slots[i] = r /\ \A p, j : Armed(a, p, j) <=> Armed(s, p, j)
    BY <1>1, <1>2, <2>1, TouchWith
  <2> HIDE DEF a
  <2>3. /\ Touch(g, s, t, i) /\ t.slots = a.slots
        /\ \A p, j : Armed(t, p, j) <=> Armed(a, p, j) /\ ~(p \in {"wind_down"} /\ j = i)
    BY <2>2, TouchClear
  <2> HIDE DEF t
  <2> QED BY <1>4, <2>2, <2>3, ReplyStopKeeps DEF t, a
<1> QED BY <1>3, <1>4

\* A grace is over: the next signal is owed, or a person is told.
LEMMA GraceOverKeeps ==
  ASSUME NEW g, NEW s, Fine(g, s), NEW i \in Slots(s), NEW n \in {1, 2}, NEW q,
         q = IF n = 1 THEN "stop_grace_1" ELSE "stop_grace_2", Armed(s, q, i)
  PROVE  Keeps(g, s, GraceOver(Spent(s, q, i), i, n))
<1> DEFINE a == Spent(s, q, i)
           old == s.slots[i]
           l == [old.ladder EXCEPT !.fired = n]
           b == With(a, i, [old EXCEPT !.ladder = l])
           r == [old EXCEPT !.ladder = l,
                            !.condition = IF n = 2 /\ ~old.ladder.forced THEN "WouldNotStop" ELSE old.condition]
           t == GraceOver(a, i, n)
<1>1. /\ s \in StateSet(g) /\ old \in SlotSet(g) /\ i \in Nat /\ SlotOK(g, s, i)
      /\ s.withdrawn \in BOOLEAN /\ old.ladder \in LadderType
  BY SlotKnown
<1>2. /\ old.ladder.on /\ old.ladder.sent \in 1 .. 2 /\ old.ladder.fired < n /\ old.ladder.fired \in 0 .. 1
      /\ (n = 2 => old.ladder.sent = 2) /\ old.condition # "WouldNotStop"
  BY <1>1 DEF SlotOK, TimersFit, SlotFits, LadderFits, LadderType
<1>3. /\ Touch(g, s, a, i) /\ a.slots = s.slots
      /\ \A p, j : Armed(a, p, j) <=> Armed(s, p, j) /\ ~(p = q /\ j = i)
  BY <1>1, TouchSpent
<1>4. /\ l \in LadderType /\ l.on /\ l.forced = old.ladder.forced /\ l.sent = old.ladder.sent
      /\ l.total = old.ladder.total /\ l.fired = n
  BY <1>1, <1>2 DEF LadderType
<1> HIDE DEF l
<1>5. r \in SlotSet(g) /\ [old EXCEPT !.ladder = l] \in SlotSet(g)
  BY <1>1, <1>4 DEF SlotSet
<1> HIDE DEF a
<1>6. Touch(g, s, t, i) /\ t.slots[i] = r /\ \A p, j : Armed(t, p, j) <=> Armed(a, p, j)
  <2>1. [a EXCEPT !.slots[i].ladder.fired = IF old.ladder.on /\ old.ladder.fired < n THEN n ELSE old.ladder.fired] = b
    BY <1>2, <1>3 DEF With, l
  <2>2. t = IF n = 2 /\ ~old.ladder.forced THEN SetCondition(b, i, "WouldNotStop") ELSE b
    BY <1>3, <2>1 DEF GraceOver
  <2>3. Touch(g, s, b, i) /\ b.slots[i] = [old EXCEPT !.ladder = l] /\ \A p, j : Armed(b, p, j) <=> Armed(a, p, j)
    BY <1>3, <1>5, TouchWith
  <2> HIDE DEF b, t
  <2>4. CASE n = 2 /\ ~old.ladder.forced
    <3>1. SetCondition(b, i, "WouldNotStop") = With(b, i, [b.slots[i] EXCEPT !.condition = "WouldNotStop"])
      BY DEF SetCondition, With
    <3>2. [b.slots[i] EXCEPT !.condition = "WouldNotStop"] = r
      BY <1>1, <2>3, <2>4 DEF SlotSet
    <3>3. t = With(b, i, r)
      BY <2>2, <2>4, <3>1, <3>2
    <3> HIDE DEF r
    <3> QED BY <1>5, <2>3, <3>3, TouchWith
  <2>5. CASE ~(n = 2 /\ ~old.ladder.forced)
    <3>1. r = [old EXCEPT !.ladder = l]
      BY <1>1, <2>5 DEF SlotSet
    <3> QED BY <2>2, <2>3, <2>5, <3>1
  <2> QED BY <2>4, <2>5
<1>7. /\ r.ladder = l /\ r.at = old.at /\ r.open = old.open /\ r.restart = old.restart /\ r.live = old.live
      /\ r.blind = old.blind /\ r.sampling = old.sampling /\ r.logged = old.logged
      /\ r.step = old.step /\ r.visit = old.visit /\ r.member = old.member /\ r.attempt = old.attempt
      /\ r.restarts = old.restarts /\ r.escalate = old.escalate
      /\ r.condition = IF n = 2 /\ ~old.ladder.forced THEN "WouldNotStop" ELSE old.condition
  BY <1>1 DEF SlotSet
<1> HIDE DEF t, r
<1>8. s.phase # "Finished"
  BY ArmedIsUnfinished
<1>9. SlotFits(g, r, s.withdrawn, Over(s), Ready(s))
  <2>1. LadderFits(r, s.withdrawn)
    BY <1>1, <1>2, <1>4, <1>7 DEF LadderFits, LadderType, SlotOK, SlotFits
  <2> QED BY <1>1, <1>2, <1>4, <1>7, <2>1 DEF SlotOK, SlotFits, LadderFits, Talking
<1>10. TimersFit(t, i, r) /\ Watched(g, t, i, r)
  BY <1>1, <1>2, <1>3, <1>4, <1>6, <1>7 DEF TimersFit, Watched, LadderType, SlotOK, LadderFits, SlotFits
<1>11. \A p : Armed(t, p, i) => p \in SlotPurposes /\ (Over(s) => p \in StopPurposes)
  BY <1>3, <1>6, SlotKnown
<1> QED
  <2>1. Alike(s.slots[i], r)
    BY <1>1, <1>2, <1>7 DEF Alike, Busy, Live, Talking, SlotOK, SlotFits, LadderFits
  <2>2. Armed(t, "hold_retry", i) => Armed(s, "hold_retry", i)
    BY <1>3, <1>6
  <2> QED BY <1>6, <1>8, <1>9, <1>10, <1>11, <2>1, <2>2, ReplacedSteady DEF t, a

\* What the end of a process leaves of its slot.
EndedSlot(r, cause) ==
  LET bare == [r EXCEPT !.condition = "none", !.ladder = NoLadder, !.open = FALSE, !.restart = FALSE]
  IN  IF r.at = "Replied" THEN [bare EXCEPT !.live = FALSE] ELSE [bare EXCEPT !.at = "Ended", !.cause = cause]

LEMMA EndedSlotFacts ==
  ASSUME NEW g, NEW r \in SlotSet(g), NEW cause \in Causes, NEW e, e = EndedSlot(r, cause)
  PROVE  /\ e \in SlotSet(g) /\ e.condition = "none" /\ e.ladder = NoLadder /\ ~e.open /\ ~e.restart
         /\ e.at = (IF r.at = "Replied" THEN "Replied" ELSE "Ended") /\ (r.at = "Replied" => ~e.live)
         /\ (r.at # "Replied" => e.live = r.live /\ e.cause = cause)
         /\ e.step = r.step /\ e.visit = r.visit /\ e.member = r.member /\ e.attempt = r.attempt
         /\ e.escalate = r.escalate /\ e.rework = r.rework /\ e.restarts = r.restarts /\ e.holds = r.holds
         /\ e.fresh = r.fresh /\ e.blind = r.blind /\ e.sampling = r.sampling /\ e.logged = r.logged
<1>1. NoLadder \in LadderType
  BY NewLadderFacts
<1>2. CASE r.at = "Replied"
  BY <1>1, <1>2, ZenonT(60) DEF EndedSlot, SlotSet, States
<1>3. CASE r.at # "Replied"
  BY <1>1, <1>3, ZenonT(60) DEF EndedSlot, SlotSet, States
<1> QED BY <1>2, <1>3

LEMMA FoldEndedFacts ==
  ASSUME NEW g, NEW s, Fine(g, s), NEW i \in Slots(s), NEW cause \in Causes, NEW t, t = FoldEnded(s, i, cause)
  PROVE  /\ Touch(g, s, t, i) /\ t.slots[i] = EndedSlot(s.slots[i], cause)
         /\ \A p : ~Armed(t, p, i)
<1> DEFINE r == EndedSlot(s.slots[i], cause)
           a == With(s, i, r)
<1>1. s \in StateSet(g) /\ s.slots[i] \in SlotSet(g) /\ i \in Nat /\ Touch(g, s, s, i)
  BY SlotKnown, TouchSelf
<1>2. t = ClearSlotTimers(a, i)
  BY DEF FoldEnded, EndedSlot
<1>3. r \in SlotSet(g)
  BY <1>1, EndedSlotFacts
<1> HIDE DEF r
<1>4. Touch(g, s, a, i) /\ a.slots[i] = r
  BY <1>1, <1>3, TouchWith
<1> HIDE DEF a
<1> QED BY <1>2, <1>4, TouchClearSlot DEF r

LEMMA FoldEndedKeeps ==
  ASSUME NEW g, NEW s, Fine(g, s), NEW i \in Slots(s), Live(s.slots[i]), NEW cause \in Causes
  PROVE  Fine(g, FoldEnded(s, i, cause))
<1> DEFINE t == FoldEnded(s, i, cause)
           r == EndedSlot(s.slots[i], cause)
<1>1. /\ s \in StateSet(g) /\ s.slots[i] \in SlotSet(g) /\ i \in Nat /\ SlotOK(g, s, i)
  BY SlotKnown
<1>2. Touch(g, s, t, i) /\ t.slots[i] = r /\ \A p : ~Armed(t, p, i)
  BY FoldEndedFacts
<1>3. s.phase # "Finished"
  BY LiveIsUnfinished
<1> HIDE DEF t, r
<1>4. /\ r.condition = "none" /\ ~r.open /\ ~r.restart /\ r.ladder = NoLadder
      /\ r.at = (IF s.slots[i].at = "Replied" THEN "Replied" ELSE "Ended") /\ (s.slots[i].at = "Replied" => ~r.live)
      /\ (s.slots[i].at # "Replied" => r.live = s.slots[i].live)
      /\ r.blind = s.slots[i].blind /\ r.sampling = s.slots[i].sampling /\ r.logged = s.slots[i].logged
  BY <1>1, EndedSlotFacts DEF r
<1>5. SlotFits(g, r, s.withdrawn, Over(s), Ready(s))
  <2>1. ~r.ladder.on /\ r.ladder.sent = 0 /\ r.ladder.fired = 0 /\ r.ladder.total = 0 /\ r.at # "Stopping"
    BY <1>4, NewLadderFacts
  <2>2. LadderFits(r, s.withdrawn)
    BY <1>4, <2>1 DEF LadderFits
  <2>3. r.at # "Pending" => Ready(s)
    BY <1>1 DEF SlotOK, SlotFits, Live, Talking
  <2>4. r.live => r.at = "Replied"
    BY <1>1, <1>4 DEF SlotOK, SlotFits
  <2> QED BY <1>1, <1>4, <2>1, <2>2, <2>3, <2>4 DEF SlotOK, SlotFits
<1>6. TimersFit(t, i, r) /\ Watched(g, t, i, r)
  BY <1>1, <1>2, <1>4, NewLadderFacts DEF TimersFit, Watched, SlotOK, SlotFits
<1> QED BY <1>2, <1>3, <1>5, <1>6, Replaced DEF t

LEMMA SetConditionIsWith ==
  ASSUME NEW s, NEW i, NEW c
  PROVE  SetCondition(s, i, c) = With(s, i, [s.slots[i] EXCEPT !.condition = c])
BY DEF SetCondition, With

LEMMA ParkKeeps ==
  ASSUME NEW g, NEW s, Fine(g, s), NEW i \in Slots(s), s.phase # "Finished", s.slots[i].at = "Ended"
  PROVE  Fine(g, SetCondition(s, i, "Parked"))
<1> DEFINE r == [s.slots[i] EXCEPT !.condition = "Parked"]
           t == With(s, i, r)
<1>1. /\ s \in StateSet(g) /\ s.slots[i] \in SlotSet(g) /\ i \in Nat /\ SlotOK(g, s, i) /\ Touch(g, s, s, i)
  BY SlotKnown, TouchSelf
<1>2. r \in SlotSet(g)
  BY <1>1 DEF SlotSet
<1>3. Touch(g, s, t, i) /\ t.slots[i] = r /\ \A p, j : Armed(t, p, j) <=> Armed(s, p, j)
  BY <1>1, <1>2, TouchWith
<1> HIDE DEF t
<1>4. SlotFits(g, r, s.withdrawn, Over(s), Ready(s))
  BY <1>1 DEF SlotOK, SlotFits, LadderFits, Talking, SlotSet
<1>5. TimersFit(t, i, r) /\ Watched(g, t, i, r)
  BY <1>1, <1>3 DEF SlotOK, TimersFit, Watched, SlotSet
<1>6. \A p : Armed(t, p, i) => p \in SlotPurposes /\ (Over(s) => p \in StopPurposes)
  BY <1>3, SlotKnown
<1>7. Fine(g, t)
  BY <1>3, <1>4, <1>5, <1>6, Replaced
<1> QED BY <1>7, SetConditionIsWith DEF t

\* A hold waits for its retry, or parks when the budget is spent.
HeldSlot(r, named) == [r EXCEPT !.holds = r.holds + IF named THEN 0 ELSE 1, !.condition = "Held"]

LEMMA HoldFacts ==
  ASSUME NEW g, NEW s \in StateSet(g), NEW i \in Slots(s), s.slots[i] \in SlotSet(g), NEW named \in BOOLEAN,
         named \/ s.slots[i].holds < g.max_holds, g.max_holds \in Nat
  PROVE  LET t == SetTimer(SetCondition([s EXCEPT !.slots[i].holds = s.slots[i].holds + IF named THEN 0 ELSE 1],
                                        i, "Held"), "hold_retry", i)
         IN  /\ Touch(g, s, t, i) /\ t.slots[i] = HeldSlot(s.slots[i], named) /\ t.slots[i] \in SlotSet(g)
             /\ \A p : Armed(t, p, i) <=> Armed(s, p, i) \/ p = "hold_retry"
<1> DEFINE n == s.slots[i].holds + IF named THEN 0 ELSE 1
           c == [s.slots[i] EXCEPT !.holds = n]
           a == With(s, i, c)
           r == HeldSlot(s.slots[i], named)
           b == With(a, i, r)
           t == SetTimer(b, "hold_retry", i)
<1>1. n \in 0 .. g.max_holds
  BY DEF SlotSet
<1>2. Touch(g, s, s, i) /\ i \in Nat
  <2>1. i \in Nat
    BY DEF Slots, StateSet
  <2> QED BY <2>1, TouchSelf
<1>3. r = [s.slots[i] EXCEPT !.holds = n, !.condition = "Held"]
  BY DEF HeldSlot
<1> HIDE DEF n
<1>4. r \in SlotSet(g) /\ c \in SlotSet(g)
  BY <1>1, <1>3, ZenonT(60) DEF SlotSet
<1>5. [c EXCEPT !.condition = "Held"] = r
  BY <1>3 DEF SlotSet
<1>8. [s EXCEPT !.slots[i].holds = n] = a
  BY DEF With
<1> HIDE DEF r, c
<1>6. /\ Touch(g, s, a, i) /\ a.slots[i] = c
      /\ \A p, j : Armed(a, p, j) <=> Armed(s, p, j)
  BY <1>2, <1>4, TouchWith
<1>7. SetCondition(a, i, "Held") = b
  BY <1>5, <1>6, SetConditionIsWith
<1> HIDE DEF a
<1>9. Touch(g, s, b, i) /\ b.slots[i] = r /\ \A p, j : Armed(b, p, j) <=> Armed(a, p, j)
  BY <1>4, <1>6, TouchWith
<1> HIDE DEF b
<1>10. /\ Touch(g, s, t, i) /\ t.slots = b.slots
       /\ \A p, j : Armed(t, p, j) <=> Armed(b, p, j) \/ (p = "hold_retry" /\ j = i)
  <2>1. "hold_retry" \in SlotPurposes
    BY Purposes
  <2> QED BY <1>2, <1>9, <2>1, TouchSet
<1> HIDE DEF t
<1>11. t = SetTimer(SetCondition([s EXCEPT !.slots[i].holds = n], i, "Held"), "hold_retry", i)
  BY <1>7, <1>8 DEF t
<1> QED BY <1>4, <1>6, <1>9, <1>10, <1>11 DEF n, r

LEMMA HoldKeeps ==
  ASSUME NEW s, given \in DOMAIN Settings, Fine(Settings[given], s), NEW i \in Slots(s), ~Over(s),
         s.slots[i].at = "Ended", NEW named \in BOOLEAN
  PROVE  Fine(Settings[given], Hold(s, i, named))
<1> DEFINE g == Settings[given]
           t == SetTimer(SetCondition([s EXCEPT !.slots[i].holds = s.slots[i].holds + IF named THEN 0 ELSE 1],
                                      i, "Held"), "hold_retry", i)
           r == HeldSlot(s.slots[i], named)
<1>1. /\ s \in StateSet(g) /\ s.slots[i] \in SlotSet(g) /\ i \in Nat /\ SlotOK(g, s, i)
  BY SlotKnown
<1>2. g.max_holds \in Nat
  BY SettingsAssumption
<1>3. s.phase # "Finished"
  BY DEF Over
<1>4. CASE ~named /\ s.slots[i].holds >= g.max_holds
  <2>1. Hold(s, i, named) = SetCondition(s, i, "Parked")
    BY <1>4 DEF Hold, MaxHolds
  <2> QED BY <1>3, <2>1, ParkKeeps
<1>5. CASE ~(~named /\ s.slots[i].holds >= g.max_holds)
  <2>1. Hold(s, i, named) = t
    BY <1>5 DEF Hold, MaxHolds
  <2>2. named \/ s.slots[i].holds < g.max_holds
    BY <1>1, <1>2, <1>5 DEF SlotSet
  <2>3. /\ Touch(g, s, t, i) /\ t.slots[i] = r
        /\ \A p : Armed(t, p, i) <=> Armed(s, p, i) \/ p = "hold_retry"
    BY <1>1, <1>2, <2>2, HoldFacts
  <2> HIDE DEF t
  <2>4. /\ r.at = "Ended" /\ r.open = s.slots[i].open /\ r.restart = s.slots[i].restart /\ r.live = s.slots[i].live
        /\ r.ladder = s.slots[i].ladder /\ r.condition = "Held" /\ r.blind = s.slots[i].blind
        /\ r.sampling = s.slots[i].sampling /\ r.logged = s.slots[i].logged
    BY <1>1 DEF SlotSet, HeldSlot
  <2> HIDE DEF r
  <2>5. SlotFits(g, r, s.withdrawn, Over(s), Ready(s))
    BY <1>1, <2>4 DEF SlotOK, SlotFits, LadderFits, Talking
  <2>6. TimersFit(t, i, r) /\ Watched(g, t, i, r)
    BY <1>1, <2>3, <2>4 DEF SlotOK, TimersFit, Watched
  <2>7. \A p : Armed(t, p, i) => p \in SlotPurposes /\ (Over(s) => p \in StopPurposes)
    BY <2>3, SlotKnown, Purposes
  <2> QED BY <1>3, <2>1, <2>3, <2>5, <2>6, <2>7, Replaced
<1> QED BY <1>4, <1>5

\* A person has the stop tried again.
LEMMA ResumeStopKeeps ==
  ASSUME NEW g, NEW s, Fine(g, s), NEW i \in Slots(s), ~Over(s), s.slots[i].condition = "WouldNotStop",
         NEW a, a = SetCondition(s, i, "none")
  PROVE  Keeps(g, s, With(a, i, [a.slots[i] EXCEPT !.ladder = [s.slots[i].ladder EXCEPT !.sent = 0, !.fired = 0]]))
<1> DEFINE old == s.slots[i]
           c == [old EXCEPT !.condition = "none"]
           l == [old.ladder EXCEPT !.sent = 0, !.fired = 0]
           r == [c EXCEPT !.ladder = l]
           t == With(a, i, r)
<1>1. /\ s \in StateSet(g) /\ old \in SlotSet(g) /\ i \in Nat /\ SlotOK(g, s, i) /\ Touch(g, s, s, i)
      /\ old.ladder \in LadderType
  BY SlotKnown, TouchSelf
<1>2. /\ LadderFits(old, s.withdrawn) /\ TimersFit(s, i, old) /\ Watched(g, s, i, old)
      /\ SlotFits(g, old, s.withdrawn, Over(s), Ready(s))
  BY <1>1 DEF SlotOK, SlotFits
<1>3. old.ladder.on /\ old.ladder.sent = 2 /\ old.ladder.fired = 2
  BY <1>1, <1>2 DEF LadderFits, LadderType
<1>4. l \in LadderType /\ l.on /\ l.forced = old.ladder.forced /\ l.sent = 0 /\ l.fired = 0
      /\ l.total = old.ladder.total
  <2>1. l.on = old.ladder.on /\ l.forced = old.ladder.forced /\ l.sent = 0 /\ l.fired = 0 /\ l.total = old.ladder.total
    BY <1>1 DEF LadderType
  <2>2. 0 \in 0 .. 3 /\ 0 \in 0 .. 2
    OBVIOUS
  <2>3. l \in LadderType
    BY <1>1, <2>2 DEF LadderType
  <2> QED BY <1>3, <2>1, <2>3
<1>5. c \in SlotSet(g)
  BY <1>1 DEF SlotSet
<1> HIDE DEF l
<1>6. /\ r \in SlotSet(g) /\ r.ladder = l /\ r.at = old.at /\ r.open = old.open /\ r.restart = old.restart
      /\ r.live = old.live /\ r.blind = old.blind /\ r.sampling = old.sampling /\ r.logged = old.logged
      /\ r.condition = "none"
      /\ r.step = old.step /\ r.visit = old.visit /\ r.member = old.member /\ r.attempt = old.attempt
      /\ r.restarts = old.restarts /\ r.escalate = old.escalate
  BY <1>1, <1>4 DEF SlotSet
<1>7. Touch(g, s, a, i) /\ a.slots[i] = c /\ \A p, j : Armed(a, p, j) <=> Armed(s, p, j)
  <2> HIDE DEF c
  <2>1. a = With(s, i, c)
    BY SetConditionIsWith DEF c
  <2> QED BY <1>1, <1>5, <2>1, TouchWith
<1> HIDE DEF r
<1>8. Touch(g, s, t, i) /\ t.slots[i] = r /\ \A p, j : Armed(t, p, j) <=> Armed(a, p, j)
  <2>1. Touch(g, s, a, i)
    BY <1>7
  <2> QED BY <1>6, <2>1, TouchWith
<1> HIDE DEF t
<1>9. s.phase # "Finished"
  BY DEF Over
<1>10. SlotFits(g, r, s.withdrawn, Over(s), Ready(s))
  <2>1. LadderFits(r, s.withdrawn)
    BY <1>1, <1>2, <1>3, <1>4, <1>6 DEF LadderFits, LadderType
  <2> QED BY <1>2, <1>3, <1>4, <1>6, <2>1 DEF SlotFits, LadderFits, Talking
<1>11. TimersFit(t, i, r) /\ Watched(g, t, i, r)
  BY <1>1, <1>2, <1>3, <1>4, <1>6, <1>7, <1>8 DEF TimersFit, Watched, LadderType, LadderFits
<1>12. \A p : Armed(t, p, i) => p \in SlotPurposes /\ (Over(s) => p \in StopPurposes)
  BY <1>7, <1>8, SlotKnown
<1>13. Keeps(g, s, t)
  <2>1. Alike(s.slots[i], r)
    BY <1>2, <1>3, <1>6 DEF Alike, Busy, Live, Talking, LadderFits
  <2>2. Armed(t, "hold_retry", i) => Armed(s, "hold_retry", i)
    BY <1>7, <1>8
  <2> QED BY <1>8, <1>9, <1>10, <1>11, <1>12, <2>1, <2>2, ReplacedSteady
<1>14. [a.slots[i] EXCEPT !.ladder = [s.slots[i].ladder EXCEPT !.sent = 0, !.fired = 0]] = r
  BY <1>7 DEF r, l
<1> QED BY <1>13, <1>14 DEF t

\* --------------------------------------------------------- waking waiting slots

\* The slots arm_ready takes to Starting.
Wakes(s, i) ==
  /\ s.slots[i].at = "Pending" /\ ~PersonaLive(s, s.slots[i].member)
  /\ ~\E j \in 1 .. i - 1 : s.slots[j].at = "Pending" /\ s.slots[j].member = s.slots[i].member

LEMMA ArmReadyFacts ==
  ASSUME NEW g, NEW s \in StateSet(g), TreePrepared(s), NEW t, t = ArmReady(s)
  PROVE  /\ t \in StateSet(g) /\ RunSame(s, t) /\ Len(t.slots) = Len(s.slots)
         /\ \A i \in Slots(s) :
              t.slots[i] = IF Wakes(s, i) THEN [s.slots[i] EXCEPT !.at = "Starting"] ELSE s.slots[i]
         /\ \A p, i : Armed(t, p, i) <=> Armed(s, p, i) \/ (p = "start_deadline" /\ i \in Slots(s) /\ Wakes(s, i))
<1> DEFINE ready == {i \in Slots(s) : Wakes(s, i)}
           S == [i \in Slots(s) |-> IF i \in ready THEN [s.slots[i] EXCEPT !.at = "Starting"] ELSE s.slots[i]]
           T == s.timers \cup {<<"start_deadline", i>> : i \in ready}
<1>1. t = [s EXCEPT !.slots = S, !.timers = T]
  BY DEF ArmReady, Wakes
<1>2. s.slots \in Seq(SlotSet(g)) /\ Len(s.slots) \in Nat
  BY DEF StateSet
<1>3. \A i \in Slots(s) : S[i] \in SlotSet(g)
  <2>1. SUFFICES ASSUME NEW i \in Slots(s)
                 PROVE  s.slots[i] \in SlotSet(g) /\ [s.slots[i] EXCEPT !.at = "Starting"] \in SlotSet(g)
    OBVIOUS
  <2>2. s.slots[i] \in SlotSet(g)
    BY <1>2 DEF Slots
  <2> QED BY <2>2 DEF SlotSet, States
<1>4. S \in Seq(SlotSet(g)) /\ Len(S) = Len(s.slots)
  <2>1. S \in [1 .. Len(s.slots) -> SlotSet(g)]
    BY <1>3 DEF Slots
  <2> HIDE DEF S
  <2> QED BY <1>2, <2>1
<1>5. T \in SUBSET ((RunPurposes \cup SlotPurposes) \X Nat)
  <2>1. \A i \in ready : i \in Nat
    BY <1>2 DEF Slots
  <2> QED BY <2>1, Purposes DEF StateSet
<1>6. \A p, i : <<p, i>> \in T <=> <<p, i>> \in s.timers \/ (p = "start_deadline" /\ i \in ready)
  OBVIOUS
<1> HIDE DEF T
<1>7. \A i \in Slots(s) : S[i] = IF Wakes(s, i) THEN [s.slots[i] EXCEPT !.at = "Starting"] ELSE s.slots[i]
  OBVIOUS
<1> HIDE DEF S
<1>8. t \in StateSet(g)
  BY <1>1, <1>4, <1>5, ZenonT(60) DEF StateSet
<1>9. RunSame(s, t) /\ t.slots = S /\ t.timers = T
  BY <1>1 DEF StateSet, RunSame
<1> QED BY <1>4, <1>6, <1>7, <1>8, <1>9 DEF Armed

LEMMA ArmReadyKeeps ==
  ASSUME NEW g, NEW s, Fine(g, s)
  PROVE  Fine(g, ArmReady(s))
<1>1. CASE ~TreePrepared(s)
  BY <1>1 DEF ArmReady
<1>2. CASE TreePrepared(s)
  <2> DEFINE t == ArmReady(s)
  <2>1. s \in StateSet(g) /\ ~Over(s) /\ Ready(s)
    BY <1>2 DEF Fine, TreePrepared, Over, Ready
  <2>2. /\ t \in StateSet(g) /\ RunSame(s, t) /\ Len(t.slots) = Len(s.slots)
        /\ \A i \in Slots(s) :
             t.slots[i] = IF Wakes(s, i) THEN [s.slots[i] EXCEPT !.at = "Starting"] ELSE s.slots[i]
        /\ \A p, i : Armed(t, p, i) <=> Armed(s, p, i) \/ (p = "start_deadline" /\ i \in Slots(s) /\ Wakes(s, i))
    BY <1>2, <2>1, ArmReadyFacts
  <2> HIDE DEF t
  <2>3. Slots(t) = Slots(s) /\ ~Over(t) /\ Ready(t) /\ t.withdrawn = s.withdrawn
    BY <1>2, <2>1, <2>2 DEF Slots, Over, RunSame, Ready, TreePrepared
  <2>4. \A i \in Slots(s) : i # 0
    BY <2>1 DEF Slots
  <2>5. ASSUME NEW i \in Slots(t)
        PROVE  SlotOK(g, t, i)
    <3>1. SlotOK(g, s, i) /\ s.slots[i] \in SlotSet(g) /\ s.slots[i].ladder \in LadderType
      BY <2>3, <2>5, SlotKnown
    <3>2. CASE Wakes(s, i)
      <4> DEFINE r == [s.slots[i] EXCEPT !.at = "Starting"]
      <4>1. t.slots[i] = r
        BY <2>2, <2>3, <3>2
      <4>2. SlotFits(g, r, s.withdrawn, Over(t), Ready(t))
        BY <2>1, <2>3, <3>1, <3>2 DEF SlotOK, SlotFits, LadderFits, SlotSet, Wakes, Talking, LadderType
      <4>3. \A p : Armed(t, p, i) <=> Armed(s, p, i) \/ p = "start_deadline"
        BY <2>2, <2>3, <3>2
      <4>4. TimersFit(t, i, r) /\ Watched(g, t, i, r)
        BY <3>1, <3>2, <4>3 DEF SlotOK, SlotFits, LadderFits, SlotSet, Wakes, TimersFit, Watched
      <4> QED BY <2>3, <4>1, <4>2, <4>4 DEF SlotOK
    <3>3. CASE ~Wakes(s, i)
      <4>1. t.slots[i] = s.slots[i] /\ \A p : Armed(t, p, i) <=> Armed(s, p, i)
        BY <2>2, <2>3, <3>3
      <4>2. SlotFits(g, t.slots[i], t.withdrawn, Over(t), Ready(t))
        BY <2>1, <2>3, <3>1, <4>1 DEF SlotOK, SlotFits
      <4>3. TimersFit(t, i, t.slots[i]) /\ Watched(g, t, i, t.slots[i])
        BY <3>1, <4>1 DEF SlotOK, TimersFit, Watched
      <4> QED BY <4>2, <4>3 DEF SlotOK
    <3> QED BY <3>2, <3>3
  <2>6. DeadlinesFit(g, t)
    BY <2>2, <2>4 DEF Fine, RunOK, DeadlinesFit, RunSame
  <2>7. PhaseFits(t)
    BY <2>2, <2>3 DEF Fine, RunOK, PhaseFits, RunSame, Over
  <2>8. TimersTyped(t) /\ OnlyStops(t)
    BY <2>2, <2>3, Purposes DEF Fine, RunOK, TimersTyped, OnlyStops
  <2>9. NothingLeft(t) /\ QuestionsFit(g, t)
    BY <2>2, <2>3 DEF Fine, RunOK, NothingLeft, QuestionsFit, RunSame, Over
  <2> QED BY <2>2, <2>5, <2>6, <2>7, <2>8, <2>9 DEF Fine, RunOK, t
<1> QED BY <1>1, <1>2

\* ---------------------------------------------------------- new attempts of seats

\* A slot that was just started.
Newborn(r) ==
  /\ r.at = "Pending" /\ ~r.open /\ ~r.restart /\ ~r.escalate /\ ~r.live /\ r.ladder = NoLadder
  /\ r.condition = "none" /\ ~r.blind /\ ~r.sampling /\ r.logged = 0 /\ ~r.fresh

\* t has the slots of s and newborn ones, and runs.
Grown(g, s, t) ==
  /\ t \in StateSet(g) /\ Len(t.slots) >= Len(s.slots)
  /\ \A i \in Slots(s) : t.slots[i] = s.slots[i]
  /\ \A i \in Slots(t) : i \notin Slots(s) => Newborn(t.slots[i])
  /\ \A p, i : i # 0 => (Armed(t, p, i) <=> Armed(s, p, i))
  /\ t.phase = "Running" /\ t.commissioned = s.commissioned /\ t.tree = s.tree /\ t.withdrawn = s.withdrawn
  /\ t.outcome = s.outcome /\ t.current # NoStep /\ t.questions = s.questions /\ t.cancel_owed = s.cancel_owed

LEMMA GrownKeeps ==
  ASSUME NEW g, NEW s, Fine(g, s), s.phase \in {"Queued", "Running"}, NEW t, Grown(g, s, t),
         DeadlinesFit(g, t), \A p : Armed(t, p, 0) => p \in RunPurposes
  PROVE  Fine(g, t)
<1>1. s \in StateSet(g) /\ t \in StateSet(g) /\ ~Over(s) /\ ~Over(t) /\ s.commissioned
  BY DEF Fine, Grown, Over, RunOK, PhaseFits
<1>2. Slots(s) \subseteq Slots(t) /\ \A i \in Slots(t) : i # 0
  BY <1>1 DEF Slots, Grown, StateSet
<1>3. ASSUME NEW i \in Slots(t), i \in Slots(s)
      PROVE  SlotOK(g, t, i)
  <2>1. Len(s.slots) > 0
    BY <1>1, <1>3 DEF Slots, StateSet
  <2>2. s.phase = "Running"
    BY <1>1, <2>1 DEF Fine, RunOK, PhaseFits
  <2>3. (Ready(t) <=> Ready(s)) /\ t.withdrawn = s.withdrawn /\ t.slots[i] = s.slots[i]
    BY <1>1, <1>3, <2>2 DEF Ready, TreePrepared, Grown
  <2>4. \A p : Armed(t, p, i) <=> Armed(s, p, i)
    BY <1>2 DEF Grown
  <2>5. SlotOK(g, s, i)
    BY <1>3 DEF Fine
  <2>6. SlotFits(g, t.slots[i], t.withdrawn, Over(t), Ready(t))
    BY <1>1, <2>3, <2>5 DEF SlotOK, SlotFits
  <2>7. TimersFit(t, i, t.slots[i]) /\ Watched(g, t, i, t.slots[i])
    BY <2>3, <2>4, <2>5 DEF SlotOK, TimersFit, Watched
  <2> QED BY <2>6, <2>7 DEF SlotOK
<1>4. ASSUME NEW i \in Slots(t), i \notin Slots(s)
      PROVE  SlotOK(g, t, i)
  <2>1. Newborn(t.slots[i])
    BY <1>4 DEF Grown
  <2>2. \A p : ~Armed(t, p, i)
    BY <1>2, <1>4 DEF Grown, Fine, RunOK, TimersTyped
  <2>3. ~t.slots[i].ladder.on /\ ~t.slots[i].ladder.forced /\ t.slots[i].ladder.sent = 0
        /\ t.slots[i].ladder.fired = 0 /\ t.slots[i].ladder.total = 0
    BY <2>1, NewLadderFacts DEF Newborn
  <2>4. SlotFits(g, t.slots[i], t.withdrawn, Over(t), Ready(t))
    BY <1>1, <2>1, <2>3 DEF Newborn, SlotFits, LadderFits
  <2>5. TimersFit(t, i, t.slots[i]) /\ Watched(g, t, i, t.slots[i])
    BY <2>1, <2>2, <2>3 DEF Newborn, TimersFit, Watched
  <2> QED BY <2>4, <2>5 DEF SlotOK
<1>5. PhaseFits(t)
  BY <1>1 DEF Fine, RunOK, PhaseFits, Grown, Over
<1>6. TimersTyped(t) /\ OnlyStops(t)
  BY <1>1, <1>2 DEF Fine, RunOK, TimersTyped, OnlyStops, Grown
<1>7. NothingLeft(t) /\ QuestionsFit(g, t)
  BY <1>1, <1>2 DEF Fine, RunOK, NothingLeft, QuestionsFit, Grown, Over
<1> QED BY <1>1, <1>3, <1>4, <1>5, <1>6, <1>7 DEF Fine, RunOK

\* A set of places that is not empty has a last one.
LEMMA LastPlace ==
  ASSUME NEW n \in Nat, NEW S \in SUBSET (1 .. n), S # {}
  PROVE  \E i \in S : \A j \in S : j <= i
<1> DEFINE D == {k \in Nat : \E i \in S : k + i = n}
<1>1. D # {} /\ D \in SUBSET Nat
  <2>1. PICK i \in S : TRUE
    OBVIOUS
  <2>2. n - i \in Nat /\ (n - i) + i = n
    OBVIOUS
  <2> QED BY <2>2
<1>2. PICK k \in D : \A j \in D : ~(<<j, k>> \in OpToRel(<, Nat))
  BY <1>1, NatLessThanWellFounded, WFMin
<1>3. \A j \in D : ~(j < k)
  BY <1>1, <1>2, Zenon DEF OpToRel
<1>4. PICK i \in S : k + i = n
  BY <1>2
<1>5. ASSUME NEW j \in S
      PROVE  j <= i
  <2>1. n - j \in D
    OBVIOUS
  <2>2. ~(n - j < k) /\ k \in Nat
    BY <1>3, <2>1
  <2> QED BY <1>4, <2>2
<1> QED BY <1>5

\* The places of a seat, and the last of them.
OfSeat(s, step, visit, member) ==
  {i \in Slots(s) : s.slots[i].step = step /\ s.slots[i].visit = visit /\ s.slots[i].member = member}

LEMMA LatestFacts ==
  ASSUME NEW g, NEW s \in StateSet(g), NEW step, NEW visit, NEW member,
         NEW l, l = Latest(s, step, visit, member)
  PROVE  /\ OfSeat(s, step, visit, member) = {} => l = 0
         /\ OfSeat(s, step, visit, member) # {} =>
              l \in OfSeat(s, step, visit, member) /\ \A j \in OfSeat(s, step, visit, member) : j <= l
<1> DEFINE of == OfSeat(s, step, visit, member)
<1>1. l = IF of = {} THEN 0 ELSE CHOOSE i \in of : \A j \in of : j <= i
  BY DEF Latest, OfSeat
<1>2. of \in SUBSET (1 .. Len(s.slots)) /\ Len(s.slots) \in Nat
  BY DEF OfSeat, Slots, StateSet
<1> HIDE DEF of
<1>3. of # {} => \E i \in of : \A j \in of : j <= i
  BY <1>2, LastPlace
<1> QED BY <1>1, <1>3 DEF of

LEMMA NewSlotFacts ==
  ASSUME NEW g, NEW step \in g.step, NEW visit \in Nat, NEW member \in Persona \cup {Synth}, NEW attempt \in Nat,
         g.max_holds \in Nat, NEW r, r = NewSlot(step, visit, member, attempt)
  PROVE  /\ r \in SlotSet(g) /\ Newborn(r) /\ r.holds = 0 /\ r.restarts = 0
         /\ r.step = step /\ r.visit = visit /\ r.member = member /\ r.attempt = attempt
<1>1. NoLadder \in LadderType
  BY NewLadderFacts
<1>2. r \in SlotSet(g)
  BY <1>1 DEF NewSlot, SlotSet, States
<1>3. /\ r.at = "Pending" /\ ~r.open /\ ~r.restart /\ ~r.escalate /\ ~r.live /\ r.ladder = NoLadder
      /\ r.condition = "none" /\ ~r.blind /\ ~r.sampling /\ r.logged = 0 /\ ~r.fresh
      /\ r.holds = 0 /\ r.restarts = 0
  BY DEF NewSlot
<1>4. r.step = step /\ r.visit = visit /\ r.member = member /\ r.attempt = attempt
  BY DEF NewSlot
<1> QED BY <1>2, <1>3, <1>4 DEF Newborn

LEMMA NextRecordFacts ==
  ASSUME NEW g, NEW s \in StateSet(g), NEW step \in g.step, NEW visit \in Nat, NEW member \in Persona \cup {Synth},
         NEW attempt \in Nat, NEW answered, g.max_holds \in Nat,
         NEW r, r = NextRecord(s, step, visit, member, attempt, answered),
         NEW l, l = Latest(s, step, visit, member)
  PROVE  /\ r \in SlotSet(g) /\ Newborn(r)
         /\ r.step = step /\ r.visit = visit /\ r.member = member /\ r.attempt = attempt
         /\ (l = 0 \/ s.slots[l].fresh) => r.restarts = 0
         /\ ~(l = 0 \/ s.slots[l].fresh) =>
              r.restarts = s.slots[l].restarts +
                (IF answered \/ (s.slots[l].at = "Ended" /\ s.slots[l].cause \in HoldCauses) THEN 0 ELSE 1)
<1> DEFINE new == NewSlot(step, visit, member, attempt)
           n == s.slots[l].restarts + (IF answered \/ (s.slots[l].at = "Ended" /\ s.slots[l].cause \in HoldCauses) THEN 0 ELSE 1)
           m == s.slots[l].holds
<1>1. r = IF l = 0 \/ s.slots[l].fresh THEN new ELSE [new EXCEPT !.holds = m, !.restarts = n]
  BY DEF NextRecord
<1>2. /\ new \in SlotSet(g) /\ Newborn(new) /\ new.holds = 0 /\ new.restarts = 0
      /\ new.step = step /\ new.visit = visit /\ new.member = member /\ new.attempt = attempt
  BY NewSlotFacts
<1> HIDE DEF new
<1>3. CASE l = 0 \/ s.slots[l].fresh
  BY <1>1, <1>2, <1>3
<1>4. CASE ~(l = 0 \/ s.slots[l].fresh)
  <2>1. l \in Slots(s)
    BY <1>4, LatestFacts DEF OfSeat
  <2>2. s.slots[l] \in SlotSet(g)
    BY <2>1 DEF StateSet, Slots
  <2>3. m \in 0 .. g.max_holds /\ n \in Nat
    BY <2>2 DEF SlotSet
  <2> HIDE DEF m, n
  <2>4. r = [new EXCEPT !.holds = m, !.restarts = n]
    BY <1>1, <1>4
  <2>5. r \in SlotSet(g)
    BY <1>2, <2>3, <2>4 DEF SlotSet
  <2>6. /\ r.step = new.step /\ r.visit = new.visit /\ r.member = new.member /\ r.attempt = new.attempt
        /\ r.restarts = n
    BY <1>2, <2>4 DEF SlotSet
  <2>7. Newborn(r)
    BY <1>2, <2>4 DEF SlotSet, Newborn
  <2> QED BY <1>2, <1>4, <2>5, <2>6, <2>7 DEF n
<1> QED BY <1>3, <1>4

LEMMA Concatenated ==
  ASSUME NEW X, NEW a \in Seq(X), NEW b \in Seq(X)
  PROVE  /\ a \o b \in Seq(X) /\ Len(a \o b) = Len(a) + Len(b)
         /\ \A i \in 1 .. Len(a) : (a \o b)[i] = a[i]
         /\ \A k \in 1 .. Len(b) : (a \o b)[Len(a) + k] = b[k]
<1>1. a \o b \in Seq(X) /\ Len(a \o b) = Len(a) + Len(b) /\ Len(a) \in Nat /\ Len(b) \in Nat
  OBVIOUS
<1>2. \A i \in 1 .. Len(a) : (a \o b)[i] = a[i]
  OBVIOUS
<1>3. ASSUME NEW k \in 1 .. Len(b)
      PROVE  (a \o b)[Len(a) + k] = b[k]
  <2>1. Len(a) + k \in 1 .. (Len(a) + Len(b)) /\ ~(Len(a) + k <= Len(a)) /\ (Len(a) + k) - Len(a) = k
    BY <1>1
  <2> QED BY <2>1
<1> QED BY <1>1, <1>2, <1>3

\* step_started before its arm_ready.
Bare(s, step, visit, attempt, members, answered) ==
  [s EXCEPT
    !.phase = IF s.phase \in {"Queued", "Created"} THEN "Running" ELSE s.phase,
    !.visits[step] = visit, !.current = step,
    !.slots = s.slots \o [k \in 1 .. Len(members) |->
                      NextRecord(s, step, visit, members[k], attempt, answered)]]

\* t is s with the attempts of members in the visit, and all else as it was.
Appends(g, s, t, step, visit, attempt, members, answered) ==
  /\ Grown(g, s, t) /\ t.timers = s.timers /\ t.condition = s.condition /\ t.root_periods = s.root_periods
  /\ t.current = step /\ t.visits = [s.visits EXCEPT ![step] = visit] /\ t.passes = s.passes
  /\ t.root = s.root /\ t.park = s.park /\ t.delivered = s.delivered /\ t.behind = s.behind
  /\ Len(t.slots) = Len(s.slots) + Len(members)
  /\ \A k \in 1 .. Len(members) :
       t.slots[Len(s.slots) + k] = NextRecord(s, step, visit, members[k], attempt, answered)

LEMMA BareFacts ==
  ASSUME NEW g, NEW s \in StateSet(g), s.phase \in {"Queued", "Running"}, NEW step \in g.step, NEW visit \in Nat,
         NEW attempt \in Nat, NEW members \in Seq(Persona \cup {Synth}), NEW answered,
         g.max_holds \in Nat, NoStep \notin g.step
  PROVE  Appends(g, s, Bare(s, step, visit, attempt, members, answered), step, visit, attempt, members, answered)
<1> DEFINE F(k) == NextRecord(s, step, visit, members[k], attempt, answered)
           N == [k \in 1 .. Len(members) |-> F(k)]
           S == s.slots \o N
           V == [s.visits EXCEPT ![step] = visit]
           t == Bare(s, step, visit, attempt, members, answered)
<1>1. s.slots \in Seq(SlotSet(g)) /\ Len(s.slots) \in Nat /\ Len(members) \in Nat
  BY DEF StateSet
<1>2. \A k \in 1 .. Len(members) : F(k) \in SlotSet(g) /\ Newborn(F(k))
  <2>1. SUFFICES ASSUME NEW k \in 1 .. Len(members)
                 PROVE  F(k) \in SlotSet(g) /\ Newborn(F(k))
    OBVIOUS
  <2>2. members[k] \in Persona \cup {Synth}
    BY <1>1
  <2> DEFINE r == F(k)
             l == Latest(s, step, visit, members[k])
             m == members[k]
  <2>3. r = NextRecord(s, step, visit, m, attempt, answered) /\ l = Latest(s, step, visit, m)
        /\ m \in Persona \cup {Synth}
    BY <2>2
  <2> HIDE DEF r, l, m
  <2>4. r \in SlotSet(g) /\ Newborn(r)
    BY <2>3, NextRecordFacts
  <2> QED BY <2>4 DEF r
<1> HIDE DEF F
<1>3. N \in Seq(SlotSet(g)) /\ Len(N) = Len(members) /\ \A k \in 1 .. Len(members) : N[k] = F(k)
  BY <1>1, <1>2
<1> HIDE DEF N
<1>4. S \in Seq(SlotSet(g)) /\ Len(S) = Len(s.slots) + Len(members)
      /\ (\A i \in 1 .. Len(s.slots) : S[i] = s.slots[i])
      /\ (\A k \in 1 .. Len(members) : S[Len(s.slots) + k] = F(k))
  <2>1. /\ S \in Seq(SlotSet(g)) /\ Len(S) = Len(s.slots) + Len(N)
        /\ (\A i \in 1 .. Len(s.slots) : S[i] = s.slots[i])
        /\ (\A k \in 1 .. Len(N) : S[Len(s.slots) + k] = N[k])
    <3>1. N \in Seq(SlotSet(g)) /\ s.slots \in Seq(SlotSet(g)) /\ S = s.slots \o N
      BY <1>1, <1>3
    <3> HIDE DEF S
    <3> QED BY <3>1, Concatenated
  <2> HIDE DEF S
  <2> QED BY <1>3, <2>1
<1> HIDE DEF S
<1>5. V \in [g.step -> Nat]
  BY DEF StateSet
<1>6. t = [s EXCEPT !.phase = "Running", !.visits = V, !.current = step, !.slots = S]
  <2>1. (IF s.phase \in {"Queued", "Created"} THEN "Running" ELSE s.phase) = "Running"
    OBVIOUS
  <2> QED BY <2>1 DEF Bare, S, N, F
<1> HIDE DEF V, t
<1>7. t \in StateSet(g)
  <2>1. S \in Seq(SlotSet(g))
    BY <1>4
  <2>2. [s EXCEPT !.phase = "Running", !.visits = V, !.current = step, !.slots = S] \in StateSet(g)
    BY <1>5, <2>1 DEF StateSet
  <2> QED BY <1>6, <2>2
<1>8. /\ t.phase = "Running" /\ t.visits = V /\ t.current = step /\ t.slots = S /\ t.timers = s.timers
      /\ t.commissioned = s.commissioned /\ t.root = s.root /\ t.behind = s.behind /\ t.tree = s.tree
      /\ t.park = s.park /\ t.outcome = s.outcome /\ t.condition = s.condition /\ t.passes = s.passes
      /\ t.questions = s.questions /\ t.root_periods = s.root_periods /\ t.cancel_owed = s.cancel_owed
      /\ t.delivered = s.delivered /\ t.withdrawn = s.withdrawn
  BY <1>6 DEF StateSet
<1>9. \A i \in 1 .. Len(S) : i \notin 1 .. Len(s.slots) => Newborn(S[i])
  <2>1. SUFFICES ASSUME NEW i \in 1 .. Len(S), i \notin 1 .. Len(s.slots)
                 PROVE  Newborn(S[i])
    OBVIOUS
  <2>2. PICK k \in 1 .. Len(members) : i = Len(s.slots) + k
    <3>1. i \in Nat /\ i > Len(s.slots) /\ i <= Len(s.slots) + Len(members)
      BY <1>1, <1>4, <2>1
    <3>2. i - Len(s.slots) \in 1 .. Len(members) /\ i = Len(s.slots) + (i - Len(s.slots))
      BY <1>1, <3>1
    <3> QED BY <3>2
  <2> QED BY <1>2, <1>4, <2>2
<1>11. Grown(g, s, t)
  BY <1>1, <1>4, <1>7, <1>8, <1>9 DEF Grown, Slots, Armed
<1>12. Appends(g, s, t, step, visit, attempt, members, answered)
  BY <1>4, <1>8, <1>11 DEF F, V, Appends
<1> QED BY <1>12 DEF t

LEMMA StepStartedIs ==
  ASSUME NEW s, NEW step, NEW visit, NEW attempt, NEW members, NEW answered
  PROVE  StepStarted(s, step, visit, attempt, members, answered) =
           ArmReady(Bare(s, step, visit, attempt, members, answered))
BY DEF StepStarted, Bare

\* What is given.
LEMMA Given ==
  ASSUME given \in DOMAIN Settings, NEW g, g = Settings[given]
  PROVE  /\ g.first \in g.step /\ NoStep \notin g.step /\ g.fan_out \subseteq g.step
         /\ g.next \in [g.step -> g.step \cup {NoStep}] /\ g.rework \in [g.step -> g.step \cup {NoStep}]
         /\ g.max_passes \in [g.step -> Nat \ {0}]
         /\ g.members \in [g.step -> Seq(Persona)]
         /\ g.causes \subseteq Causes /\ g.may \subseteq Mays
         /\ g.max_attempts \in Nat \ {0} /\ g.max_holds \in Nat
BY SettingsAssumption

LEMMA StepStartedKeeps ==
  ASSUME NEW g, NEW s, Fine(g, s), s.phase = "Running", NEW step \in g.step, NEW visit \in Nat,
         NEW attempt \in Nat, NEW members \in Seq(Persona \cup {Synth}), NEW answered,
         g.max_holds \in Nat, NoStep \notin g.step
  PROVE  Fine(g, StepStarted(s, step, visit, attempt, members, answered))
<1> DEFINE t == Bare(s, step, visit, attempt, members, answered)
<1>1. s \in StateSet(g) /\ s.phase \in {"Queued", "Running"}
  BY DEF Fine
<1>2. Appends(g, s, t, step, visit, attempt, members, answered)
  BY <1>1, BareFacts
<1> HIDE DEF t
<1>3. DeadlinesFit(g, t)
  BY <1>2 DEF Appends, Grown, Fine, RunOK, DeadlinesFit, Armed
<1>4. \A p : Armed(t, p, 0) => p \in RunPurposes
  BY <1>1, <1>2 DEF Appends, Fine, RunOK, TimersTyped, Armed, Slots
<1>5. Fine(g, t)
  BY <1>1, <1>2, <1>3, <1>4, GrownKeeps DEF Appends
<1>6. Fine(g, ArmReady(t))
  BY <1>5, ArmReadyKeeps
<1> QED BY <1>6, StepStartedIs DEF t

\* ------------------------------------------------------------- the end of a run

LEMMA FinishedSlotFacts ==
  ASSUME NEW g, NEW r \in SlotSet(g), NEW w \in BOOLEAN, NEW f, f = FinishedSlot(r, w)
  PROVE  /\ f \in SlotSet(g) /\ f.condition = "none"
         /\ f.live = r.live /\ f.blind = r.blind /\ f.sampling = r.sampling /\ f.logged = r.logged
         /\ f.step = r.step /\ f.visit = r.visit /\ f.member = r.member /\ f.attempt = r.attempt
         /\ f.escalate = r.escalate /\ f.restarts = r.restarts /\ f.holds = r.holds
         /\ \/ r.at = "Pending" /\ f.at = "Ended" /\ f.ladder = r.ladder /\ f.open = r.open /\ f.restart = r.restart
            \/ /\ r.at = "Starting" \/ Talking(r)
               /\ f.at = "Stopping" /\ f.ladder = NewLadder(w) /\ ~f.open /\ f.restart = r.restart
            \/ /\ r.at \in {"Stopping", "Replied", "Ended"}
               /\ f.at = r.at /\ f.ladder = r.ladder /\ f.open = r.open /\ ~f.restart
<1>1. NewLadder(w) \in LadderType
  BY NewLadderFacts
<1>2. CASE r.at = "Pending"
  BY <1>2 DEF FinishedSlot, SlotSet, States, Causes
<1>3. CASE r.at = "Starting" \/ Talking(r)
  BY <1>1, <1>3, ZenonT(60) DEF FinishedSlot, SlotSet, States, Talking
<1>4. CASE r.at \in {"Stopping", "Replied", "Ended"}
  BY <1>4, ZenonT(60) DEF FinishedSlot, SlotSet, States, Talking
<1> QED BY <1>2, <1>3, <1>4 DEF SlotSet, States, Talking

\* t is s with its end decided: slots and timers as apply_finishing leaves them.
Ends(g, s, t, outcome) ==
  /\ t \in StateSet(g) /\ Len(t.slots) = Len(s.slots)
  /\ \A i \in Slots(s) : t.slots[i] = FinishedSlot(s.slots[i], s.withdrawn)
  /\ \A p, i : Armed(t, p, i) <=> Armed(s, p, i) /\ p \in StopPurposes
  /\ t.phase = "Finishing" /\ t.outcome = outcome /\ t.condition = "none" /\ ~t.cancel_owed
  /\ t.commissioned = s.commissioned /\ t.root = s.root /\ t.behind = s.behind /\ t.tree = s.tree
  /\ t.park = s.park /\ t.visits = s.visits /\ t.passes = s.passes /\ t.current = s.current
  /\ t.questions = s.questions /\ t.root_periods = s.root_periods /\ t.delivered = s.delivered
  /\ t.withdrawn = s.withdrawn

LEMMA FinishRunFacts ==
  ASSUME NEW g, NEW s \in StateSet(g), NEW outcome \in {"Delivered", "Accepted", "Withdrawn"}
  PROVE  Ends(g, s, FinishRun(s, outcome), outcome)
<1> DEFINE S == [i \in Slots(s) |-> FinishedSlot(s.slots[i], s.withdrawn)]
           T == {t \in s.timers : t[1] \in {"stop_grace_1", "stop_grace_2", "wind_down"}}
           t == FinishRun(s, outcome)
<1>1. t = [s EXCEPT !.phase = "Finishing", !.outcome = outcome, !.condition = "none", !.cancel_owed = FALSE,
                    !.slots = S, !.timers = T]
  BY DEF FinishRun
<1>2. s.slots \in Seq(SlotSet(g)) /\ Len(s.slots) \in Nat /\ s.withdrawn \in BOOLEAN
  BY DEF StateSet
<1>3. \A i \in Slots(s) : FinishedSlot(s.slots[i], s.withdrawn) \in SlotSet(g)
  <2>1. SUFFICES ASSUME NEW i \in Slots(s)
                 PROVE  FinishedSlot(s.slots[i], s.withdrawn) \in SlotSet(g)
    OBVIOUS
  <2>2. s.slots[i] \in SlotSet(g)
    BY <1>2 DEF Slots
  <2> QED BY <1>2, <2>2, FinishedSlotFacts
<1>4. S \in Seq(SlotSet(g)) /\ Len(S) = Len(s.slots)
  <2>1. S \in [1 .. Len(s.slots) -> SlotSet(g)]
    BY <1>3 DEF Slots
  <2> HIDE DEF S
  <2> QED BY <1>2, <2>1
<1>5. T \in SUBSET ((RunPurposes \cup SlotPurposes) \X Nat)
  BY DEF StateSet
<1>6. \A p, i : <<p, i>> \in T <=> <<p, i>> \in s.timers /\ p \in StopPurposes
  BY DEF StopPurposes
<1>7. \A i \in Slots(s) : S[i] = FinishedSlot(s.slots[i], s.withdrawn)
  OBVIOUS
<1> HIDE DEF T, S, t
<1>8. [s EXCEPT !.phase = "Finishing", !.outcome = outcome, !.condition = "none", !.cancel_owed = FALSE,
                !.slots = S, !.timers = T] \in StateSet(g)
  <2> DEFINE a == [s EXCEPT !.phase = "Finishing", !.outcome = outcome, !.condition = "none"]
             b == [a EXCEPT !.cancel_owed = FALSE, !.slots = S, !.timers = T]
  <2>1. a \in StateSet(g)
    BY ZenonT(60) DEF StateSet
  <2>2. b = [s EXCEPT !.phase = "Finishing", !.outcome = outcome, !.condition = "none", !.cancel_owed = FALSE,
                      !.slots = S, !.timers = T]
    OBVIOUS
  <2> HIDE DEF a
  <2>3. b \in StateSet(g)
    BY <1>4, <1>5, <2>1, ZenonT(60) DEF StateSet
  <2> QED BY <2>2, <2>3
<1>9. /\ t.slots = S /\ t.timers = T /\ t.phase = "Finishing" /\ t.outcome = outcome /\ t.condition = "none"
      /\ t.cancel_owed = FALSE
      /\ t.commissioned = s.commissioned /\ t.root = s.root /\ t.behind = s.behind /\ t.tree = s.tree
      /\ t.park = s.park /\ t.visits = s.visits /\ t.passes = s.passes /\ t.current = s.current
      /\ t.questions = s.questions /\ t.root_periods = s.root_periods /\ t.delivered = s.delivered
      /\ t.withdrawn = s.withdrawn
  BY <1>1 DEF StateSet
<1>10. Ends(g, s, t, outcome)
  BY <1>1, <1>4, <1>6, <1>7, <1>8, <1>9 DEF Ends, Armed
<1> QED BY <1>10 DEF t

LEMMA FinishRunKeeps ==
  ASSUME NEW g, NEW s, Fine(g, s), ~Over(s), s.commissioned, NEW outcome \in {"Delivered", "Accepted", "Withdrawn"}
  PROVE  Fine(g, FinishRun(s, outcome))
<1> DEFINE t == FinishRun(s, outcome)
<1>1. s \in StateSet(g) /\ Ends(g, s, t, outcome)
  BY FinishRunFacts DEF Fine
<1> HIDE DEF t
<1>2. Slots(t) = Slots(s) /\ Over(t) /\ Ready(t) /\ t.withdrawn = s.withdrawn /\ t.phase # "Finished"
  BY <1>1 DEF Ends, Slots, Over, Ready
<1>3. ASSUME NEW i \in Slots(t)
      PROVE  SlotOK(g, t, i)
  <2> DEFINE r == s.slots[i]
             f == t.slots[i]
  <2>1. /\ SlotOK(g, s, i) /\ r \in SlotSet(g) /\ r.ladder \in LadderType /\ s.withdrawn \in BOOLEAN
        /\ f = FinishedSlot(r, s.withdrawn) /\ i # 0
    BY <1>1, <1>2, <1>3, SlotKnown DEF Ends
  <2>2. \A p : Armed(t, p, i) <=> Armed(s, p, i) /\ p \in StopPurposes
    BY <1>1 DEF Ends
  <2> HIDE DEF f
  <2>3. /\ f.condition = "none" /\ f.live = r.live /\ f.blind = r.blind /\ f.sampling = r.sampling
        /\ f.logged = r.logged
    BY <2>1, FinishedSlotFacts
  <2>4. /\ NewLadder(s.withdrawn).on /\ NewLadder(s.withdrawn).forced = s.withdrawn
        /\ NewLadder(s.withdrawn).sent = 0 /\ NewLadder(s.withdrawn).fired = 0 /\ NewLadder(s.withdrawn).total = 0
    BY <2>1, NewLadderFacts
  <2>5. CASE r.at = "Pending" /\ f.at = "Ended" /\ f.ladder = r.ladder /\ f.open = r.open /\ f.restart = r.restart
    <3>1. SlotFits(g, f, s.withdrawn, Over(t), Ready(t))
      BY <1>2, <2>1, <2>3, <2>5 DEF SlotOK, SlotFits, LadderFits, Talking, LadderType
    <3>2. TimersFit(t, i, f) /\ Watched(g, t, i, f)
      BY <2>1, <2>2, <2>3, <2>5 DEF SlotOK, SlotFits, LadderFits, TimersFit, Watched, StopPurposes
    <3> QED BY <1>2, <3>1, <3>2 DEF SlotOK, f
  <2>6. CASE /\ r.at = "Starting" \/ Talking(r)
             /\ f.at = "Stopping" /\ f.ladder = NewLadder(s.withdrawn) /\ ~f.open /\ f.restart = r.restart
    <3>1. SlotFits(g, f, s.withdrawn, Over(t), Ready(t))
      BY <1>2, <2>1, <2>3, <2>4, <2>6 DEF SlotOK, SlotFits, LadderFits, Talking, LadderType
    <3>2. TimersFit(t, i, f) /\ Watched(g, t, i, f)
      BY <2>1, <2>2, <2>3, <2>4, <2>6 DEF SlotOK, SlotFits, LadderFits, TimersFit, Watched, StopPurposes, Talking
    <3> QED BY <1>2, <3>1, <3>2 DEF SlotOK, f
  <2>7. CASE /\ r.at \in {"Stopping", "Replied", "Ended"}
             /\ f.at = r.at /\ f.ladder = r.ladder /\ f.open = r.open /\ ~f.restart
    <3>1. SlotFits(g, f, s.withdrawn, Over(t), Ready(t))
      BY <1>2, <2>1, <2>3, <2>7 DEF SlotOK, SlotFits, LadderFits, Talking, LadderType
    <3>2. TimersFit(t, i, f) /\ Watched(g, t, i, f)
      BY <2>1, <2>2, <2>3, <2>7 DEF SlotOK, SlotFits, LadderFits, TimersFit, Watched, StopPurposes
    <3> QED BY <1>2, <3>1, <3>2 DEF SlotOK, f
  <2> QED BY <2>1, <2>5, <2>6, <2>7, FinishedSlotFacts
<1>4. DeadlinesFit(g, t)
  BY <1>1 DEF Ends, Fine, RunOK, DeadlinesFit, StopPurposes
<1>5. PhaseFits(t)
  BY <1>1, <1>2 DEF Ends, PhaseFits, Over
<1>6. TimersTyped(t) /\ OnlyStops(t)
  BY <1>1, <1>2 DEF Ends, Fine, RunOK, TimersTyped, OnlyStops
<1>7. NothingLeft(t) /\ QuestionsFit(g, t)
  BY <1>1, <1>2 DEF Ends, Fine, RunOK, NothingLeft, QuestionsFit
<1> QED BY <1>1, <1>3, <1>4, <1>5, <1>6, <1>7 DEF Fine, RunOK, t, Ends

\* A withdrawal forces every stop under way.
ForcedSlot(r) ==
  [r EXCEPT !.ladder.forced = r.ladder.on,
            !.condition = IF r.condition = "WouldNotStop" THEN "none" ELSE r.condition]

Forcing(s) == [s EXCEPT !.withdrawn = TRUE, !.slots = [i \in Slots(s) |-> ForcedSlot(s.slots[i])]]

LEMMA ForcedSlotFacts ==
  ASSUME NEW g, NEW r \in SlotSet(g), NEW f, f = ForcedSlot(r)
  PROVE  /\ f \in SlotSet(g) /\ f.condition = (IF r.condition = "WouldNotStop" THEN "none" ELSE r.condition)
         /\ f.ladder.on = r.ladder.on /\ f.ladder.forced = r.ladder.on /\ f.ladder.sent = r.ladder.sent
         /\ f.ladder.fired = r.ladder.fired /\ f.ladder.total = r.ladder.total
         /\ f.at = r.at /\ f.open = r.open /\ f.restart = r.restart /\ f.cause = r.cause
         /\ f.live = r.live /\ f.blind = r.blind /\ f.sampling = r.sampling /\ f.logged = r.logged
         /\ f.step = r.step /\ f.visit = r.visit /\ f.member = r.member /\ f.attempt = r.attempt
         /\ f.escalate = r.escalate /\ f.restarts = r.restarts /\ f.holds = r.holds
<1> DEFINE l == [r.ladder EXCEPT !.forced = r.ladder.on]
           c == IF r.condition = "WouldNotStop" THEN "none" ELSE r.condition
<1>1. r.ladder \in LadderType
  BY DEF SlotSet
<1>2. /\ l \in LadderType /\ l.on = r.ladder.on /\ l.forced = r.ladder.on /\ l.sent = r.ladder.sent
      /\ l.fired = r.ladder.fired /\ l.total = r.ladder.total
  BY <1>1 DEF LadderType
<1>3. f = [r EXCEPT !.ladder = l, !.condition = c]
  BY DEF ForcedSlot
<1>4. c \in {"none", "Held", "Parked", "WouldNotStop"}
  BY DEF SlotSet
<1> HIDE DEF l, c
<1>5. f \in SlotSet(g)
  BY <1>2, <1>3, <1>4 DEF SlotSet
<1>6. /\ f.ladder = l /\ f.condition = c
      /\ f.at = r.at /\ f.open = r.open /\ f.restart = r.restart /\ f.cause = r.cause
      /\ f.live = r.live /\ f.blind = r.blind /\ f.sampling = r.sampling /\ f.logged = r.logged
      /\ f.step = r.step /\ f.visit = r.visit /\ f.member = r.member /\ f.attempt = r.attempt
      /\ f.escalate = r.escalate /\ f.restarts = r.restarts /\ f.holds = r.holds
  BY <1>3 DEF SlotSet
<1> QED BY <1>2, <1>5, <1>6 DEF c

LEMMA ForceFacts ==
  ASSUME NEW g, NEW s \in StateSet(g), NEW t, t = Forcing(s)
  PROVE  /\ t \in StateSet(g) /\ Len(t.slots) = Len(s.slots) /\ t.withdrawn = TRUE /\ t.timers = s.timers
         /\ RunSame([s EXCEPT !.withdrawn = TRUE], t)
         /\ \A i \in Slots(s) : t.slots[i] = ForcedSlot(s.slots[i])
<1> DEFINE S == [i \in Slots(s) |-> ForcedSlot(s.slots[i])]
<1>1. s.slots \in Seq(SlotSet(g)) /\ Len(s.slots) \in Nat
  BY DEF StateSet
<1>2. \A i \in Slots(s) : ForcedSlot(s.slots[i]) \in SlotSet(g)
  <2>1. SUFFICES ASSUME NEW i \in Slots(s)
                 PROVE  ForcedSlot(s.slots[i]) \in SlotSet(g)
    OBVIOUS
  <2>2. s.slots[i] \in SlotSet(g)
    BY <1>1 DEF Slots
  <2> QED BY <2>2, ForcedSlotFacts
<1>3. S \in Seq(SlotSet(g)) /\ Len(S) = Len(s.slots)
  <2>1. S \in [1 .. Len(s.slots) -> SlotSet(g)]
    BY <1>2 DEF Slots
  <2> HIDE DEF S
  <2> QED BY <1>1, <2>1
<1>4. t = [s EXCEPT !.withdrawn = TRUE, !.slots = S]
  BY DEF Forcing
<1>5. \A i \in Slots(s) : S[i] = ForcedSlot(s.slots[i])
  OBVIOUS
<1> HIDE DEF S
<1>6. t \in StateSet(g)
  BY <1>3, <1>4, ZenonT(60) DEF StateSet
<1>7. t.slots = S /\ t.withdrawn = TRUE /\ t.timers = s.timers
  BY <1>4 DEF StateSet
<1>8. RunSame([s EXCEPT !.withdrawn = TRUE], t)
  BY <1>4 DEF StateSet, RunSame
<1> QED BY <1>3, <1>5, <1>6, <1>7, <1>8

LEMMA ForceKeeps ==
  ASSUME NEW g, NEW s, Fine(g, s), s.phase # "Finished"
  PROVE  Keeps(g, s, Forcing(s))
<1> DEFINE t == Forcing(s)
<1>0. s \in StateSet(g)
  BY DEF Fine
<1>1. /\ t \in StateSet(g) /\ Len(t.slots) = Len(s.slots) /\ t.withdrawn = TRUE /\ t.timers = s.timers
      /\ RunSame([s EXCEPT !.withdrawn = TRUE], t)
      /\ \A i \in Slots(s) : t.slots[i] = ForcedSlot(s.slots[i])
  BY <1>0, ForceFacts
<1> HIDE DEF t
<1>2. /\ t.phase = s.phase /\ t.commissioned = s.commissioned /\ t.root = s.root /\ t.tree = s.tree /\ t.outcome = s.outcome
      /\ t.condition = s.condition /\ t.current = s.current /\ t.questions = s.questions
      /\ t.root_periods = s.root_periods /\ t.cancel_owed = s.cancel_owed
  BY <1>0, <1>1 DEF RunSame, StateSet
<1>3. /\ Slots(t) = Slots(s) /\ (Over(t) <=> Over(s)) /\ (Ready(t) <=> Ready(s))
      /\ \A p, i : Armed(t, p, i) <=> Armed(s, p, i)
  BY <1>1, <1>2 DEF Slots, Over, Ready, TreePrepared, Armed
<1>4. ASSUME NEW i \in Slots(t)
      PROVE  SlotOK(g, t, i)
  <2> DEFINE r == s.slots[i]
             f == t.slots[i]
  <2>1. /\ SlotOK(g, s, i) /\ r \in SlotSet(g) /\ r.ladder \in LadderType
        /\ f = ForcedSlot(r)
    BY <1>1, <1>3, <1>4, SlotKnown
  <2> HIDE DEF f
  <2>2. /\ f.condition = (IF r.condition = "WouldNotStop" THEN "none" ELSE r.condition)
        /\ f.ladder.on = r.ladder.on /\ f.ladder.forced = r.ladder.on /\ f.ladder.sent = r.ladder.sent
        /\ f.ladder.fired = r.ladder.fired /\ f.ladder.total = r.ladder.total
        /\ f.at = r.at /\ f.open = r.open /\ f.restart = r.restart
        /\ f.live = r.live /\ f.blind = r.blind /\ f.sampling = r.sampling /\ f.logged = r.logged
    BY <2>1, ForcedSlotFacts
  <2>3. LadderFits(f, TRUE)
    BY <2>1, <2>2 DEF SlotOK, SlotFits, LadderFits, LadderType
  <2>4. SlotFits(g, f, TRUE, Over(t), Ready(t))
    BY <1>3, <2>1, <2>2, <2>3 DEF SlotOK, SlotFits, Talking
  <2>5. TimersFit(t, i, f) /\ Watched(g, t, i, f)
    BY <1>3, <2>1, <2>2 DEF SlotOK, TimersFit, Watched
  <2> QED BY <1>1, <2>4, <2>5 DEF SlotOK, f
<1>5. DeadlinesFit(g, t)
  BY <1>2, <1>3 DEF Fine, RunOK, DeadlinesFit
<1>6. PhaseFits(t)
  BY <1>1, <1>2, <1>3 DEF Fine, RunOK, PhaseFits
<1>7. TimersTyped(t) /\ OnlyStops(t)
  BY <1>3 DEF Fine, RunOK, TimersTyped, OnlyStops
<1>8. NothingLeft(t) /\ QuestionsFit(g, t)
  BY <1>2, <1>3 DEF Fine, RunOK, NothingLeft, QuestionsFit
<1>9. Fine(g, t)
  BY <1>1, <1>4, <1>5, <1>6, <1>7, <1>8 DEF Fine, RunOK
<1>10. ASSUME NEW i \in Slots(s)
       PROVE  Alike(s.slots[i], t.slots[i])
  <2> DEFINE r == s.slots[i]
             f == t.slots[i]
  <2>1. r \in SlotSet(g) /\ f = ForcedSlot(r) /\ SlotFits(g, r, s.withdrawn, Over(s), Ready(s))
    BY <1>1, SlotKnown DEF SlotOK
  <2> HIDE DEF f
  <2>2. /\ f.condition = (IF r.condition = "WouldNotStop" THEN "none" ELSE r.condition)
        /\ f.at = r.at /\ f.restart = r.restart /\ f.cause = r.cause /\ f.live = r.live
        /\ f.step = r.step /\ f.visit = r.visit /\ f.member = r.member /\ f.attempt = r.attempt
        /\ f.escalate = r.escalate /\ f.restarts = r.restarts
    BY <2>1, ForcedSlotFacts
  <2>3. r.at = "Ended" => r.condition # "WouldNotStop"
    BY <2>1 DEF SlotFits, LadderFits
  <2> QED BY <2>2, <2>3 DEF Alike, Busy, Live, Talking, f
<1>11. t.visits = s.visits /\ t.passes = s.passes
  BY <1>0, <1>1 DEF RunSame, StateSet
<1>12. SameQuestions(s, t) /\ (TreePrepared(t) => TreePrepared(s))
  BY <1>2 DEF SameQuestions, TreePrepared
<1>13. Steady(s, t)
  BY <1>1, <1>2, <1>3, <1>10, <1>11, <1>12 DEF Steady
<1> QED BY <1>9, <1>13 DEF Keeps, t

\* --------------------------------------------------------------------- routing

\* The slots and their timers are left alone.
Calm(g, s, t) ==
  /\ t \in StateSet(g) /\ t.slots = s.slots /\ t.withdrawn = s.withdrawn
  /\ (Over(t) <=> Over(s)) /\ (Ready(s) => Ready(t))
  /\ \A p, i : i # 0 => (Armed(t, p, i) <=> Armed(s, p, i))

LEMMA CalmKeeps ==
  ASSUME NEW g, NEW s, Fine(g, s), NEW t, Calm(g, s, t), RunOK(g, t)
  PROVE  Fine(g, t)
<1>1. Slots(t) = Slots(s) /\ t \in StateSet(g) /\ t.withdrawn = s.withdrawn /\ t.slots = s.slots
  BY DEF Calm, Slots
<1>2. ASSUME NEW i \in Slots(t)
      PROVE  SlotOK(g, t, i)
  <2>1. SlotOK(g, s, i) /\ i # 0
    BY <1>1, <1>2, SlotKnown
  <2>2. \A p : Armed(t, p, i) <=> Armed(s, p, i)
    BY <2>1 DEF Calm
  <2>3. SlotFits(g, t.slots[i], t.withdrawn, Over(t), Ready(t))
    BY <1>1, <2>1 DEF SlotOK, SlotFits, Calm
  <2>4. TimersFit(t, i, t.slots[i]) /\ Watched(g, t, i, t.slots[i])
    BY <1>1, <2>1, <2>2 DEF SlotOK, TimersFit, Watched
  <2> QED BY <2>3, <2>4 DEF SlotOK
<1> QED BY <1>1, <1>2 DEF Fine

\* t is s with one question more.
Asks(g, s, t, asked, i, step, pass) ==
  /\ t \in StateSet(g) /\ t.slots = s.slots /\ t.timers = s.timers
  /\ t.phase = s.phase /\ t.commissioned = s.commissioned /\ t.root = s.root /\ t.behind = s.behind
  /\ t.tree = s.tree /\ t.park = s.park /\ t.outcome = s.outcome /\ t.condition = s.condition
  /\ t.visits = s.visits /\ t.passes = s.passes /\ t.current = s.current
  /\ t.root_periods = s.root_periods /\ t.cancel_owed = s.cancel_owed /\ t.delivered = s.delivered
  /\ t.withdrawn = s.withdrawn
  /\ Len(t.questions) = Len(s.questions) + 1
  /\ \A k \in 1 .. Len(s.questions) : t.questions[k] = s.questions[k]
  /\ t.questions[Len(s.questions) + 1] =
       [asked |-> asked, slot |-> i, step |-> step, visit |-> s.visits[step], pass |-> pass,
        answered |-> FALSE, delivered |-> FALSE]

LEMMA AskFacts ==
  ASSUME NEW g, NEW s \in StateSet(g), NEW asked \in {"escalation", "ceiling"}, NEW i \in Nat,
         NEW step \in g.step, NEW pass \in Nat
  PROVE  Asks(g, s, Ask(s, asked, i, step, pass), asked, i, step, pass)
<1> DEFINE q == [asked |-> asked, slot |-> i, step |-> step, visit |-> s.visits[step], pass |-> pass,
                 answered |-> FALSE, delivered |-> FALSE]
           Q == Append(s.questions, q)
           t == Ask(s, asked, i, step, pass)
<1>1. s.questions \in Seq(QuestionSet(g)) /\ s.visits[step] \in Nat
  BY DEF StateSet
<1>2. q \in QuestionSet(g)
  BY <1>1 DEF QuestionSet
<1>3. t = [s EXCEPT !.questions = Q]
  BY DEF Ask
<1> HIDE DEF q, t
<1>4. /\ Q \in Seq(QuestionSet(g)) /\ Len(Q) = Len(s.questions) + 1 /\ Q[Len(s.questions) + 1] = q
      /\ \A k \in 1 .. Len(s.questions) : Q[k] = s.questions[k]
  BY <1>1, <1>2
<1> HIDE DEF Q
<1>5. t \in StateSet(g)
  BY <1>3, <1>4 DEF StateSet
<1>6. /\ t.slots = s.slots /\ t.timers = s.timers
      /\ t.phase = s.phase /\ t.commissioned = s.commissioned /\ t.root = s.root /\ t.behind = s.behind
      /\ t.tree = s.tree /\ t.park = s.park /\ t.outcome = s.outcome /\ t.condition = s.condition
      /\ t.visits = s.visits /\ t.passes = s.passes /\ t.current = s.current
      /\ t.root_periods = s.root_periods /\ t.cancel_owed = s.cancel_owed /\ t.delivered = s.delivered
      /\ t.withdrawn = s.withdrawn /\ t.questions = Q
  BY <1>3 DEF StateSet
<1>7. Asks(g, s, t, asked, i, step, pass)
  BY <1>4, <1>5, <1>6 DEF q, Asks
<1> QED BY <1>7 DEF t

LEMMA AskKeeps ==
  ASSUME NEW g, NEW s, Fine(g, s), s.phase # "Finished", NEW asked \in {"escalation", "ceiling"}, NEW i \in Nat,
         asked = "escalation" => i \in Slots(s), NEW step \in g.step, NEW pass \in Nat,
         Slots(s) # {}, asked = "ceiling" => g.rework[step] # NoStep
  PROVE  Fine(g, Ask(s, asked, i, step, pass))
<1> DEFINE t == Ask(s, asked, i, step, pass)
<1>1. s \in StateSet(g)
  BY DEF Fine
<1>2. Asks(g, s, t, asked, i, step, pass)
  BY <1>1, AskFacts
<1> HIDE DEF t
<1>3. /\ Len(t.questions) = Len(s.questions) + 1
      /\ \A k \in 1 .. Len(s.questions) : t.questions[k] = s.questions[k]
      /\ t.questions[Len(s.questions) + 1].asked = asked /\ t.questions[Len(s.questions) + 1].slot = i
      /\ t.questions[Len(s.questions) + 1].step = step
  BY <1>2 DEF Asks
<1>4. /\ Slots(t) = Slots(s) /\ (Over(t) <=> Over(s)) /\ (Ready(t) <=> Ready(s))
      /\ \A p, j : Armed(t, p, j) <=> Armed(s, p, j)
  BY <1>2 DEF Asks, Slots, Over, Ready, TreePrepared, Armed
<1>5. Calm(g, s, t)
  BY <1>2, <1>4 DEF Asks, Calm
<1>6. DeadlinesFit(g, t)
  BY <1>2, <1>4 DEF Asks, Fine, RunOK, DeadlinesFit
<1>7. PhaseFits(t)
  BY <1>2, <1>4 DEF Asks, Fine, RunOK, PhaseFits
<1>8. TimersTyped(t) /\ OnlyStops(t) /\ NothingLeft(t)
  BY <1>2, <1>4 DEF Asks, Fine, RunOK, TimersTyped, OnlyStops, NothingLeft
<1>9. QuestionsFit(g, t)
  <2>1. \A k \in 1 .. Len(t.questions) : k \in 1 .. Len(s.questions) \/ k = Len(s.questions) + 1
    <3>1. Len(s.questions) \in Nat
      BY <1>1 DEF StateSet
    <3> QED BY <1>3, <3>1
  <2> QED BY <1>3, <1>4, <2>1 DEF Fine, RunOK, QuestionsFit
<1>10. Fine(g, t)
  BY <1>5, <1>6, <1>7, <1>8, <1>9, CalmKeeps DEF RunOK
<1> QED BY <1>10 DEF t

\* The count of passes of a step.
Counted(s, step, pass) == [s EXCEPT !.passes[step] = pass]

Counts(g, s, t, step, pass) ==
  /\ t \in StateSet(g) /\ t.passes = [s.passes EXCEPT ![step] = pass]
  /\ t.slots = s.slots /\ t.timers = s.timers
  /\ t.phase = s.phase /\ t.commissioned = s.commissioned /\ t.root = s.root /\ t.behind = s.behind
  /\ t.tree = s.tree /\ t.park = s.park /\ t.outcome = s.outcome /\ t.condition = s.condition
  /\ t.visits = s.visits /\ t.current = s.current /\ t.questions = s.questions
  /\ t.root_periods = s.root_periods /\ t.cancel_owed = s.cancel_owed /\ t.delivered = s.delivered
  /\ t.withdrawn = s.withdrawn

LEMMA CountedFacts ==
  ASSUME NEW g, NEW s \in StateSet(g), NEW step \in g.step, NEW pass \in Nat
  PROVE  Counts(g, s, Counted(s, step, pass), step, pass)
<1> DEFINE P == [s.passes EXCEPT ![step] = pass]
           t == Counted(s, step, pass)
<1>1. P \in [g.step -> Nat]
  BY DEF StateSet
<1>2. t = [s EXCEPT !.passes = P]
  BY DEF Counted
<1> HIDE DEF P, t
<1>3. t \in StateSet(g)
  BY <1>1, <1>2 DEF StateSet
<1>4. /\ t.passes = P /\ t.slots = s.slots /\ t.timers = s.timers
      /\ t.phase = s.phase /\ t.commissioned = s.commissioned /\ t.root = s.root /\ t.behind = s.behind
      /\ t.tree = s.tree /\ t.park = s.park /\ t.outcome = s.outcome /\ t.condition = s.condition
      /\ t.visits = s.visits /\ t.current = s.current /\ t.questions = s.questions
      /\ t.root_periods = s.root_periods /\ t.cancel_owed = s.cancel_owed /\ t.delivered = s.delivered
      /\ t.withdrawn = s.withdrawn
  BY <1>2 DEF StateSet
<1>5. Counts(g, s, t, step, pass)
  BY <1>3, <1>4 DEF P, Counts
<1> QED BY <1>5 DEF t

LEMMA CountedKeeps ==
  ASSUME NEW g, NEW s, Fine(g, s), NEW step \in g.step, NEW pass \in Nat
  PROVE  Fine(g, Counted(s, step, pass)) /\ Counted(s, step, pass).phase = s.phase
<1> DEFINE t == Counted(s, step, pass)
<1>1. s \in StateSet(g)
  BY DEF Fine
<1>2. Counts(g, s, t, step, pass)
  BY <1>1, CountedFacts
<1> HIDE DEF t
<1>3. /\ Slots(t) = Slots(s) /\ (Over(t) <=> Over(s)) /\ (Ready(t) <=> Ready(s)) /\ (AnyLive(t) <=> AnyLive(s))
      /\ \A p, j : Armed(t, p, j) <=> Armed(s, p, j)
  BY <1>2 DEF Counts, Slots, Over, Ready, TreePrepared, Armed, AnyLive
<1>4. Calm(g, s, t)
  BY <1>2, <1>3 DEF Counts, Calm
<1>5. DeadlinesFit(g, t)
  BY <1>2, <1>3 DEF Counts, Fine, RunOK, DeadlinesFit
<1>6. PhaseFits(t)
  BY <1>2, <1>3 DEF Counts, Fine, RunOK, PhaseFits
<1>7. TimersTyped(t) /\ OnlyStops(t) /\ NothingLeft(t) /\ QuestionsFit(g, t)
  BY <1>2, <1>3 DEF Counts, Fine, RunOK, TimersTyped, OnlyStops, NothingLeft, QuestionsFit
<1>8. Fine(g, t)
  BY <1>4, <1>5, <1>6, <1>7, CalmKeeps DEF RunOK
<1> QED BY <1>2, <1>8 DEF t, Counts

LEMMA MembersTyped ==
  ASSUME given \in DOMAIN Settings, NEW step \in Settings[given].step
  PROVE  Members[step] \in Seq(Persona \cup {Synth})
<1>1. Members[step] \in Seq(Persona)
  BY Given DEF Members
<1> QED BY <1>1

LEMMA RestartKeeps ==
  ASSUME NEW s, given \in DOMAIN Settings, Fine(Settings[given], s), s.phase = "Running", NEW i \in Slots(s), NEW answered
  PROVE  Fine(Settings[given], Restart(s, i, answered))
<1> DEFINE g == Settings[given]
           r == s.slots[i]
<1>1. r \in SlotSet(g) /\ g.max_holds \in Nat /\ NoStep \notin g.step
  BY SlotKnown, Given
<1>2. r.step \in g.step /\ r.visit \in Nat /\ r.attempt + 1 \in Nat /\ r.member \in Persona \cup {Synth}
  BY <1>1 DEF SlotSet
<1>3. <<r.member>> \in Seq(Persona \cup {Synth})
  BY <1>2
<1>4. Fine(g, StepStarted(s, r.step, r.visit, r.attempt + 1, <<r.member>>, answered))
  BY <1>1, <1>2, <1>3, StepStartedKeeps
<1> QED BY <1>4 DEF Restart

LEMMA StartStepKeeps ==
  ASSUME NEW s, given \in DOMAIN Settings, Fine(Settings[given], s), s.phase = "Running", NEW step \in Settings[given].step
  PROVE  Fine(Settings[given], StartStep(s, step))
<1> DEFINE g == Settings[given]
<1>1. s.visits[step] + 1 \in Nat /\ 1 \in Nat
  BY DEF Fine, StateSet
<1>2. Members[step] \in Seq(Persona \cup {Synth}) /\ g.max_holds \in Nat /\ NoStep \notin g.step
  BY MembersTyped, Given
<1>3. Fine(g, StepStarted(s, step, s.visits[step] + 1, 1, Members[step], FALSE))
  BY <1>1, <1>2, StepStartedKeeps
<1> QED BY <1>3 DEF StartStep

LEMMA ReworkKeeps ==
  ASSUME NEW s, given \in DOMAIN Settings, Fine(Settings[given], s), s.phase = "Running", NEW step \in Settings[given].step,
         ReworkTo[step] # NoStep, NEW pass \in Nat
  PROVE  Fine(Settings[given], Rework(s, step, pass))
<1>1. ReworkTo[step] \in Settings[given].step
  BY Given DEF ReworkTo
<1>2. Fine(Settings[given], Counted(s, step, pass)) /\ Counted(s, step, pass).phase = "Running"
  BY CountedKeeps
<1>3. Fine(Settings[given], StartStep(Counted(s, step, pass), ReworkTo[step]))
  BY <1>1, <1>2, StartStepKeeps
<1> QED BY <1>3 DEF Rework, Counted

LEMMA OnwardKeeps ==
  ASSUME NEW s, given \in DOMAIN Settings, Fine(Settings[given], s), s.phase = "Running", NEW step \in Settings[given].step,
         NEW outcome \in {"Delivered", "Accepted"}
  PROVE  Fine(Settings[given], Onward(s, step, outcome))
<1>1. CASE NextStep[step] = NoStep
  <2>1. ~Over(s) /\ s.commissioned
    BY DEF Over, Fine, RunOK, PhaseFits
  <2>2. Fine(Settings[given], FinishRun(s, outcome))
    BY <2>1, FinishRunKeeps
  <2> QED BY <1>1, <2>2 DEF Onward
<1>2. CASE NextStep[step] # NoStep
  <2>1. NextStep[step] \in Settings[given].step
    BY <1>2, Given DEF NextStep
  <2>2. Fine(Settings[given], StartStep(s, NextStep[step]))
    BY <2>1, StartStepKeeps
  <2> QED BY <1>2, <2>2 DEF Onward
<1> QED BY <1>1, <1>2

LEMMA FinishStepKeeps ==
  ASSUME NEW s, given \in DOMAIN Settings, Fine(Settings[given], s), s.phase = "Running", NEW step \in Settings[given].step,
         NEW rework, Slots(s) # {}
  PROVE  Fine(Settings[given], FinishStep(s, step, rework))
<1> DEFINE pass == s.passes[step] + 1
<1>1. pass \in Nat
  BY DEF Fine, StateSet
<1> HIDE DEF pass
<1>2. CASE rework /\ ReworkTo[step] # NoStep /\ pass <= MaxPasses[step]
  <2>1. Fine(Settings[given], Rework(s, step, pass))
    BY <1>1, <1>2, ReworkKeeps
  <2> QED BY <1>2, <2>1 DEF FinishStep, pass
<1>3. CASE rework /\ ReworkTo[step] # NoStep /\ ~(pass <= MaxPasses[step])
  <2>1. Settings[given].rework[step] # NoStep
    BY <1>3 DEF ReworkTo
  <2>2. Fine(Settings[given], Ask(s, "ceiling", 0, step, pass))
    BY <1>1, <2>1, AskKeeps
  <2> QED BY <1>3, <2>2 DEF FinishStep, pass
<1>4. CASE ~(rework /\ ReworkTo[step] # NoStep)
  <2>1. Fine(Settings[given], Onward(s, step, "Delivered"))
    BY OnwardKeeps
  <2> QED BY <1>4, <2>1 DEF FinishStep
<1> QED BY <1>2, <1>3, <1>4

LEMMA AfterReplyKeeps ==
  ASSUME NEW s, given \in DOMAIN Settings, Fine(Settings[given], s), s.phase = "Running", NEW i \in Slots(s)
  PROVE  Fine(Settings[given], AfterReply(s, i))
<1> DEFINE g == Settings[given]
           step == s.slots[i].step
           visit == s.slots[i].visit
           rework == \E m \in {Members[step][k] : k \in 1 .. Len(Members[step])} :
                       s.slots[Latest(s, step, visit, m)].rework
<1>1. step \in g.step /\ visit \in Nat /\ g.max_holds \in Nat /\ NoStep \notin g.step /\ 1 \in Nat
  BY SlotKnown, Given DEF SlotSet
<1>2. <<Synth>> \in Seq(Persona \cup {Synth})
  BY SMTT(30)
<1> HIDE DEF rework
<1>3. \/ AfterReply(s, i) = s
      \/ AfterReply(s, i) = StepStarted(s, step, visit, 1, <<Synth>>, FALSE)
      \/ AfterReply(s, i) = FinishStep(s, step, rework)
  BY DEF AfterReply, rework
<1>4. Fine(g, StepStarted(s, step, visit, 1, <<Synth>>, FALSE))
  BY <1>1, <1>2, StepStartedKeeps
<1>5. Fine(g, FinishStep(s, step, rework))
  BY <1>1, FinishStepKeeps
<1> QED BY <1>3, <1>4, <1>5

\* -------------------------------------------------------- inputs about the run

\* All but slots and timers of t, in terms of s.
RunIs(s, t, phase, commissioned, root, tree, park, condition, periods, owed) ==
  /\ t.phase = phase /\ t.commissioned = commissioned /\ t.root = root /\ t.tree = tree /\ t.park = park
  /\ t.condition = condition /\ t.root_periods = periods /\ t.cancel_owed = owed
  /\ t.outcome = s.outcome /\ t.visits = s.visits /\ t.passes = s.passes /\ t.current = s.current
  /\ t.questions = s.questions /\ t.withdrawn = s.withdrawn /\ t.slots = s.slots

LEMMA CalmSteady ==
  ASSUME NEW g, NEW s, Fine(g, s), NEW t, Calm(g, s, t), RunOK(g, t), TreePrepared(t) => TreePrepared(s),
         t.visits = s.visits, t.passes = s.passes, t.current = s.current, t.outcome = s.outcome,
         t.questions = s.questions
  PROVE  Keeps(g, s, t)
<1>1. Fine(g, t)
  BY CalmKeeps
<1>2. \A i \in Slots(s) : Armed(t, "hold_retry", i) => Armed(s, "hold_retry", i)
  BY DEF Calm, Slots
<1>3. SameQuestions(s, t)
  BY DEF SameQuestions
<1>4. Steady(s, t)
  BY <1>2, <1>3, SteadyRun DEF Calm
<1> QED BY <1>1, <1>4 DEF Keeps

LEMMA NewPhase ==
  ASSUME NEW g, NEW s \in StateSet(g), NEW phase \in {"Created", "Queued", "Running", "Finishing", "Finished"}
  PROVE  [s EXCEPT !.phase = phase] \in StateSet(g)
BY ZenonT(60) DEF StateSet

LEMMA NewCondition ==
  ASSUME NEW g, NEW s \in StateSet(g), NEW condition \in {"none", "root_failed", "tree_refused", "poison"}
  PROVE  [s EXCEPT !.condition = condition] \in StateSet(g)
BY ZenonT(60) DEF StateSet

LEMMA CommissionedKeeps ==
  ASSUME NEW g, NEW s, Fine(g, s), ~s.commissioned, g.max_attempts \in Nat \ {0}
  PROVE  Keeps(g, s, SetTimer([s EXCEPT !.commissioned = TRUE], "root_deadline", 0))
<1> DEFINE a == [s EXCEPT !.commissioned = TRUE]
           t == SetTimer(a, "root_deadline", 0)
<1>1. s \in StateSet(g) /\ s.phase = "Created" /\ s.root_periods = 0 /\ s.condition = "none"
  BY DEF Fine, RunOK, PhaseFits, DeadlinesFit
<1>2. a \in StateSet(g)
  BY <1>1 DEF StateSet
<1>3. a.timers = s.timers /\ RunIs(s, a, s.phase, TRUE, s.root, s.tree, s.park, s.condition, s.root_periods, s.cancel_owed)
  BY <1>1 DEF StateSet, RunIs
<1> HIDE DEF a
<1>4. /\ t \in StateSet(g) /\ RunSame(a, t) /\ t.slots = a.slots
      /\ \A p, j : Armed(t, p, j) <=> Armed(a, p, j) \/ (p = "root_deadline" /\ j = 0)
  BY <1>2, SetTimerFacts DEF RunPurposes
<1> HIDE DEF t
<1>5. \A p, j : Armed(t, p, j) <=> Armed(s, p, j) \/ (p = "root_deadline" /\ j = 0)
  BY <1>3, <1>4 DEF Armed
<1>6. RunIs(s, t, s.phase, TRUE, s.root, s.tree, s.park, s.condition, s.root_periods, s.cancel_owed)
  BY <1>3, <1>4 DEF RunIs, RunSame
<1>7. Calm(g, s, t) /\ Slots(t) = Slots(s) /\ ~Over(t)
  BY <1>1, <1>4, <1>5, <1>6 DEF RunIs, Calm, Over, Ready, TreePrepared, Slots
<1>8. DeadlinesFit(g, t)
  BY <1>1, <1>5, <1>6 DEF RunIs, Fine, RunOK, DeadlinesFit
<1>9. PhaseFits(t)
  BY <1>1, <1>6, <1>7 DEF RunIs, Fine, RunOK, PhaseFits, Over
<1>10. TimersTyped(t) /\ OnlyStops(t) /\ NothingLeft(t) /\ QuestionsFit(g, t)
  BY <1>1, <1>5, <1>6, <1>7 DEF RunIs, Fine, RunOK, TimersTyped, OnlyStops, NothingLeft, QuestionsFit, RunPurposes
<1>11. Keeps(g, s, t)
  BY <1>7, <1>8, <1>9, <1>10, <1>6, CalmSteady DEF RunOK, RunIs, TreePrepared
<1> QED BY <1>11 DEF t, a

LEMMA RootOpenedKeeps ==
  ASSUME NEW g, NEW s, Fine(g, s), s.commissioned, ~s.root, s.phase \in {"Created", "Finishing"},
         NEW o, o = [s EXCEPT !.root = TRUE, !.condition = "none"]
  PROVE  Keeps(g, s, IF s.phase = "Finishing" THEN o
                 ELSE ClearTimers([o EXCEPT !.phase = "Queued"], {"root_deadline"}, 0))
<1>1. s \in StateSet(g)
  BY DEF Fine
<1>2. o \in StateSet(g)
  BY <1>1, ZenonT(60) DEF StateSet
<1>3. o.timers = s.timers /\ RunIs(s, o, s.phase, s.commissioned, TRUE, s.tree, s.park, "none", s.root_periods, s.cancel_owed)
  BY <1>1 DEF StateSet, RunIs
<1>4. CASE s.phase = "Finishing"
  <2>1. Calm(g, s, o) /\ Slots(o) = Slots(s) /\ (Over(o) <=> Over(s)) /\ \A p, j : Armed(o, p, j) <=> Armed(s, p, j)
    BY <1>2, <1>3 DEF RunIs, Calm, Over, Ready, TreePrepared, Slots, Armed
  <2>2. DeadlinesFit(g, o)
    BY <1>1, <1>3, <1>4, <2>1 DEF RunIs, Fine, RunOK, DeadlinesFit
  <2>3. PhaseFits(o)
    BY <1>3, <1>4, <2>1 DEF RunIs, Fine, RunOK, PhaseFits
  <2>4. TimersTyped(o) /\ OnlyStops(o) /\ NothingLeft(o) /\ QuestionsFit(g, o)
    <3>1. TimersTyped(s) /\ OnlyStops(s) /\ QuestionsFit(g, s)
      BY DEF Fine, RunOK
    <3>2. TimersTyped(o)
      BY <2>1, <3>1 DEF TimersTyped
    <3>3. OnlyStops(o)
      BY <2>1, <3>1 DEF OnlyStops
    <3>4. NothingLeft(o)
      BY <1>3, <1>4 DEF RunIs, NothingLeft
    <3>5. QuestionsFit(g, o)
      BY <1>3, <2>1, <3>1 DEF RunIs, QuestionsFit
    <3> QED BY <3>2, <3>3, <3>4, <3>5
  <2>5. Keeps(g, s, o)
    BY <2>1, <2>2, <2>3, <2>4, <1>3, CalmSteady DEF RunOK, RunIs, TreePrepared
  <2> QED BY <1>4, <2>5
<1>5. CASE s.phase = "Created"
  <2> DEFINE a == [o EXCEPT !.phase = "Queued"]
             t == ClearTimers(a, {"root_deadline"}, 0)
  <2>1. a \in StateSet(g)
    BY <1>2, NewPhase
  <2>2. a.timers = s.timers /\ RunIs(s, a, "Queued", s.commissioned, TRUE, s.tree, s.park, "none", s.root_periods, s.cancel_owed)
    <3>1. a.timers = o.timers /\ RunIs(o, a, "Queued", o.commissioned, o.root, o.tree, o.park, o.condition, o.root_periods, o.cancel_owed)
      BY <1>2 DEF StateSet, RunIs
    <3> HIDE DEF a
    <3> QED BY <1>3, <3>1 DEF RunIs
  <2> HIDE DEF a
  <2>3. /\ t \in StateSet(g) /\ RunSame(a, t) /\ t.slots = a.slots
        /\ \A p, j : Armed(t, p, j) <=> Armed(a, p, j) /\ ~(p \in {"root_deadline"} /\ j = 0)
    BY <2>1, ClearTimersFacts
  <2> HIDE DEF t
  <2>4. \A p, j : Armed(t, p, j) <=> Armed(s, p, j) /\ ~(p = "root_deadline" /\ j = 0)
    BY <2>2, <2>3 DEF Armed
  <2>5. RunIs(s, t, "Queued", s.commissioned, TRUE, s.tree, s.park, "none", s.root_periods, s.cancel_owed)
    BY <2>2, <2>3 DEF RunIs, RunSame
  <2>6. Calm(g, s, t) /\ Slots(t) = Slots(s) /\ ~Over(t) /\ ~Over(s)
    BY <1>5, <2>3, <2>4, <2>5 DEF RunIs, Calm, Over, Ready, TreePrepared, Slots
  <2>7. DeadlinesFit(g, t)
    BY <1>1, <1>5, <2>4, <2>5 DEF RunIs, Fine, RunOK, DeadlinesFit
  <2>8. PhaseFits(t)
    BY <1>5, <2>5, <2>6 DEF RunIs, Fine, RunOK, PhaseFits
  <2>9. TimersTyped(t) /\ OnlyStops(t) /\ NothingLeft(t) /\ QuestionsFit(g, t)
    BY <2>4, <2>5, <2>6 DEF RunIs, Fine, RunOK, TimersTyped, OnlyStops, NothingLeft, QuestionsFit
  <2>10. Keeps(g, s, t)
    BY <2>6, <2>7, <2>8, <2>9, <1>5, <2>5, CalmSteady DEF RunOK, RunIs, TreePrepared
  <2> QED BY <1>5, <2>10 DEF t, a
<1> QED BY <1>4, <1>5

\* The claim: the first visit starts and the window of the tree opens.
LEMMA ClaimTakenKeeps ==
  ASSUME NEW s, given \in DOMAIN Settings, Fine(Settings[given], s), s.phase = "Queued"
  PROVE  Fine(Settings[given], SetTimer(StartStep([s EXCEPT !.behind = "none"], First), "tree_window", 0))
<1> DEFINE g == Settings[given]
           a == [s EXCEPT !.behind = "none"]
           v == a.visits[First] + 1
           b == Bare(a, First, v, 1, Members[First], FALSE)
           t == SetTimer(b, "tree_window", 0)
<1>1. s \in StateSet(g) /\ First \in g.step /\ s.tree = "Unprepared" /\ g.max_holds \in Nat /\ NoStep \notin g.step
  BY Given DEF Fine, RunOK, PhaseFits, StateSet, Over, First
<1>2. a \in StateSet(g)
  BY <1>1, ZenonT(60) DEF StateSet
<1>3. /\ a.timers = s.timers
      /\ RunIs(s, a, s.phase, s.commissioned, s.root, s.tree, s.park, s.condition, s.root_periods, s.cancel_owed)
  BY <1>1 DEF StateSet, RunIs
<1> HIDE DEF a
<1>4. Members[First] \in Seq(Persona \cup {Synth}) /\ v \in Nat /\ 1 \in Nat /\ a.phase \in {"Queued", "Running"}
  BY <1>1, <1>2, <1>3, MembersTyped DEF StateSet, RunIs
<1>5. Appends(g, a, b, First, v, 1, Members[First], FALSE)
  BY <1>1, <1>2, <1>4, BareFacts
<1>6. StartStep(a, First) = ArmReady(b)
  BY StepStartedIs DEF StartStep
<1> HIDE DEF b, v
<1>7. b \in StateSet(g) /\ b.phase = "Running" /\ b.tree = "Unprepared"
  BY <1>1, <1>3, <1>5 DEF Appends, Grown, RunIs
<1>8. ArmReady(b) = b
  BY <1>7 DEF ArmReady, TreePrepared
<1>9. /\ t \in StateSet(g) /\ RunSame(b, t) /\ t.slots = b.slots
      /\ \A p, j : Armed(t, p, j) <=> Armed(b, p, j) \/ (p = "tree_window" /\ j = 0)
  BY <1>7, SetTimerFacts DEF RunPurposes
<1> HIDE DEF t
<1>10. \A p, j : Armed(t, p, j) <=> Armed(s, p, j) \/ (p = "tree_window" /\ j = 0)
  BY <1>3, <1>5, <1>9 DEF Appends, Armed
<1>11. Grown(g, s, t)
  <2>1. Grown(g, a, b) /\ a.slots = s.slots /\ Slots(a) = Slots(s)
    BY <1>3, <1>5 DEF Appends, RunIs, Slots
  <2>2. \A p, j : j # 0 => (Armed(t, p, j) <=> Armed(s, p, j))
    BY <1>10
  <2> QED BY <1>3, <1>9, <2>1, <2>2 DEF Grown, RunIs, RunSame, Slots
<1>12. DeadlinesFit(g, t)
  BY <1>1, <1>3, <1>5, <1>9, <1>10 DEF Appends, Grown, RunIs, RunSame, Fine, RunOK, DeadlinesFit
<1>13. \A p : Armed(t, p, 0) => p \in RunPurposes
  BY <1>1, <1>10 DEF Fine, RunOK, TimersTyped, Slots, RunPurposes
<1>14. Fine(g, t)
  BY <1>11, <1>12, <1>13, GrownKeeps
<1> QED BY <1>6, <1>8, <1>14 DEF t, a

LEMMA ClaimBusyKeeps ==
  ASSUME NEW g, NEW s, Fine(g, s), NEW h \in Holder \cup {"none"}, s.phase = "Queued"
  PROVE  Keeps(g, s, [s EXCEPT !.behind = h])
<1> DEFINE t == [s EXCEPT !.behind = h]
<1>1. s \in StateSet(g)
  BY DEF Fine
<1>2. t \in StateSet(g)
  BY <1>1, ZenonT(60) DEF StateSet
<1>3. /\ t.timers = s.timers
      /\ RunIs(s, t, s.phase, s.commissioned, s.root, s.tree, s.park, s.condition, s.root_periods, s.cancel_owed)
  BY <1>1 DEF StateSet, RunIs
<1> HIDE DEF t
<1>4. Calm(g, s, t) /\ Slots(t) = Slots(s) /\ ~Over(t) /\ ~Over(s) /\ \A p, j : Armed(t, p, j) <=> Armed(s, p, j)
  BY <1>2, <1>3 DEF RunIs, Calm, Over, Ready, TreePrepared, Slots, Armed
<1>5. DeadlinesFit(g, t) /\ PhaseFits(t)
  BY <1>3, <1>4 DEF RunIs, Fine, RunOK, DeadlinesFit, PhaseFits
<1>6. TimersTyped(t) /\ OnlyStops(t) /\ NothingLeft(t) /\ QuestionsFit(g, t)
  BY <1>3, <1>4 DEF RunIs, Fine, RunOK, TimersTyped, OnlyStops, NothingLeft, QuestionsFit
<1>7. Keeps(g, s, t)
  BY <1>4, <1>5, <1>6, <1>3, CalmSteady DEF RunOK, RunIs, TreePrepared
<1> QED BY <1>7 DEF t

TreeReady(s) ==
  ClearTimers([s EXCEPT !.tree = "Prepared", !.condition = "none", !.cancel_owed = FALSE], {"tree_window"}, 0)

LEMMA TreeReadyFacts ==
  ASSUME NEW g, NEW s, Fine(g, s), s.phase = "Running", s.tree = "Unprepared", NEW t, t = TreeReady(s)
  PROVE  Fine(g, t) /\ Even(s, t) /\ ~Over(t)
<1> DEFINE a == [s EXCEPT !.tree = "Prepared", !.condition = "none", !.cancel_owed = FALSE]
<1>1. s \in StateSet(g) /\ t = ClearTimers(a, {"tree_window"}, 0)
  BY DEF Fine, TreeReady
<1>2. a \in StateSet(g)
  BY <1>1, ZenonT(60) DEF StateSet
<1>3. /\ a.timers = s.timers
      /\ RunIs(s, a, s.phase, s.commissioned, s.root, "Prepared", s.park, "none", s.root_periods, FALSE)
  BY <1>1 DEF StateSet, RunIs
<1> HIDE DEF a
<1>4. /\ t \in StateSet(g) /\ RunSame(a, t) /\ t.slots = a.slots
      /\ \A p, j : Armed(t, p, j) <=> Armed(a, p, j) /\ ~(p \in {"tree_window"} /\ j = 0)
  BY <1>1, <1>2, ClearTimersFacts
<1>5. \A p, j : Armed(t, p, j) <=> Armed(s, p, j) /\ ~(p = "tree_window" /\ j = 0)
  BY <1>3, <1>4 DEF Armed
<1>6. RunIs(s, t, s.phase, s.commissioned, s.root, "Prepared", s.park, "none", s.root_periods, FALSE)
  BY <1>3, <1>4 DEF RunIs, RunSame
<1>7. Calm(g, s, t) /\ Slots(t) = Slots(s) /\ ~Over(t) /\ ~Over(s)
  BY <1>4, <1>5, <1>6 DEF RunIs, Calm, Over, Ready, TreePrepared, Slots
<1>8. DeadlinesFit(g, t)
  BY <1>1, <1>5, <1>6 DEF RunIs, Fine, RunOK, DeadlinesFit
<1>9. PhaseFits(t)
  BY <1>6, <1>7 DEF RunIs, Fine, RunOK, PhaseFits
<1>10. TimersTyped(t) /\ OnlyStops(t) /\ NothingLeft(t) /\ QuestionsFit(g, t)
  BY <1>5, <1>6, <1>7 DEF RunIs, Fine, RunOK, TimersTyped, OnlyStops, NothingLeft, QuestionsFit
<1>11. Fine(g, t)
  BY <1>7, <1>8, <1>9, <1>10, CalmKeeps DEF RunOK
<1>12. Even(s, t)
  BY <1>5, <1>6, <1>7, AlikeSelf DEF Even, RunIs, SameQuestions
<1> QED BY <1>7, <1>11, <1>12

LEMMA TreePreparedKeeps ==
  ASSUME NEW g, NEW s, Fine(g, s), s.phase = "Running", s.tree = "Unprepared"
  PROVE  Fine(g, ArmReady(ClearTimers([s EXCEPT !.tree = "Prepared", !.condition = "none",
                                                !.cancel_owed = FALSE], {"tree_window"}, 0)))
<1>1. Fine(g, ArmReady(TreeReady(s)))
  BY TreeReadyFacts, ArmReadyKeeps
<1> QED BY <1>1 DEF TreeReady

LEMMA TreeRefusedKeeps ==
  ASSUME NEW g, NEW s, Fine(g, s), s.phase = "Running", s.tree = "Unprepared", NEW permanent,
         NEW f, f = [s EXCEPT !.cancel_owed = FALSE]
  PROVE  Keeps(g, s, IF permanent /\ s.condition = "none"
                 THEN ClearTimers([f EXCEPT !.condition = "tree_refused"], {"tree_window"}, 0) ELSE f)
<1>1. s \in StateSet(g)
  BY DEF Fine
<1>2. f \in StateSet(g)
  BY <1>1 DEF StateSet
<1>3. /\ f.timers = s.timers
      /\ RunIs(s, f, s.phase, s.commissioned, s.root, s.tree, s.park, s.condition, s.root_periods, FALSE)
  BY <1>1 DEF StateSet, RunIs
<1>4. Keeps(g, s, f)
  <2>1. Calm(g, s, f) /\ Slots(f) = Slots(s) /\ ~Over(f) /\ ~Over(s) /\ \A p, j : Armed(f, p, j) <=> Armed(s, p, j)
    BY <1>2, <1>3 DEF RunIs, Calm, Over, Ready, TreePrepared, Slots, Armed
  <2>2. DeadlinesFit(g, f) /\ PhaseFits(f)
    BY <1>3, <2>1 DEF RunIs, Fine, RunOK, DeadlinesFit, PhaseFits
  <2>3. TimersTyped(f) /\ OnlyStops(f) /\ NothingLeft(f) /\ QuestionsFit(g, f)
    BY <1>3, <2>1, ZenonT(60) DEF RunIs, Fine, RunOK, TimersTyped, OnlyStops, NothingLeft, QuestionsFit
  <2> QED BY <1>3, <2>1, <2>2, <2>3, CalmSteady DEF RunOK, RunIs, TreePrepared
<1>5. CASE permanent /\ s.condition = "none"
  <2> DEFINE a == [f EXCEPT !.condition = "tree_refused"]
             t == ClearTimers(a, {"tree_window"}, 0)
  <2>1. a \in StateSet(g)
    BY <1>2, NewCondition
  <2>2. /\ a.timers = s.timers
        /\ RunIs(s, a, s.phase, s.commissioned, s.root, s.tree, s.park, "tree_refused", s.root_periods, FALSE)
    BY <1>2, <1>3 DEF StateSet, RunIs
  <2> HIDE DEF a
  <2>3. /\ t \in StateSet(g) /\ RunSame(a, t) /\ t.slots = a.slots
        /\ \A p, j : Armed(t, p, j) <=> Armed(a, p, j) /\ ~(p \in {"tree_window"} /\ j = 0)
    BY <2>1, ClearTimersFacts
  <2> HIDE DEF t
  <2>4. \A p, j : Armed(t, p, j) <=> Armed(s, p, j) /\ ~(p = "tree_window" /\ j = 0)
    BY <2>2, <2>3 DEF Armed
  <2>5. RunIs(s, t, s.phase, s.commissioned, s.root, s.tree, s.park, "tree_refused", s.root_periods, FALSE)
    BY <2>2, <2>3 DEF RunIs, RunSame
  <2>6. Calm(g, s, t) /\ Slots(t) = Slots(s) /\ ~Over(t) /\ ~Over(s)
    BY <2>3, <2>4, <2>5 DEF RunIs, Calm, Over, Ready, TreePrepared, Slots
  <2>7. DeadlinesFit(g, t)
    BY <1>1, <2>4, <2>5 DEF RunIs, Fine, RunOK, DeadlinesFit, PhaseFits
  <2>8. PhaseFits(t)
    BY <2>5, <2>6 DEF RunIs, Fine, RunOK, PhaseFits
  <2>9. TimersTyped(t) /\ OnlyStops(t) /\ NothingLeft(t) /\ QuestionsFit(g, t)
    BY <2>4, <2>5, <2>6 DEF RunIs, Fine, RunOK, TimersTyped, OnlyStops, NothingLeft, QuestionsFit
  <2>10. Keeps(g, s, t)
    BY <2>6, <2>7, <2>8, <2>9, <2>5, CalmSteady DEF RunOK, RunIs, TreePrepared
  <2> QED BY <1>5, <2>10 DEF t, a
<1> QED BY <1>4, <1>5

LEMMA TreeParkedKeeps ==
  ASSUME NEW g, NEW s, Fine(g, s), s.phase = "Finishing", NEW outcome \in {"clean", "committed"}
  PROVE  Keeps(g, s, [s EXCEPT !.park = outcome])
<1> DEFINE t == [s EXCEPT !.park = outcome]
<1>1. s \in StateSet(g)
  BY DEF Fine
<1>2. t \in StateSet(g)
  BY <1>1 DEF StateSet
<1>3. /\ t.timers = s.timers
      /\ RunIs(s, t, s.phase, s.commissioned, s.root, s.tree, outcome, s.condition, s.root_periods, s.cancel_owed)
  BY <1>1 DEF StateSet, RunIs
<1> HIDE DEF t
<1>4. Calm(g, s, t) /\ Slots(t) = Slots(s) /\ Over(t) /\ Over(s) /\ \A p, j : Armed(t, p, j) <=> Armed(s, p, j)
  BY <1>2, <1>3 DEF RunIs, Calm, Over, Ready, TreePrepared, Slots, Armed
<1>5. DeadlinesFit(g, t) /\ PhaseFits(t)
  BY <1>3, <1>4 DEF RunIs, Fine, RunOK, DeadlinesFit, PhaseFits
<1>6. TimersTyped(t) /\ OnlyStops(t) /\ NothingLeft(t) /\ QuestionsFit(g, t)
  BY <1>3, <1>4 DEF RunIs, Fine, RunOK, TimersTyped, OnlyStops, NothingLeft, QuestionsFit
<1>7. Keeps(g, s, t)
  BY <1>4, <1>5, <1>6, <1>3, CalmSteady DEF RunOK, RunIs, TreePrepared
<1> QED BY <1>7 DEF t

LEMMA DeliveredResultKeeps ==
  ASSUME NEW g, NEW s, Fine(g, s), s.phase = "Finishing", NEW d \in {"result", "notice"}
  PROVE  Keeps(g, s, [s EXCEPT !.delivered = s.delivered \cup {d}])
<1> DEFINE t == [s EXCEPT !.delivered = s.delivered \cup {d}]
<1>1. s \in StateSet(g)
  BY DEF Fine
<1>2. t \in StateSet(g)
  BY <1>1, ZenonT(60) DEF StateSet
<1>3. /\ t.timers = s.timers
      /\ RunIs(s, t, s.phase, s.commissioned, s.root, s.tree, s.park, s.condition, s.root_periods, s.cancel_owed)
  BY <1>1 DEF StateSet, RunIs
<1> HIDE DEF t
<1>4. Calm(g, s, t) /\ Slots(t) = Slots(s) /\ Over(t) /\ Over(s) /\ \A p, j : Armed(t, p, j) <=> Armed(s, p, j)
  BY <1>2, <1>3 DEF RunIs, Calm, Over, Ready, TreePrepared, Slots, Armed
<1>5. DeadlinesFit(g, t) /\ PhaseFits(t)
  BY <1>3, <1>4 DEF RunIs, Fine, RunOK, DeadlinesFit, PhaseFits
<1>6. TimersTyped(t) /\ OnlyStops(t) /\ NothingLeft(t) /\ QuestionsFit(g, t)
  BY <1>3, <1>4 DEF RunIs, Fine, RunOK, TimersTyped, OnlyStops, NothingLeft, QuestionsFit
<1>7. Keeps(g, s, t)
  BY <1>4, <1>5, <1>6, <1>3, CalmSteady DEF RunOK, RunIs, TreePrepared
<1> QED BY <1>7 DEF t

\* A mark on a question, that it is delivered or answered.
LEMMA MarkedKeeps ==
  ASSUME NEW g, NEW s, Fine(g, s), NEW Q \in Seq(QuestionSet(g)), Len(Q) = Len(s.questions),
         \A k \in 1 .. Len(Q) : /\ Q[k].asked = s.questions[k].asked /\ Q[k].slot = s.questions[k].slot
                                /\ Q[k].step = s.questions[k].step,
         NEW t, t = [s EXCEPT !.questions = Q]
  PROVE  /\ Fine(g, t) /\ t.phase = s.phase /\ t.slots = s.slots /\ t.timers = s.timers
         /\ t.tree = s.tree /\ t.outcome = s.outcome /\ t.visits = s.visits /\ t.passes = s.passes
         /\ t.current = s.current /\ t.questions = Q
<1>1. s \in StateSet(g)
  BY DEF Fine
<1>2. t \in StateSet(g)
  BY <1>1 DEF StateSet
<1>3. /\ t.timers = s.timers /\ t.questions = Q /\ t.slots = s.slots
      /\ t.phase = s.phase /\ t.commissioned = s.commissioned /\ t.root = s.root /\ t.tree = s.tree /\ t.park = s.park
      /\ t.condition = s.condition /\ t.root_periods = s.root_periods /\ t.cancel_owed = s.cancel_owed
      /\ t.outcome = s.outcome /\ t.visits = s.visits /\ t.passes = s.passes /\ t.current = s.current
      /\ t.delivered = s.delivered /\ t.withdrawn = s.withdrawn
  BY <1>1 DEF StateSet
<1>4. /\ Slots(t) = Slots(s) /\ (Over(t) <=> Over(s)) /\ (Ready(t) <=> Ready(s)) /\ (AnyLive(t) <=> AnyLive(s))
      /\ \A p, j : Armed(t, p, j) <=> Armed(s, p, j)
  BY <1>3 DEF Over, Ready, TreePrepared, Slots, Armed, AnyLive
<1>5. Calm(g, s, t)
  BY <1>2, <1>3, <1>4 DEF Calm
<1>6. DeadlinesFit(g, t) /\ PhaseFits(t)
  BY <1>3, <1>4 DEF Fine, RunOK, DeadlinesFit, PhaseFits
<1>7. TimersTyped(t) /\ OnlyStops(t) /\ NothingLeft(t)
  BY <1>3, <1>4 DEF Fine, RunOK, TimersTyped, OnlyStops, NothingLeft
<1>8. QuestionsFit(g, t)
  BY <1>3, <1>4 DEF Fine, RunOK, QuestionsFit
<1>9. Fine(g, t)
  BY <1>5, <1>6, <1>7, <1>8, CalmKeeps DEF RunOK
<1> QED BY <1>3, <1>9

LEMMA ClaimReleasedKeeps ==
  ASSUME NEW g, NEW s, Fine(g, s), ReadyToRelease(s)
  PROVE  Keeps(g, s, [s EXCEPT !.phase = "Finished", !.timers = {}])
<1> DEFINE t == [s EXCEPT !.phase = "Finished", !.timers = {}]
<1>1. s \in StateSet(g) /\ s.phase = "Finishing" /\ s.park # "none" /\ ~AnyLive(s) /\ Over(s)
  BY DEF Fine, ReadyToRelease, Finishing, Over
<1>2. s.root => "result" \in s.delivered
  BY <1>1 DEF ReadyToRelease, OwedResults, Finishing
<1>3. t \in StateSet(g)
  BY <1>1 DEF StateSet
<1>4. /\ t.timers = {} /\ t.delivered = s.delivered
      /\ RunIs(s, t, "Finished", s.commissioned, s.root, s.tree, s.park, s.condition, s.root_periods, s.cancel_owed)
  BY <1>1 DEF StateSet, RunIs
<1> HIDE DEF t
<1>5. /\ Slots(t) = Slots(s) /\ Over(t) /\ Ready(t) /\ Ready(s) /\ t.slots = s.slots /\ t.withdrawn = s.withdrawn
      /\ ~AnyLive(t) /\ \A p, j : ~Armed(t, p, j)
  BY <1>1, <1>4 DEF RunIs, Slots, Over, Ready, AnyLive, Armed
<1>6. ASSUME NEW i \in Slots(t)
      PROVE  SlotOK(g, t, i)
  <2>1. SlotOK(g, s, i) /\ ~Live(s.slots[i])
    BY <1>1, <1>5, <1>6 DEF Fine, AnyLive
  <2>2. SlotFits(g, t.slots[i], t.withdrawn, Over(t), Ready(t))
    BY <1>1, <1>5, <2>1 DEF SlotOK, SlotFits
  <2>3. TimersFit(t, i, t.slots[i])
    BY <1>5 DEF TimersFit
  <2>4. Watched(g, t, i, t.slots[i])
    BY <1>5, <2>1 DEF Watched, SlotOK, SlotFits, LadderFits, Live, Talking
  <2> QED BY <2>2, <2>3, <2>4 DEF SlotOK
<1>7. DeadlinesFit(g, t)
  BY <1>1, <1>4, <1>5 DEF RunIs, Fine, RunOK, DeadlinesFit
<1>8. PhaseFits(t)
  BY <1>1, <1>4, <1>5 DEF RunIs, Fine, RunOK, PhaseFits
<1>9. TimersTyped(t) /\ OnlyStops(t) /\ NothingLeft(t) /\ QuestionsFit(g, t)
  BY <1>1, <1>2, <1>4, <1>5 DEF RunIs, Fine, RunOK, TimersTyped, OnlyStops, NothingLeft, QuestionsFit
<1>10. Fine(g, t)
  BY <1>3, <1>6, <1>7, <1>8, <1>9 DEF Fine, RunOK
<1>11. SameQuestions(s, t) /\ (TreePrepared(t) => TreePrepared(s))
  BY <1>4 DEF RunIs, SameQuestions, TreePrepared
<1>12. Steady(s, t)
  BY <1>1, <1>4, <1>5, <1>11, SteadyRun DEF RunIs
<1> QED BY <1>10, <1>12 DEF Keeps, t

LEMMA PoisonParkedKeeps ==
  ASSUME NEW g, NEW s, Fine(g, s), "poison" \in g.may, s.commissioned
  PROVE  Keeps(g, s, [s EXCEPT !.condition = "poison"])
<1> DEFINE t == [s EXCEPT !.condition = "poison"]
<1>1. s \in StateSet(g)
  BY DEF Fine
<1>2. t \in StateSet(g)
  BY <1>1, NewCondition
<1>3. /\ t.timers = s.timers /\ t.delivered = s.delivered
      /\ RunIs(s, t, s.phase, s.commissioned, s.root, s.tree, s.park, "poison", s.root_periods, s.cancel_owed)
  BY <1>1 DEF StateSet, RunIs
<1> HIDE DEF t
<1>4. /\ Slots(t) = Slots(s) /\ (Over(t) <=> Over(s)) /\ (Ready(t) <=> Ready(s)) /\ (AnyLive(t) <=> AnyLive(s))
      /\ \A p, j : Armed(t, p, j) <=> Armed(s, p, j)
  BY <1>3 DEF RunIs, Over, Ready, TreePrepared, Slots, Armed, AnyLive
<1>5. Calm(g, s, t)
  BY <1>2, <1>3, <1>4 DEF RunIs, Calm
<1>6. DeadlinesFit(g, t) /\ PhaseFits(t)
  BY <1>3, <1>4 DEF RunIs, Fine, RunOK, DeadlinesFit, PhaseFits
<1>7. TimersTyped(t) /\ OnlyStops(t) /\ NothingLeft(t) /\ QuestionsFit(g, t)
  BY <1>3, <1>4 DEF RunIs, Fine, RunOK, TimersTyped, OnlyStops, NothingLeft, QuestionsFit
<1>8. Keeps(g, s, t)
  BY <1>5, <1>6, <1>7, <1>3, CalmSteady DEF RunOK, RunIs, TreePrepared
<1> QED BY <1>8 DEF t

LEMMA ResumeRunKeeps ==
  ASSUME NEW g, NEW s, Fine(g, s), ~Over(s), s.condition # "none", g.max_attempts \in Nat \ {0},
         NEW a \in StateSet(g), a.timers = s.timers,
         RunIs(s, a, s.phase, s.commissioned, s.root, s.tree, s.park, "none", 0, s.cancel_owed)
  PROVE  Keeps(g, s, IF s.condition = "root_failed" THEN SetTimer(a, "root_deadline", 0)
                 ELSE IF s.condition = "tree_refused" THEN SetTimer(a, "tree_window", 0) ELSE a)
<1> DEFINE t == IF s.condition = "root_failed" THEN SetTimer(a, "root_deadline", 0)
                ELSE IF s.condition = "tree_refused" THEN SetTimer(a, "tree_window", 0) ELSE a
<1>1. s \in StateSet(g)
  BY DEF Fine
<1>4. /\ t \in StateSet(g) /\ RunSame(a, t) /\ t.slots = a.slots
      /\ \A p, j : Armed(t, p, j) <=> \/ Armed(a, p, j)
                                      \/ s.condition = "root_failed" /\ p = "root_deadline" /\ j = 0
                                      \/ s.condition = "tree_refused" /\ p = "tree_window" /\ j = 0
  <2>0. /\ "root_deadline" \in RunPurposes \cup SlotPurposes /\ "tree_window" \in RunPurposes \cup SlotPurposes
        /\ 0 \in Nat
    BY DEF RunPurposes
  <2>1. CASE s.condition = "root_failed"
    <3> DEFINE b == SetTimer(a, "root_deadline", 0)
    <3>1. t = b
      BY <2>1
    <3>2. /\ b \in StateSet(g) /\ RunSame(a, b) /\ b.slots = a.slots
          /\ \A p, j : Armed(b, p, j) <=> Armed(a, p, j) \/ (p = "root_deadline" /\ j = 0)
      BY <2>0, SetTimerFacts
    <3> HIDE DEF t, b
    <3> QED BY <2>1, <3>1, <3>2
  <2>2. CASE s.condition = "tree_refused"
    <3> DEFINE b == SetTimer(a, "tree_window", 0)
    <3>1. t = b
      BY <2>2
    <3>2. /\ b \in StateSet(g) /\ RunSame(a, b) /\ b.slots = a.slots
          /\ \A p, j : Armed(b, p, j) <=> Armed(a, p, j) \/ (p = "tree_window" /\ j = 0)
      BY <2>0, SetTimerFacts
    <3> HIDE DEF t, b
    <3> QED BY <2>2, <3>1, <3>2
  <2>3. CASE s.condition # "root_failed" /\ s.condition # "tree_refused"
    BY <2>3 DEF RunSame
  <2> QED BY <2>1, <2>2, <2>3
<1> HIDE DEF t
<1>5. \A p, j : Armed(t, p, j) <=> \/ Armed(s, p, j)
                                   \/ s.condition = "root_failed" /\ p = "root_deadline" /\ j = 0
                                   \/ s.condition = "tree_refused" /\ p = "tree_window" /\ j = 0
  BY <1>4 DEF Armed
<1>6. RunIs(s, t, s.phase, s.commissioned, s.root, s.tree, s.park, "none", 0, s.cancel_owed)
  BY <1>4 DEF RunIs, RunSame
<1>7. Calm(g, s, t) /\ Slots(t) = Slots(s) /\ ~Over(t)
  BY <1>4, <1>5, <1>6 DEF RunIs, Calm, Over, Ready, TreePrepared, Slots
<1>8. DeadlinesFit(g, t)
  <2>1. s.condition \in {"none", "root_failed", "tree_refused", "poison"} /\ 0 < g.max_attempts /\ 0 <= g.max_attempts
    BY <1>1, SMTT(30) DEF StateSet
  <2> QED BY <1>5, <1>6, <2>1 DEF RunIs, Fine, RunOK, DeadlinesFit
<1>9. PhaseFits(t)
  BY <1>6, <1>7 DEF RunIs, Fine, RunOK, PhaseFits
<1>10. TimersTyped(t) /\ OnlyStops(t) /\ NothingLeft(t) /\ QuestionsFit(g, t)
  BY <1>5, <1>6, <1>7 DEF RunIs, Fine, RunOK, TimersTyped, OnlyStops, NothingLeft, QuestionsFit, RunPurposes, Over
<1>11. Keeps(g, s, t)
  BY <1>7, <1>8, <1>9, <1>10, <1>6, CalmSteady DEF RunOK, RunIs, TreePrepared
<1> QED BY <1>11 DEF t

LEMMA NewPeriods ==
  ASSUME NEW g, NEW s \in StateSet(g), NEW n \in Nat
  PROVE  LET t == [s EXCEPT !.root_periods = n]
         IN  /\ t \in StateSet(g) /\ t.timers = s.timers
             /\ RunIs(s, t, s.phase, s.commissioned, s.root, s.tree, s.park, s.condition, n, s.cancel_owed)
<1> DEFINE t == [s EXCEPT !.root_periods = n]
<1>1. t \in StateSet(g)
  BY DEF StateSet
<1>2. /\ t.timers = s.timers
      /\ RunIs(s, t, s.phase, s.commissioned, s.root, s.tree, s.park, s.condition, n, s.cancel_owed)
  BY DEF StateSet, RunIs
<1> QED BY <1>1, <1>2

LEMMA RootDeadlineKeeps ==
  ASSUME NEW g, NEW s, Fine(g, s), Armed(s, "root_deadline", 0), g.max_attempts \in Nat \ {0},
         NEW n, n = s.root_periods + 1,
         NEW a \in StateSet(g), RunIs(s, a, s.phase, s.commissioned, s.root, s.tree, s.park, s.condition, n, s.cancel_owed),
         \A p, j : Armed(a, p, j) <=> Armed(s, p, j) /\ ~(p = "root_deadline" /\ j = 0)
  PROVE  Keeps(g, s, IF n >= g.max_attempts THEN [a EXCEPT !.condition = "root_failed"]
                 ELSE SetTimer(a, "root_deadline", 0))
<1>1. s \in StateSet(g) /\ s.phase = "Created" /\ s.root_periods < g.max_attempts /\ s.root_periods \in Nat /\ n \in Nat
  BY SMTT(30) DEF Fine, RunOK, DeadlinesFit, StateSet
<1>2. CASE n >= g.max_attempts
  <2> DEFINE t == [a EXCEPT !.condition = "root_failed"]
  <2>1. t \in StateSet(g)
    BY NewCondition
  <2>2. /\ t.timers = a.timers
        /\ RunIs(s, t, s.phase, s.commissioned, s.root, s.tree, s.park, "root_failed", n, s.cancel_owed)
    BY DEF StateSet, RunIs
  <2> HIDE DEF t
  <2>3. \A p, j : Armed(t, p, j) <=> Armed(s, p, j) /\ ~(p = "root_deadline" /\ j = 0)
    BY <2>2 DEF Armed
  <2>4. Calm(g, s, t) /\ Slots(t) = Slots(s) /\ ~Over(t) /\ ~Over(s)
    BY <1>1, <2>1, <2>2, <2>3 DEF RunIs, Calm, Over, Ready, TreePrepared, Slots
  <2>5. DeadlinesFit(g, t)
    <3>2. n <= g.max_attempts /\ n # 0
      BY <1>1
    <3>3. s.commissioned
      BY <1>1 DEF Fine, RunOK, DeadlinesFit
    <3> QED BY <1>1, <2>2, <2>3, <3>2, <3>3 DEF RunIs, Fine, RunOK, DeadlinesFit
  <2>6. PhaseFits(t)
    BY <1>1, <2>2, <2>4 DEF RunIs, Fine, RunOK, PhaseFits
  <2>7. TimersTyped(t) /\ OnlyStops(t) /\ NothingLeft(t) /\ QuestionsFit(g, t)
    BY <1>1, <2>2, <2>3, <2>4 DEF RunIs, Fine, RunOK, TimersTyped, OnlyStops, NothingLeft, QuestionsFit
  <2>8. Keeps(g, s, t)
    BY <2>4, <2>5, <2>6, <2>7, <2>2, CalmSteady DEF RunOK, RunIs, TreePrepared
  <2> QED BY <1>2, <2>8 DEF t
<1>3. CASE ~(n >= g.max_attempts)
  <2> DEFINE t == SetTimer(a, "root_deadline", 0)
  <2>0. "root_deadline" \in RunPurposes \cup SlotPurposes /\ 0 \in Nat
    BY DEF RunPurposes
  <2>1. /\ t \in StateSet(g) /\ RunSame(a, t) /\ t.slots = a.slots
        /\ \A p, j : Armed(t, p, j) <=> Armed(a, p, j) \/ (p = "root_deadline" /\ j = 0)
    BY <2>0, SetTimerFacts
  <2> HIDE DEF t
  <2>2. \A p, j : Armed(t, p, j) <=> Armed(s, p, j)
    BY <2>1
  <2>3. RunIs(s, t, s.phase, s.commissioned, s.root, s.tree, s.park, s.condition, n, s.cancel_owed)
    BY <2>1 DEF RunIs, RunSame
  <2>4. Calm(g, s, t) /\ Slots(t) = Slots(s) /\ ~Over(t) /\ ~Over(s)
    BY <1>1, <2>1, <2>2, <2>3 DEF RunIs, Calm, Over, Ready, TreePrepared, Slots
  <2>5. DeadlinesFit(g, t)
    <3>1. n < g.max_attempts /\ n <= g.max_attempts
      BY <1>1, <1>3
    <3>2. s.commissioned
      BY <1>1 DEF Fine, RunOK, DeadlinesFit
    <3> QED BY <1>1, <2>2, <2>3, <3>1, <3>2 DEF RunIs, Fine, RunOK, DeadlinesFit
  <2>6. PhaseFits(t)
    BY <1>1, <2>3, <2>4 DEF RunIs, Fine, RunOK, PhaseFits
  <2>7. TimersTyped(t) /\ OnlyStops(t) /\ NothingLeft(t) /\ QuestionsFit(g, t)
    BY <1>1, <2>2, <2>3, <2>4 DEF RunIs, Fine, RunOK, TimersTyped, OnlyStops, NothingLeft, QuestionsFit
  <2>8. Keeps(g, s, t)
    BY <2>4, <2>5, <2>6, <2>7, <2>3, CalmSteady DEF RunOK, RunIs, TreePrepared
  <2> QED BY <1>3, <2>8 DEF t
<1> QED BY <1>2, <1>3

LEMMA TreeWindowKeeps ==
  ASSUME NEW g, NEW s, Fine(g, s), Armed(s, "tree_window", 0),
         NEW a \in StateSet(g), RunSame(s, a), a.slots = s.slots,
         \A p, j : Armed(a, p, j) <=> Armed(s, p, j) /\ ~(p = "tree_window" /\ j = 0)
  PROVE  Keeps(g, s, [a EXCEPT !.cancel_owed = TRUE, !.condition = "tree_refused"])
<1> DEFINE t == [a EXCEPT !.cancel_owed = TRUE, !.condition = "tree_refused"]
<1>1. s \in StateSet(g) /\ s.phase = "Running" /\ s.tree = "Unprepared" /\ s.commissioned
  BY DEF Fine, RunOK, DeadlinesFit, PhaseFits
<1>2. t \in StateSet(g)
  BY ZenonT(60) DEF StateSet
<1>3. /\ t.timers = a.timers
      /\ RunIs(a, t, a.phase, a.commissioned, a.root, a.tree, a.park, "tree_refused", a.root_periods, TRUE)
  BY DEF StateSet, RunIs
<1> HIDE DEF t
<1>4. RunIs(s, t, s.phase, s.commissioned, s.root, s.tree, s.park, "tree_refused", s.root_periods, TRUE)
  BY <1>3 DEF RunIs, RunSame
<1>5. \A p, j : Armed(t, p, j) <=> Armed(s, p, j) /\ ~(p = "tree_window" /\ j = 0)
  BY <1>3 DEF Armed
<1>6. Calm(g, s, t) /\ Slots(t) = Slots(s) /\ ~Over(t) /\ ~Over(s)
  BY <1>1, <1>2, <1>4, <1>5 DEF RunIs, Calm, Over, Ready, TreePrepared, Slots
<1>7. DeadlinesFit(g, t)
  BY <1>1, <1>4, <1>5 DEF RunIs, Fine, RunOK, DeadlinesFit
<1>8. PhaseFits(t)
  BY <1>4, <1>6 DEF RunIs, Fine, RunOK, PhaseFits
<1>9. TimersTyped(t) /\ OnlyStops(t) /\ NothingLeft(t) /\ QuestionsFit(g, t)
  BY <1>1, <1>4, <1>5, <1>6 DEF RunIs, Fine, RunOK, TimersTyped, OnlyStops, NothingLeft, QuestionsFit
<1>10. Keeps(g, s, t)
  BY <1>6, <1>7, <1>8, <1>9, <1>4, CalmSteady DEF RunOK, RunIs, TreePrepared
<1> QED BY <1>10 DEF t

\* ---------------------------------------------- inputs that lead to other decisions

LEMMA SlotsMeanRunning ==
  ASSUME NEW g, NEW s, Fine(g, s), Slots(s) # {}, ~Over(s)
  PROVE  s.phase = "Running"
<1>1. s \in StateSet(g) /\ Len(s.slots) \in Nat
  BY DEF Fine, StateSet
<1>2. Len(s.slots) > 0
  BY <1>1 DEF Slots
<1> QED BY <1>2 DEF Fine, RunOK, PhaseFits

\* The slot of a reply.
RepliedSlot(r, escalate, rework) ==
  [r EXCEPT !.at = "Replied", !.live = TRUE, !.open = FALSE, !.escalate = escalate, !.rework = rework]

LEMMA RepliedSlotFacts ==
  ASSUME NEW g, NEW r \in SlotSet(g), NEW escalate \in BOOLEAN, NEW rework \in BOOLEAN,
         NEW n, n = RepliedSlot(r, escalate, rework)
  PROVE  /\ n \in SlotSet(g) /\ n.at = "Replied" /\ n.live /\ ~n.open /\ n.ladder = r.ladder
         /\ n.restart = r.restart /\ n.condition = r.condition /\ n.blind = r.blind /\ n.sampling = r.sampling
         /\ n.logged = r.logged
         /\ n.step = r.step /\ n.visit = r.visit /\ n.member = r.member /\ n.attempt = r.attempt
         /\ n.restarts = r.restarts /\ n.escalate = escalate
<1>1. n \in SlotSet(g)
  BY ZenonT(60) DEF RepliedSlot, SlotSet, States
<1>2. n.at = "Replied" /\ n.live /\ ~n.open /\ n.ladder = r.ladder /\ n.restart = r.restart
  BY DEF RepliedSlot, SlotSet
<1>3. n.condition = r.condition /\ n.blind = r.blind /\ n.sampling = r.sampling /\ n.logged = r.logged
  BY DEF RepliedSlot, SlotSet
<1>4. /\ n.step = r.step /\ n.visit = r.visit /\ n.member = r.member /\ n.attempt = r.attempt
      /\ n.restarts = r.restarts /\ n.escalate = escalate
  BY DEF RepliedSlot, SlotSet
<1> QED BY <1>1, <1>2, <1>3, <1>4

\* What a reply changes of the state.
Heard(g, s, t, i, escalate, rework) ==
  /\ Touch(g, s, t, i) /\ t.slots[i] = RepliedSlot(s.slots[i], escalate, rework)
  /\ \A p : Armed(t, p, i) <=> p = "wind_down"

LEMMA RepliedKeeps ==
  ASSUME NEW g, NEW s, Fine(g, s), NEW i \in Slots(s), s.slots[i].at = "Starting" \/ Talking(s.slots[i]), ~Over(s),
         NEW escalate \in BOOLEAN, NEW rework \in BOOLEAN,
         NEW t, t = SetTimer(ClearSlotTimers(With(s, i, RepliedSlot(s.slots[i], escalate, rework)), i), "wind_down", i)
  PROVE  Fine(g, t) /\ t.phase = "Running" /\ Slots(t) = Slots(s) /\ Heard(g, s, t, i, escalate, rework)
<1> DEFINE r == RepliedSlot(s.slots[i], escalate, rework)
           a == With(s, i, r)
           b == ClearSlotTimers(a, i)
<1>1. /\ s \in StateSet(g) /\ s.slots[i] \in SlotSet(g) /\ i \in Nat /\ SlotOK(g, s, i) /\ Touch(g, s, s, i)
      /\ s.slots[i].ladder \in LadderType
  BY SlotKnown, TouchSelf
<1>2. /\ r \in SlotSet(g) /\ r.at = "Replied" /\ r.live /\ ~r.open /\ r.ladder = s.slots[i].ladder
      /\ r.restart = s.slots[i].restart /\ r.condition = s.slots[i].condition /\ r.blind = s.slots[i].blind
      /\ r.sampling = s.slots[i].sampling /\ r.logged = s.slots[i].logged
  BY <1>1, RepliedSlotFacts
<1>3. t = SetTimer(b, "wind_down", i)
  OBVIOUS
<1> HIDE DEF r
<1>4. Touch(g, s, a, i) /\ a.slots[i] = r
  BY <1>1, <1>2, TouchWith
<1> HIDE DEF a
<1>5. Touch(g, s, b, i) /\ b.slots[i] = r /\ \A p : ~Armed(b, p, i)
  BY <1>4, TouchClearSlot
<1> HIDE DEF b
<1>6. "wind_down" \in SlotPurposes
  BY Purposes
<1>7. Touch(g, s, t, i) /\ t.slots[i] = r /\ \A p : Armed(t, p, i) <=> p = "wind_down"
  BY <1>1, <1>3, <1>5, <1>6, TouchSet
<1>8. s.phase = "Running" /\ s.phase # "Finished"
  BY SlotsMeanRunning
<1>9. ~r.ladder.on /\ r.ladder.sent = 0 /\ r.ladder.fired = 0 /\ r.condition = "none" /\ ~r.restart
  <2>1. s.slots[i].at \notin {"Stopping", "Replied", "Ended"}
    BY DEF Talking
  <2>2. ~s.slots[i].ladder.on /\ s.slots[i].ladder.sent = 0 /\ s.slots[i].ladder.fired = 0
    BY <1>1, <2>1 DEF SlotOK, SlotFits, LadderFits
  <2>3. s.slots[i].condition \in {"none", "Held", "Parked", "WouldNotStop"}
    BY <1>1 DEF SlotSet
  <2> QED BY <1>1, <1>2, <2>1, <2>2, <2>3 DEF SlotOK, SlotFits, LadderFits
<1>10. SlotFits(g, r, s.withdrawn, Over(s), Ready(s))
  <2>1. LadderFits(r, s.withdrawn)
    BY <1>1, <1>2, <1>9 DEF SlotOK, SlotFits, LadderFits
  <2>2. Ready(s)
    BY <1>1 DEF SlotOK, SlotFits, Talking
  <2> QED BY <1>1, <1>2, <1>9, <2>1, <2>2 DEF SlotOK, SlotFits, Talking
<1>11. TimersFit(t, i, r) /\ Watched(g, t, i, r)
  BY <1>2, <1>7, <1>9 DEF TimersFit, Watched
<1>12. \A p : Armed(t, p, i) => p \in SlotPurposes /\ (Over(s) => p \in StopPurposes)
  BY <1>6, <1>7
<1>13. Fine(g, t)
  BY <1>7, <1>8, <1>10, <1>11, <1>12, Replaced
<1>14. Heard(g, s, t, i, escalate, rework)
  BY <1>7 DEF Heard, r
<1> QED BY <1>7, <1>8, <1>13, <1>14 DEF Touch, RunSame, Slots

LEMMA ReplyKeeps ==
  ASSUME NEW s, given \in DOMAIN Settings, Fine(Settings[given], s), NEW i \in Slots(s),
         s.slots[i].at = "Starting" \/ Talking(s.slots[i]), ~Over(s),
         NEW escalate \in BOOLEAN, NEW rework \in BOOLEAN, NEW asks \in BOOLEAN,
         NEW t, t = SetTimer(ClearSlotTimers(With(s, i, RepliedSlot(s.slots[i], escalate, rework)), i), "wind_down", i)
  PROVE  Fine(Settings[given], AfterReply(IF asks THEN Ask(t, "escalation", i, s.slots[i].step, 0) ELSE t, i))
<1> DEFINE g == Settings[given]
           step == s.slots[i].step
           u == Ask(t, "escalation", i, step, 0)
<1>1. Fine(g, t) /\ t.phase = "Running" /\ Slots(t) = Slots(s)
  BY RepliedKeeps
<1>2. step \in g.step /\ i \in Nat /\ 0 \in Nat
  BY SlotKnown DEF SlotSet
<1>3. Fine(g, u) /\ u.phase = "Running" /\ Slots(u) = Slots(s)
  <2>1. Fine(g, u)
    BY <1>1, <1>2, AskKeeps
  <2>2. t \in StateSet(g)
    BY <1>1 DEF Fine
  <2>3. Asks(g, t, u, "escalation", i, step, 0)
    BY <1>2, <2>2, AskFacts
  <2> HIDE DEF u
  <2> QED BY <1>1, <2>1, <2>3 DEF Asks, Slots
<1> HIDE DEF u
<1>4. Fine(g, AfterReply(u, i)) /\ Fine(g, AfterReply(t, i))
  BY <1>1, <1>3, AfterReplyKeeps
<1>5. CASE asks
  BY <1>4, <1>5 DEF u
<1>6. CASE ~asks
  BY <1>4, <1>6
<1> QED BY <1>5, <1>6

LEMMA RestartOrParkKeeps ==
  ASSUME NEW s, given \in DOMAIN Settings, Fine(Settings[given], s), s.phase = "Running", NEW i \in Slots(s),
         s.slots[i].at = "Ended"
  PROVE  Fine(Settings[given], RestartOrPark(s, i))
<1>1. Fine(Settings[given], Restart(s, i, FALSE)) /\ Fine(Settings[given], SetCondition(s, i, "Parked"))
  BY RestartKeeps, ParkKeeps
<1> QED BY <1>1 DEF RestartOrPark

LEMMA EndedKeeps ==
  ASSUME NEW s, given \in DOMAIN Settings, Fine(Settings[given], s), NEW i \in Slots(s), Live(s.slots[i]),
         NEW cause \in Causes
  PROVE  Fine(Settings[given], Ended(FoldEnded(s, i, cause), i, s.slots[i], cause))
<1> DEFINE g == Settings[given]
           t == FoldEnded(s, i, cause)
           was == s.slots[i]
<1>1. Fine(g, t)
  BY FoldEndedKeeps
<1>2. Touch(g, s, t, i) /\ t.slots[i] = EndedSlot(was, cause) /\ was \in SlotSet(g)
  BY FoldEndedFacts, SlotKnown
<1>3. was.at # "Replied" => t.slots[i].at = "Ended"
  BY <1>2, EndedSlotFacts
<1>4. t.phase = s.phase /\ i \in Slots(t) /\ s.phase # "Finished"
  BY <1>2, LiveIsUnfinished DEF Touch, RunSame, Slots
<1> HIDE DEF t, was
<1>5. CASE Finishing(t)
  <2>1. Ended(t, i, was, cause) = t
    BY <1>5 DEF Ended
  <2> QED BY <1>1, <2>1 DEF t, was
<1>6. CASE ~Finishing(t)
  <2>1. ~Over(t) /\ t.phase = "Running" /\ t.phase # "Finished"
    BY <1>1, <1>4, <1>6, SlotsMeanRunning DEF Over, Finishing
  <2>2. CASE was.at = "Replied" \/ (was.at = "Stopping" /\ ~was.restart)
    <3>1. Fine(g, ArmReady(t)) /\ Ended(t, i, was, cause) = ArmReady(t)
      BY <1>1, <1>6, <2>2, ArmReadyKeeps DEF Ended
    <3> QED BY <3>1 DEF t, was
  <2>3. CASE ~(was.at = "Replied" \/ (was.at = "Stopping" /\ ~was.restart))
    <3>1. t.slots[i].at = "Ended"
      BY <1>3, <2>3
    <3>2. Fine(g, RestartOrPark(t, i)) /\ Fine(g, SetCondition(t, i, "Parked"))
      BY <1>1, <1>4, <2>1, <3>1, RestartOrParkKeeps, ParkKeeps
    <3>3. Fine(g, Hold(t, i, TRUE)) /\ Fine(g, Hold(t, i, FALSE))
      BY <1>1, <1>4, <2>1, <3>1, HoldKeeps
    <3>4. (cause = "hold_until_reset") = TRUE \/ (cause = "hold_until_reset") = FALSE
      OBVIOUS
    <3>5. \/ Ended(t, i, was, cause) = RestartOrPark(t, i) \/ Ended(t, i, was, cause) = SetCondition(t, i, "Parked")
          \/ Ended(t, i, was, cause) = Hold(t, i, TRUE) \/ Ended(t, i, was, cause) = Hold(t, i, FALSE)
      BY <1>6, <2>3, <3>4 DEF Ended
    <3> QED BY <3>2, <3>3, <3>5 DEF t, was
  <2> QED BY <2>2, <2>3
<1> QED BY <1>5, <1>6

LEMMA QuestionKnown ==
  ASSUME NEW g, NEW s \in StateSet(g), NEW k \in 1 .. Len(s.questions), NEW q, q = s.questions[k]
  PROVE  q \in QuestionSet(g) /\ q.step \in g.step /\ q.pass \in Nat
<1>1. q \in QuestionSet(g)
  BY DEF StateSet
<1> QED BY <1>1 DEF QuestionSet

LEMMA MarkFacts ==
  ASSUME NEW g, NEW q \in QuestionSet(g), NEW a, a = [q EXCEPT !.answered = TRUE]
  PROVE  /\ a \in QuestionSet(g) /\ a.asked = q.asked /\ a.slot = q.slot /\ a.step = q.step
         /\ a.visit = q.visit /\ a.pass = q.pass /\ a.answered = TRUE
<1>1. a \in QuestionSet(g)
  BY DEF QuestionSet
<1> QED BY <1>1 DEF QuestionSet

LEMMA ToldFacts ==
  ASSUME NEW g, NEW q \in QuestionSet(g), NEW a, a = [q EXCEPT !.delivered = TRUE]
  PROVE  /\ a \in QuestionSet(g) /\ a.asked = q.asked /\ a.slot = q.slot /\ a.step = q.step
         /\ a.visit = q.visit /\ a.pass = q.pass /\ a.answered = q.answered
<1>1. a \in QuestionSet(g)
  BY DEF QuestionSet
<1> QED BY <1>1 DEF QuestionSet

\* Question k is replaced by m, and nothing else changes.
MarkedAs(s, t, k, m) ==
  /\ t.phase = s.phase /\ t.slots = s.slots /\ t.timers = s.timers /\ t.tree = s.tree /\ t.outcome = s.outcome
  /\ t.visits = s.visits /\ t.passes = s.passes /\ t.current = s.current
  /\ Len(t.questions) = Len(s.questions)
  /\ \A j \in 1 .. Len(s.questions) : t.questions[j] = IF j = k THEN m ELSE s.questions[j]

\* The marks.
Marked(s, k, m) == [s EXCEPT !.questions = [s.questions EXCEPT ![k] = m]]
Answered(s, k) == [s EXCEPT !.questions[k].answered = TRUE]
Told(s, k) == [s EXCEPT !.questions[k].delivered = TRUE]

LEMMA MarkOne ==
  ASSUME NEW g, NEW s, Fine(g, s), NEW k \in 1 .. Len(s.questions), NEW m \in QuestionSet(g),
         m.asked = s.questions[k].asked, m.slot = s.questions[k].slot, m.step = s.questions[k].step,
         NEW t, t = Marked(s, k, m)
  PROVE  Fine(g, t) /\ MarkedAs(s, t, k, m)
<1> DEFINE Q == [s.questions EXCEPT ![k] = m]
<1>1. s.questions \in Seq(QuestionSet(g))
  BY DEF Fine, StateSet
<1>2. Q \in Seq(QuestionSet(g)) /\ Len(Q) = Len(s.questions)
  BY <1>1
<1>3. \A j \in 1 .. Len(s.questions) : Q[j] = IF j = k THEN m ELSE s.questions[j]
  BY <1>1
<1>4. t = [s EXCEPT !.questions = Q]
  BY DEF Marked
<1> HIDE DEF Q
<1>5. \A j \in 1 .. Len(Q) : /\ Q[j].asked = s.questions[j].asked /\ Q[j].slot = s.questions[j].slot
                             /\ Q[j].step = s.questions[j].step
  BY <1>2, <1>3
<1>6. /\ Fine(g, t) /\ t.phase = s.phase /\ t.slots = s.slots /\ t.timers = s.timers
      /\ t.tree = s.tree /\ t.outcome = s.outcome /\ t.visits = s.visits /\ t.passes = s.passes
      /\ t.current = s.current /\ t.questions = Q
  BY <1>2, <1>4, <1>5, MarkedKeeps
<1> QED BY <1>2, <1>3, <1>6 DEF MarkedAs

LEMMA AnsweredKeeps ==
  ASSUME NEW g, NEW s, Fine(g, s), NEW k \in 1 .. Len(s.questions), NEW t, t = Answered(s, k)
  PROVE  Fine(g, t) /\ MarkedAs(s, t, k, [s.questions[k] EXCEPT !.answered = TRUE])
<1> DEFINE o == s.questions[k]
           m == [o EXCEPT !.answered = TRUE]
<1>1. s \in StateSet(g) /\ o \in QuestionSet(g)
  BY QuestionKnown DEF Fine
<1>2. t = Marked(s, k, m) /\ m = [o EXCEPT !.answered = TRUE]
  BY DEF Answered, Marked
<1> HIDE DEF o, m
<1>3. m \in QuestionSet(g) /\ m.asked = o.asked /\ m.slot = o.slot /\ m.step = o.step
  BY <1>1, <1>2 DEF QuestionSet
<1> QED BY <1>2, <1>3, MarkOne DEF m, o

LEMMA DeliveredQuestionKeeps ==
  ASSUME NEW g, NEW s, Fine(g, s), NEW k \in 1 .. Len(s.questions), NEW t, t = Told(s, k)
  PROVE  Keeps(g, s, t)
<1> DEFINE o == s.questions[k]
           m == [o EXCEPT !.delivered = TRUE]
<1>1. s \in StateSet(g) /\ o \in QuestionSet(g)
  BY QuestionKnown DEF Fine
<1>2. t = Marked(s, k, m) /\ m = [o EXCEPT !.delivered = TRUE]
  BY DEF Told, Marked
<1> HIDE DEF o, m
<1>3. /\ m \in QuestionSet(g) /\ m.asked = o.asked /\ m.slot = o.slot /\ m.step = o.step
      /\ m.visit = o.visit /\ m.pass = o.pass /\ m.answered = o.answered
  BY <1>1, <1>2, ToldFacts
<1>4. Fine(g, t) /\ MarkedAs(s, t, k, m)
  BY <1>2, <1>3, MarkOne DEF o
<1>5. SameQuestions(s, t)
  BY <1>3, <1>4 DEF MarkedAs, SameQuestions, o
<1>6. (Over(t) <=> Over(s)) /\ (TreePrepared(t) => TreePrepared(s))
  BY <1>4 DEF MarkedAs, Over, TreePrepared
<1>7. Steady(s, t)
  BY <1>4, <1>5, <1>6, SteadyRun DEF MarkedAs, Armed
<1> QED BY <1>4, <1>7 DEF Keeps

LEMMA AnswerKeeps ==
  ASSUME NEW s, given \in DOMAIN Settings, Fine(Settings[given], s), ~Over(s), NEW k \in 1 .. Len(s.questions),
         NEW disposition, NEW q, q = s.questions[k], NEW t, t = Answered(s, k)
  PROVE  Fine(Settings[given], IF q.asked = "escalation" THEN Restart(t, q.slot, TRUE)
                               ELSE IF disposition = "Continue" THEN Rework(t, q.step, q.pass)
                               ELSE Onward(t, q.step, "Accepted"))
<1> DEFINE g == Settings[given]
<1>1. s \in StateSet(g) /\ q.step \in g.step /\ q.pass \in Nat /\ q \in QuestionSet(g)
  BY QuestionKnown DEF Fine
<1>2. /\ Slots(s) # {} /\ (q.asked = "escalation" => q.slot \in Slots(s))
      /\ (q.asked = "ceiling" => ReworkTo[q.step] # NoStep)
  BY DEF Fine, RunOK, QuestionsFit, ReworkTo
<1>3. Fine(g, t) /\ t.phase = "Running" /\ t.slots = s.slots
  <2>1. s.phase = "Running"
    BY <1>2, SlotsMeanRunning
  <2>2. Fine(g, t) /\ MarkedAs(s, t, k, [s.questions[k] EXCEPT !.answered = TRUE])
    BY AnsweredKeeps
  <2> QED BY <2>1, <2>2 DEF MarkedAs
<1>4. CASE q.asked = "escalation"
  <2>1. q.slot \in Slots(t)
    BY <1>2, <1>3, <1>4 DEF Slots
  <2>2. Fine(g, Restart(t, q.slot, TRUE))
    BY <1>3, <2>1, RestartKeeps
  <2> QED BY <1>4, <2>2
<1>5. CASE q.asked # "escalation" /\ disposition = "Continue"
  <2>1. ReworkTo[q.step] # NoStep
    BY <1>1, <1>2, <1>5 DEF QuestionSet
  <2>2. Fine(g, Rework(t, q.step, q.pass))
    BY <1>1, <1>3, <2>1, ReworkKeeps
  <2> QED BY <1>5, <2>2
<1>6. CASE q.asked # "escalation" /\ disposition # "Continue"
  <2>1. Fine(g, Onward(t, q.step, "Accepted"))
    BY <1>1, <1>3, OnwardKeeps
  <2> QED BY <1>6, <2>1
<1> QED BY <1>4, <1>5, <1>6

\* A person's resume lets the seat's budgets start over.
Freshened(s, i) == [s EXCEPT !.slots[i].fresh = TRUE]

\* What it changes of the state before the next attempt starts.
Resumed(g, s, t, i) ==
  /\ Touch(g, s, t, i) /\ t.slots[i].fresh /\ ~Armed(t, "hold_retry", i)
  /\ t.slots[i].at = s.slots[i].at /\ t.slots[i].restart = s.slots[i].restart
  /\ t.slots[i].step = s.slots[i].step /\ t.slots[i].visit = s.slots[i].visit
  /\ t.slots[i].member = s.slots[i].member /\ t.slots[i].attempt = s.slots[i].attempt
  /\ t.slots[i].restarts = s.slots[i].restarts /\ t.slots[i].escalate = s.slots[i].escalate

LEMMA ResumedFacts ==
  ASSUME NEW g, NEW s, Fine(g, s), ~Over(s), NEW i \in Slots(s),
         s.slots[i].condition \in {"Held", "Parked"},
         NEW a, a = SetCondition(s, i, "none"), NEW b, b = Freshened(a, i),
         NEW t, t = ClearTimers(b, {"hold_retry"}, i)
  PROVE  Fine(g, t) /\ Resumed(g, s, t, i)
<1> DEFINE old == s.slots[i]
           c == [old EXCEPT !.condition = "none"]
           r == [c EXCEPT !.fresh = TRUE]
<1>1. s \in StateSet(g) /\ old \in SlotSet(g) /\ i \in Nat /\ SlotOK(g, s, i) /\ Touch(g, s, s, i)
  BY SlotKnown, TouchSelf
<1>2. c \in SlotSet(g) /\ r \in SlotSet(g)
  BY <1>1 DEF SlotSet
<1>3. /\ r.condition = "none" /\ r.at = old.at /\ r.open = old.open /\ r.restart = old.restart /\ r.live = old.live
      /\ r.ladder = old.ladder /\ r.blind = old.blind /\ r.sampling = old.sampling /\ r.logged = old.logged
  BY <1>1 DEF SlotSet
<1>14. /\ r.fresh /\ r.step = old.step /\ r.visit = old.visit /\ r.member = old.member /\ r.attempt = old.attempt
       /\ r.restarts = old.restarts /\ r.escalate = old.escalate
  BY <1>1 DEF SlotSet
<1>4. a = With(s, i, c)
  BY SetConditionIsWith
<1> HIDE DEF c
<1>5. Touch(g, s, a, i) /\ a.slots[i] = c /\ \A p, j : Armed(a, p, j) <=> Armed(s, p, j)
  BY <1>1, <1>2, <1>4, TouchWith, SMTT(30)
<1>6. b = With(a, i, r)
  BY <1>5 DEF Freshened, With
<1> HIDE DEF r
<1>7. Touch(g, s, b, i) /\ b.slots[i] = r /\ \A p, j : Armed(b, p, j) <=> Armed(s, p, j)
  BY <1>2, <1>5, <1>6, TouchWith
<1>8. Touch(g, s, t, i) /\ t.slots[i] = r /\ \A p, j : Armed(t, p, j) <=> Armed(s, p, j) /\ ~(p = "hold_retry" /\ j = i)
  BY <1>7, TouchClear
<1>9. s.phase = "Running" /\ s.phase # "Finished"
  BY SlotsMeanRunning
<1>10. SlotFits(g, r, s.withdrawn, Over(s), Ready(s))
  BY <1>1, <1>3 DEF SlotOK, SlotFits, LadderFits, Talking
<1>11. TimersFit(t, i, r) /\ Watched(g, t, i, r)
  BY <1>1, <1>3, <1>8 DEF SlotOK, TimersFit, Watched
<1>12. \A p : Armed(t, p, i) => p \in SlotPurposes /\ (Over(s) => p \in StopPurposes)
  BY <1>8, SlotKnown
<1>13. Fine(g, t)
  BY <1>8, <1>9, <1>10, <1>11, <1>12, Replaced
<1>15. Resumed(g, s, t, i)
  BY <1>3, <1>8, <1>14 DEF Resumed
<1> QED BY <1>13, <1>15

LEMMA ResumeSeatKeeps ==
  ASSUME NEW s, given \in DOMAIN Settings, Fine(Settings[given], s), ~Over(s), NEW i \in Slots(s),
         s.slots[i].condition \in {"Held", "Parked"},
         NEW a, a = SetCondition(s, i, "none"), NEW b, b = Freshened(a, i)
  PROVE  Fine(Settings[given], Restart(ClearTimers(b, {"hold_retry"}, i), i, FALSE))
<1> DEFINE g == Settings[given]
           t == ClearTimers(b, {"hold_retry"}, i)
<1>1. Fine(g, t) /\ Resumed(g, s, t, i)
  BY ResumedFacts
<1> HIDE DEF t
<1>2. t.phase = "Running" /\ i \in Slots(t)
  BY <1>1, SlotsMeanRunning DEF Resumed, Touch, RunSame, Slots
<1> QED BY <1>1, <1>2, RestartKeeps DEF t

LEMMA WithdrawnKeeps ==
  ASSUME NEW g, NEW s, Fine(g, s), s.commissioned, s.phase # "Finished", NEW t, t = Forcing(s)
  PROVE  Fine(g, IF Finishing(s) THEN t ELSE FinishRun(t, "Withdrawn"))
<1>1. Fine(g, t)
  BY ForceKeeps DEF Keeps
<1>2. s \in StateSet(g)
  BY DEF Fine
<1>3. RunSame([s EXCEPT !.withdrawn = TRUE], t)
  BY <1>2, ForceFacts
<1>4. t.phase = s.phase /\ t.commissioned = s.commissioned
  BY <1>2, <1>3 DEF RunSame, StateSet
<1>5. CASE Finishing(s)
  BY <1>1, <1>5
<1>6. CASE ~Finishing(s)
  <2>1. ~Over(t)
    BY <1>4, <1>6 DEF Over, Finishing
  <2>2. Fine(g, FinishRun(t, "Withdrawn"))
    BY <1>1, <1>4, <2>1, FinishRunKeeps
  <2> QED BY <1>6, <2>2
<1> QED BY <1>5, <1>6

LEMMA GroupLingeringKeeps ==
  ASSUME NEW g, NEW s, Fine(g, s), NEW i \in Slots(s), Live(s.slots[i]), s.slots[i].at # "Stopping"
  PROVE  Keeps(g, s, IF s.slots[i].at = "Replied" THEN ClearTimers(StartReplyStop(s, i), {"wind_down"}, i)
                 ELSE Conclude(ClearSlotTimers(s, i), i))
<1>1. CASE s.slots[i].at = "Replied"
  <2>1. Keeps(g, s, ClearTimers(StartReplyStop(s, i), {"wind_down"}, i))
    BY <1>1, LingeringReplyKeeps DEF Live, Talking
  <2> QED BY <1>1, <2>1
<1>2. CASE s.slots[i].at # "Replied"
  <2> DEFINE a == ClearSlotTimers(s, i)
  <2>1. s.slots[i].at = "Starting" \/ Talking(s.slots[i])
    BY <1>2 DEF Live
  <2>2. Touch(g, s, a, i) /\ a.slots[i] = s.slots[i] /\ \A p : ~Armed(a, p, i)
    BY SlotKnown, TouchSelf, TouchClearSlot
  <2> HIDE DEF a
  <2>3. Keeps(g, s, Conclude(a, i))
    BY <2>1, <2>2, ConcludeKeeps
  <2> QED BY <1>2, <2>3 DEF a
<1> QED BY <1>1, <1>2

\* --------------------------------------------------------------- timers that fire

LEMMA SpentKeeps ==
  ASSUME NEW g, NEW s, Fine(g, s), NEW q, NEW i \in Slots(s), Armed(s, q, i), q \in {"call_bound", "hold_retry"},
         q = "call_bound" => ~s.slots[i].blind
  PROVE  Keeps(g, s, Spent(s, q, i))
<1> DEFINE t == Spent(s, q, i)
<1>1. s \in StateSet(g) /\ SlotOK(g, s, i) /\ Touch(g, s, s, i)
  BY SlotKnown, TouchSelf
<1>2. Touch(g, s, t, i) /\ t.slots = s.slots /\ \A p, j : Armed(t, p, j) <=> Armed(s, p, j) /\ ~(p = q /\ j = i)
  BY <1>1, TouchSpent
<1> HIDE DEF t
<1>3. s.phase # "Finished"
  BY ArmedIsUnfinished
<1>4. SlotFits(g, s.slots[i], s.withdrawn, Over(s), Ready(s))
  BY <1>1 DEF SlotOK
<1>5. TimersFit(t, i, s.slots[i]) /\ Watched(g, t, i, s.slots[i])
  BY <1>1, <1>2 DEF SlotOK, TimersFit, Watched
<1>6. \A p : Armed(t, p, i) => p \in SlotPurposes /\ (Over(s) => p \in StopPurposes)
  BY <1>2, SlotKnown
<1>7. Keeps(g, s, t)
  <2>1. Alike(s.slots[i], s.slots[i])
    BY AlikeSelf
  <2>2. Armed(t, "hold_retry", i) => Armed(s, "hold_retry", i)
    BY <1>2
  <2> QED BY <1>2, <1>3, <1>4, <1>5, <1>6, <2>1, <2>2, ReplacedSteady
<1> QED BY <1>7 DEF t

LEMMA RunTimerKeeps ==
  ASSUME NEW s, given \in DOMAIN Settings, Fine(Settings[given], s), NEW q \in RunPurposes, Armed(s, q, 0)
  PROVE  Keeps(Settings[given], s, Fired(Spent(s, q, 0), q, 0))
<1> DEFINE g == Settings[given]
           a == Spent(s, q, 0)
<1>1. s \in StateSet(g) /\ g.max_attempts \in Nat \ {0}
  BY Given DEF Fine
<1>2. /\ a \in StateSet(g) /\ RunSame(s, a) /\ a.slots = s.slots
      /\ \A p, j : Armed(a, p, j) <=> Armed(s, p, j) /\ ~(p = q /\ j = 0)
  BY <1>1, SpentFacts
<1> HIDE DEF a
<1>3. CASE q = "root_deadline"
  <2> DEFINE n == a.root_periods + 1
             b == [a EXCEPT !.root_periods = n]
  <2>1. n = s.root_periods + 1 /\ n \in Nat
    BY <1>1, <1>2 DEF RunSame, StateSet
  <2>2. Fired(a, q, 0) = IF n >= g.max_attempts THEN [b EXCEPT !.condition = "root_failed"]
                         ELSE SetTimer(b, "root_deadline", 0)
    BY <1>3 DEF Fired, MaxAttempts
  <2> HIDE DEF n
  <2>3. /\ b \in StateSet(g) /\ b.timers = a.timers
        /\ RunIs(a, b, a.phase, a.commissioned, a.root, a.tree, a.park, a.condition, n, a.cancel_owed)
    BY <1>2, <2>1, NewPeriods
  <2> HIDE DEF b
  <2>4. RunIs(s, b, s.phase, s.commissioned, s.root, s.tree, s.park, s.condition, n, s.cancel_owed)
    BY <1>2, <2>3 DEF RunIs, RunSame
  <2>5. \A p, j : Armed(b, p, j) <=> Armed(s, p, j) /\ ~(p = "root_deadline" /\ j = 0)
    BY <1>2, <1>3, <2>3 DEF Armed
  <2>6. Keeps(g, s, Fired(a, q, 0))
    <3>1. Armed(s, "root_deadline", 0) /\ b \in StateSet(g) /\ n = s.root_periods + 1
      BY <1>3, <2>1, <2>3
    <3>2. Keeps(g, s, IF n >= g.max_attempts THEN [b EXCEPT !.condition = "root_failed"]
                      ELSE SetTimer(b, "root_deadline", 0))
      BY <1>1, <2>4, <2>5, <3>1, RootDeadlineKeeps
    <3> QED BY <2>2, <3>2
  <2> QED BY <2>6 DEF a
<1>4. CASE q = "tree_window"
  <2>1. Fired(a, q, 0) = [a EXCEPT !.cancel_owed = TRUE, !.condition = "tree_refused"]
    BY <1>4 DEF Fired
  <2>2. /\ Armed(s, "tree_window", 0)
        /\ \A p, j : Armed(a, p, j) <=> Armed(s, p, j) /\ ~(p = "tree_window" /\ j = 0)
    BY <1>2, <1>4
  <2>3. Keeps(g, s, [a EXCEPT !.cancel_owed = TRUE, !.condition = "tree_refused"])
    BY <1>2, <2>2, TreeWindowKeeps
  <2> QED BY <2>1, <2>3 DEF a
<1> QED BY <1>3, <1>4 DEF RunPurposes

LEMMA SlotTimerKeeps ==
  ASSUME NEW s, given \in DOMAIN Settings, Fine(Settings[given], s), NEW i \in Slots(s), NEW q \in SlotPurposes,
         Armed(s, q, i), q # "hold_retry"
  PROVE  Keeps(Settings[given], s, Fired(Spent(s, q, i), q, i))
<1> DEFINE g == Settings[given]
           a == Spent(s, q, i)
           r == s.slots[i]
<1>1. s \in StateSet(g) /\ SlotOK(g, s, i) /\ Touch(g, s, s, i)
  BY SlotKnown, TouchSelf
<1>2. Touch(g, s, a, i) /\ a.slots = s.slots /\ \A p, j : Armed(a, p, j) <=> Armed(s, p, j) /\ ~(p = q /\ j = i)
  BY <1>1, TouchSpent
<1>3. TimersFit(s, i, r)
  BY <1>1 DEF SlotOK
<1> HIDE DEF a
<1>4. CASE q = "start_deadline"
  <2>1. r.at = "Starting"
    BY <1>3, <1>4 DEF TimersFit
  <2>2. \A p : Armed(a, p, i) => Armed(s, p, i) /\ p \notin SignsOfLife
    BY <1>2, <1>3, <1>4, <2>1 DEF TimersFit, SignsOfLife
  <2>3. Keeps(g, s, Conclude(a, i))
    BY <1>2, <2>1, <2>2, ConcludeKeeps
  <2> QED BY <1>4, <2>3 DEF Fired, a
<1>5. CASE q = "quiet"
  <2>1. r.at = "Running" /\ ~r.open
    BY <1>3, <1>5 DEF TimersFit
  <2>2. \A p : Armed(a, p, i) => Armed(s, p, i) /\ p \notin {"quiet", "subprocess_idle", "call_bound"}
    BY <1>2, <1>3, <1>5, <2>1 DEF TimersFit
  <2>3. Keeps(g, s, GoQuiet(a, i))
    BY <1>2, <2>1, <2>2, GoQuietKeeps
  <2> QED BY <1>5, <2>3 DEF Fired, a
<1>6. CASE q = "subprocess_idle"
  <2> DEFINE b == ClearTimers(a, {"call_bound"}, i)
  <2>1. r.at = "Running" /\ r.open
    BY <1>3, <1>6 DEF TimersFit
  <2>2. Touch(g, s, b, i) /\ b.slots = s.slots /\ \A p, j : Armed(b, p, j) <=> Armed(a, p, j) /\ ~(p = "call_bound" /\ j = i)
    BY <1>2, TouchClear
  <2> HIDE DEF b
  <2>3. \A p : Armed(b, p, i) => Armed(s, p, i) /\ p \notin {"quiet", "subprocess_idle", "call_bound"}
    BY <1>2, <1>3, <1>6, <2>1, <2>2 DEF TimersFit
  <2>4. Keeps(g, s, GoQuiet(b, i))
    BY <2>1, <2>2, <2>3, GoQuietKeeps
  <2> QED BY <1>6, <2>4 DEF Fired, a, b
<1>7. CASE q = "call_bound" /\ r.blind
  <2> DEFINE b == ClearTimers(a, {"subprocess_idle"}, i)
  <2>1. r.at = "Running" /\ r.open
    BY <1>3, <1>7 DEF TimersFit
  <2>2. /\ Touch(g, s, b, i) /\ b.slots = s.slots
        /\ \A p, j : Armed(b, p, j) <=> Armed(a, p, j) /\ ~(p = "subprocess_idle" /\ j = i)
    BY <1>2, TouchClear
  <2> HIDE DEF b
  <2>3. \A p : Armed(b, p, i) => Armed(s, p, i) /\ p \notin {"quiet", "subprocess_idle", "call_bound"}
    BY <1>2, <1>3, <1>7, <2>1, <2>2 DEF TimersFit
  <2>4. Keeps(g, s, GoQuiet(b, i))
    BY <2>1, <2>2, <2>3, GoQuietKeeps
  <2>5. a.slots[i].blind
    BY <1>2, <1>7
  <2>6. Fired(a, q, i) = GoQuiet(b, i)
    BY <1>7, <2>5 DEF Fired, b
  <2> QED BY <2>4, <2>6 DEF a
<1>8. CASE q = "call_bound" /\ ~r.blind
  <2>1. Keeps(g, s, a)
    BY <1>8, SpentKeeps DEF a
  <2>2. ~a.slots[i].blind
    BY <1>2, <1>8
  <2>3. Fired(a, q, i) = a
    BY <1>8, <2>2 DEF Fired
  <2> QED BY <2>1, <2>3 DEF a
<1>9. CASE q = "confirm"
  <2> DEFINE b == ClearSlotTimers(a, i)
  <2>1. Talking(r)
    BY <1>3, <1>9 DEF TimersFit, Talking
  <2>2. Touch(g, s, b, i) /\ b.slots = s.slots /\ \A p : ~Armed(b, p, i)
    BY <1>2, TouchClearSlot
  <2> HIDE DEF b
  <2>3. Keeps(g, s, Conclude(b, i))
    BY <2>1, <2>2, ConcludeKeeps
  <2> QED BY <1>9, <2>3 DEF Fired, a, b
<1>10. CASE q = "stop_grace_1"
  <2>1. Keeps(g, s, GraceOver(a, i, 1))
    <3>1. q = IF 1 = 1 THEN "stop_grace_1" ELSE "stop_grace_2"
      BY <1>10
    <3> QED BY <3>1, GraceOverKeeps DEF a
  <2> QED BY <1>10, <2>1 DEF Fired, a
<1>11. CASE q = "stop_grace_2"
  <2>1. Keeps(g, s, GraceOver(a, i, 2))
    <3>1. q = IF 2 = 1 THEN "stop_grace_1" ELSE "stop_grace_2"
      BY <1>11
    <3> QED BY <3>1, GraceOverKeeps DEF a
  <2> QED BY <1>11, <2>1 DEF Fired, a
<1>12. CASE q = "wind_down"
  <2>1. Keeps(g, s, StartReplyStop(a, i))
    BY <1>12, WindDownKeeps DEF a
  <2> QED BY <1>12, <2>1 DEF Fired, a
<1> QED BY <1>4, <1>5, <1>6, <1>7, <1>8, <1>9, <1>10, <1>11, <1>12 DEF SlotPurposes

LEMMA HoldRetryKeeps ==
  ASSUME NEW s, given \in DOMAIN Settings, Fine(Settings[given], s), NEW i \in Slots(s), Armed(s, "hold_retry", i)
  PROVE  Fine(Settings[given], Fired(Spent(s, "hold_retry", i), "hold_retry", i))
<1> DEFINE g == Settings[given]
           a == Spent(s, "hold_retry", i)
<1>1. Fine(g, a)
  BY SpentKeeps DEF Keeps
<1>2. Touch(g, s, a, i)
  BY SlotKnown, TouchSpent
<1> HIDE DEF a
<1>3. ~Over(s)
  BY DEF Fine, RunOK, OnlyStops, StopPurposes
<1>4. s.phase = "Running"
  BY <1>3, SlotsMeanRunning
<1>5. a.phase = "Running" /\ i \in Slots(a)
  BY <1>2, <1>4 DEF Touch, RunSame, Slots
<1>6. Fine(g, Restart(a, i, FALSE))
  BY <1>1, <1>5, RestartKeeps
<1> QED BY <1>6 DEF Fired, a

LEMMA FiredKeeps ==
  ASSUME NEW s, given \in DOMAIN Settings, Fine(Settings[given], s), NEW t \in s.timers
  PROVE  /\ Fine(Settings[given], Fired([s EXCEPT !.timers = s.timers \ {t}], t[1], t[2]))
         /\ t[1] # "hold_retry" => Steady(s, Fired([s EXCEPT !.timers = s.timers \ {t}], t[1], t[2]))
<1>1. s \in StateSet(Settings[given])
  BY DEF Fine
<1>2. t = <<t[1], t[2]>>
  BY <1>1 DEF StateSet
<1>3. Armed(s, t[1], t[2])
  BY <1>2 DEF Armed
<1>4. [s EXCEPT !.timers = s.timers \ {t}] = Spent(s, t[1], t[2])
  BY <1>2 DEF Spent
<1>5. (t[1] \in RunPurposes /\ t[2] = 0) \/ (t[1] \in SlotPurposes /\ t[2] \in Slots(s))
  BY <1>3 DEF Fine, RunOK, TimersTyped
<1>6. CASE t[1] \in RunPurposes /\ t[2] = 0
  BY <1>3, <1>4, <1>6, RunTimerKeeps DEF Keeps
<1>7. CASE t[1] \in SlotPurposes /\ t[2] \in Slots(s) /\ t[1] # "hold_retry"
  BY <1>3, <1>4, <1>7, SlotTimerKeeps DEF Keeps
<1>8. CASE t[1] = "hold_retry" /\ t[2] \in Slots(s)
  BY <1>3, <1>4, <1>8, HoldRetryKeeps
<1> QED BY <1>5, <1>6, <1>7, <1>8

\* -------------------------------------------------------- the attempts of a seat

LEMMA LowestPlace ==
  ASSUME NEW n \in Nat, NEW S \in SUBSET (1 .. n), S # {}
  PROVE  \E i \in S : \A j \in S : i <= j
<1>1. S \in SUBSET Nat
  OBVIOUS
<1>2. PICK k \in S : \A j \in S : ~(<<j, k>> \in OpToRel(<, Nat))
  BY <1>1, NatLessThanWellFounded, WFMin
<1>3. \A j \in S : ~(j < k)
  BY <1>1, <1>2, Zenon DEF OpToRel
<1> QED BY <1>1, <1>3

\* Latest finds the newest attempt of a seat that has one.
LEMMA LatestOf ==
  ASSUME NEW g, NEW s \in StateSet(g), NEW step, NEW visit, NEW member,
         NEW l, l = Latest(s, step, visit, member)
  PROVE  /\ ~HasSeat(s, step, visit, member) => l = 0
         /\ HasSeat(s, step, visit, member) =>
              /\ l \in Slots(s) /\ InVisit(s.slots[l], step, visit) /\ s.slots[l].member = member /\ Newest(s, l)
<1>1. \A j : j \in OfSeat(s, step, visit, member) <=>
               j \in Slots(s) /\ InVisit(s.slots[j], step, visit) /\ s.slots[j].member = member
  BY DEF OfSeat, InVisit
<1>2. HasSeat(s, step, visit, member) <=> OfSeat(s, step, visit, member) # {}
  BY <1>1 DEF HasSeat
<1>3. CASE ~HasSeat(s, step, visit, member)
  BY <1>2, <1>3, LatestFacts
<1>4. CASE HasSeat(s, step, visit, member)
  <2>1. l \in OfSeat(s, step, visit, member) /\ \A j \in OfSeat(s, step, visit, member) : j <= l
    BY <1>2, <1>4, LatestFacts
  <2>2. l \in Slots(s) /\ InVisit(s.slots[l], step, visit) /\ s.slots[l].member = member
    BY <1>1, <2>1
  <2>3. Newest(s, l)
    BY <1>1, <2>1, <2>2 DEF Newest, SameSeat, InVisit
  <2> QED BY <1>4, <2>2, <2>3
<1> QED BY <1>3, <1>4

\* A seat has one newest attempt.
LEMMA NewestIsOne ==
  ASSUME NEW g, NEW s \in StateSet(g), NEW i \in Slots(s), NEW j \in Slots(s), Newest(s, i), Newest(s, j),
         SameSeat(s.slots[i], s.slots[j])
  PROVE  i = j
<1>1. i \in Nat /\ j \in Nat
  BY DEF Slots
<1>2. SameSeat(s.slots[j], s.slots[i])
  BY DEF SameSeat
<1> QED BY <1>1, <1>2 DEF Newest

LEMMA LatestIs ==
  ASSUME NEW g, NEW s \in StateSet(g), NEW i \in Slots(s), Newest(s, i)
  PROVE  Latest(s, s.slots[i].step, s.slots[i].visit, s.slots[i].member) = i
<1> DEFINE r == s.slots[i]
           l == Latest(s, r.step, r.visit, r.member)
<1>1. HasSeat(s, r.step, r.visit, r.member)
  BY DEF HasSeat, InVisit
<1>2. l \in Slots(s) /\ InVisit(s.slots[l], r.step, r.visit) /\ s.slots[l].member = r.member /\ Newest(s, l)
  BY <1>1, LatestOf
<1> HIDE DEF l
<1>3. SameSeat(s.slots[i], s.slots[l])
  BY <1>2 DEF SameSeat, InVisit
<1>4. l = i
  BY <1>2, <1>3, NewestIsOne
<1> QED BY <1>4 DEF l

LEMMA NewestOf ==
  ASSUME NEW g, NEW s \in StateSet(g), NEW i \in Slots(s)
  PROVE  \E j \in Slots(s) : SameSeat(s.slots[i], s.slots[j]) /\ Newest(s, j)
<1> DEFINE r == s.slots[i]
           l == Latest(s, r.step, r.visit, r.member)
<1>1. HasSeat(s, r.step, r.visit, r.member)
  BY DEF HasSeat, InVisit
<1>2. l \in Slots(s) /\ InVisit(s.slots[l], r.step, r.visit) /\ s.slots[l].member = r.member /\ Newest(s, l)
  BY <1>1, LatestOf
<1> HIDE DEF l
<1> QED BY <1>2 DEF SameSeat, InVisit

LEMMA SupersededIs ==
  ASSUME NEW g, NEW s \in StateSet(g), NEW i \in Slots(s), AttemptsRise(s)
  PROVE  Superseded(s, i) <=> ~Newest(s, i)
<1> DEFINE r == s.slots[i]
           l == Latest(s, r.step, r.visit, r.member)
<1>1. HasSeat(s, r.step, r.visit, r.member)
  BY DEF HasSeat, InVisit
<1>2. l \in Slots(s) /\ InVisit(s.slots[l], r.step, r.visit) /\ s.slots[l].member = r.member /\ Newest(s, l)
  BY <1>1, LatestOf
<1>3. Superseded(s, i) <=> s.slots[l].attempt # r.attempt
  BY DEF Superseded
<1>4. r \in SlotSet(g) /\ s.slots[l] \in SlotSet(g)
  BY <1>2 DEF StateSet, Slots
<1> HIDE DEF l
<1>5. SameSeat(s.slots[i], s.slots[l]) /\ SameSeat(s.slots[l], s.slots[i])
  BY <1>2 DEF SameSeat, InVisit
<1>6. CASE Newest(s, i)
  <2>1. l = i
    BY <1>2, <1>5, <1>6, NewestIsOne
  <2> QED BY <1>3, <1>6, <2>1
<1>7. CASE ~Newest(s, i)
  <2>1. i # l /\ i <= l /\ i \in Nat /\ l \in Nat
    BY <1>2, <1>5, <1>7 DEF Newest, Slots
  <2>2. r.attempt < s.slots[l].attempt /\ r.attempt \in Nat
    BY <1>2, <1>4, <1>5, <2>1 DEF AttemptsRise, SlotSet
  <2> QED BY <1>3, <1>7, <2>2
<1> QED BY <1>6, <1>7

\* ------------------------------------------------- changes that are gentle on seats

\* No attempt is taken up again and no answer is lost.
Milder(r, n) ==
  /\ n.step = r.step /\ n.visit = r.visit /\ n.member = r.member /\ n.attempt = r.attempt
  /\ n.restarts = r.restarts /\ (Busy(n) => Busy(r))
  /\ r.at = "Replied" => n.at = "Replied" /\ n.escalate = r.escalate
  /\ n.escalate => r.escalate \/ r.member # Synth

Gentle(s, t) ==
  /\ Len(t.slots) = Len(s.slots) /\ \A i \in Slots(s) : Milder(s.slots[i], t.slots[i])
  /\ t.visits = s.visits /\ t.current = s.current

LEMMA GentleFacts ==
  ASSUME NEW g, NEW s, NEW t, Gentle(s, t)
  PROVE  /\ Slots(t) = Slots(s)
         /\ \A i \in Slots(s) : Newest(t, i) <=> Newest(s, i)
         /\ \A i \in Slots(s) : Voted(s.slots[i]) => Voted(t.slots[i])
         /\ \A step, visit : Begun(t, step, visit) <=> Begun(s, step, visit)
         /\ \A step, visit : Current(t, step, visit) <=> Current(s, step, visit)
         /\ \A step, visit, m : HasSeat(t, step, visit, m) <=> HasSeat(s, step, visit, m)
         /\ \A step, visit : Clear(s, step, visit) => Clear(t, step, visit)
         /\ \A step, visit : Complete(g, s, step, visit) => Complete(g, t, step, visit)
<1>1. Slots(t) = Slots(s)
  BY DEF Gentle, Slots
<1>2. \A i \in Slots(s) : t.slots[i].step = s.slots[i].step /\ t.slots[i].visit = s.slots[i].visit
                          /\ t.slots[i].member = s.slots[i].member
  BY DEF Gentle, Milder
<1>3. \A i \in Slots(s) : Newest(t, i) <=> Newest(s, i)
  BY <1>1, <1>2 DEF Newest, SameSeat
<1>4. \A i \in Slots(s) : Voted(s.slots[i]) => Voted(t.slots[i])
  BY DEF Gentle, Milder, Voted
<1>5. \A step, visit : Begun(t, step, visit) <=> Begun(s, step, visit)
  BY <1>1, <1>2 DEF Begun, InVisit
<1>6. \A step, visit : Current(t, step, visit) <=> Current(s, step, visit)
  BY DEF Gentle, Current
<1>7. \A step, visit, m : HasSeat(t, step, visit, m) <=> HasSeat(s, step, visit, m)
  BY <1>1, <1>2 DEF HasSeat, InVisit
<1>8. \A step, visit : Clear(s, step, visit) => Clear(t, step, visit)
  BY <1>1, <1>2, <1>3, <1>4 DEF Clear, InVisit
<1>9. \A step, visit : Complete(g, s, step, visit) => Complete(g, t, step, visit)
  BY <1>7, <1>8 DEF Complete
<1> QED BY <1>1, <1>3, <1>4, <1>5, <1>6, <1>7, <1>8, <1>9

\* Nobody is asked about a pass.
Unasked(s) == \A k \in 1 .. Len(s.questions) : s.questions[k].asked = "ceiling" => ~Open(s.questions[k])

LEMMA CoreGentle ==
  ASSUME NEW g, NEW s, Core(g, s), NEW t, Gentle(s, t), RetriesFit(t), SameQuestions(s, t),
         t.passes = s.passes \/ Unasked(s), Over(s) => Over(t),
         t.outcome \in {"Delivered", "Accepted"} =>
           t.outcome = s.outcome \/ (s.current # NoStep /\ Complete(g, s, s.current, s.visits[s.current]))
  PROVE  Core(g, t)
<1>1. /\ Slots(t) = Slots(s)
      /\ \A i \in Slots(s) : Newest(t, i) <=> Newest(s, i)
      /\ \A step, visit : Begun(t, step, visit) <=> Begun(s, step, visit)
      /\ \A step, visit : Current(t, step, visit) <=> Current(s, step, visit)
      /\ \A step, visit, m : HasSeat(t, step, visit, m) <=> HasSeat(s, step, visit, m)
      /\ \A step, visit : Complete(g, s, step, visit) => Complete(g, t, step, visit)
  BY GentleFacts
<1>2. \A i \in Slots(s) : Milder(s.slots[i], t.slots[i])
  BY DEF Gentle
<1>3. t.visits = s.visits /\ t.current = s.current
  BY DEF Gentle
<1>4. ASSUME NEW i \in Slots(t)
      PROVE  SeatFits(g, t, t.slots[i])
  <2>1. SeatFits(g, s, s.slots[i]) /\ Milder(s.slots[i], t.slots[i])
    BY <1>1, <1>2, <1>4 DEF Core
  <2> QED BY <1>1, <1>3, <2>1 DEF SeatFits, Milder
<1>5. AttemptsRise(t)
  BY <1>1, <1>2 DEF Core, AttemptsRise, Milder, SameSeat
<1>6. BusyIsNewest(t)
  BY <1>1, <1>2 DEF Core, BusyIsNewest, Milder
<1>7. Len(t.questions) = Len(s.questions)
  BY DEF SameQuestions
<1>8. ASSUME NEW k \in 1 .. Len(t.questions)
      PROVE  EscalationFits(t, t.questions[k]) /\ CeilingFits(g, t, t.questions[k])
  <2> DEFINE q == s.questions[k]
             n == t.questions[k]
  <2>1. EscalationFits(s, q) /\ CeilingFits(g, s, q)
    BY <1>7, <1>8 DEF Core, Asked
  <2>2. /\ n.asked = q.asked /\ n.slot = q.slot /\ n.step = q.step /\ n.visit = q.visit /\ n.pass = q.pass
        /\ (Open(n) <=> Open(q)) /\ (t.passes = s.passes \/ (q.asked = "ceiling" => ~Open(q)))
    BY <1>7, <1>8 DEF SameQuestions, Open, Unasked
  <2> HIDE DEF q, n
  <2>3. EscalationFits(t, n)
    BY <1>1, <1>2, <2>1, <2>2 DEF EscalationFits, Milder
  <2>4. CeilingFits(g, t, n)
    BY <1>1, <2>1, <2>2 DEF CeilingFits
  <2> QED BY <2>3, <2>4 DEF n
<1>9. \A j, k \in 1 .. Len(t.questions) : SameMatter(t.questions[j], t.questions[k]) => j = k
  BY <1>7 DEF SameQuestions, SameMatter, Core, Asked
<1>10. Underway(g, t)
  BY <1>1, <1>3 DEF Core, Underway
<1> QED BY <1>4, <1>5, <1>6, <1>8, <1>9, <1>10 DEF Core, Asked

\* ------------------------------------------------------------ what seats keep

\* All but that who waits does so for a process.
Almost(g, s) ==
  /\ Core(g, s) /\ OneEach(g, s) /\ CeilingsHold(g, s)
  /\ ~Over(s) => /\ \A i \in Slots(s) : Accounted(s, i)
                 /\ s.current # NoStep => AsksOn(s)

LEMMA AlmostWaiting ==
  ASSUME NEW g, NEW s
  PROVE  Seats(g, s) <=> Almost(g, s) /\ (~Over(s) => Waiting(s))
BY DEF Seats, Almost, Settled

\* No more processes.
Calmer(s, t) ==
  /\ Len(t.slots) = Len(s.slots)
  /\ \A i \in Slots(s) : t.slots[i].member = s.slots[i].member /\ (Live(t.slots[i]) => Live(s.slots[i]))

LEMMA OneEachCalmer ==
  ASSUME NEW g, NEW s, OneEach(g, s), NEW t, Calmer(s, t)
  PROVE  OneEach(g, t)
BY DEF OneEach, Calmer, Slots

LEMMA SamePermits ==
  ASSUME NEW s, NEW t, SameQuestions(s, t), NEW step
  PROVE  Permits(t, step) = Permits(s, step)
BY DEF SameQuestions, Permits

LEMMA SameCeilings ==
  ASSUME NEW g, NEW s, CeilingsHold(g, s), NEW t, SameQuestions(s, t), t.passes = s.passes
  PROVE  CeilingsHold(g, t)
BY SamePermits DEF CeilingsHold

LEMMA SameAsks ==
  ASSUME NEW s, NEW t, SameQuestions(s, t)
  PROVE  /\ OpenQuestions(t) = OpenQuestions(s)
         /\ \A i : AsksAbout(t, i) <=> AsksAbout(s, i)
         /\ (\E k \in OpenQuestions(t) : t.questions[k].asked = "ceiling") <=>
              (\E k \in OpenQuestions(s) : s.questions[k].asked = "ceiling")
<1>1. OpenQuestions(t) = OpenQuestions(s)
  BY DEF SameQuestions, OpenQuestions, Open
<1>2. \A k \in OpenQuestions(s) : t.questions[k].asked = s.questions[k].asked /\ t.questions[k].slot = s.questions[k].slot
  BY DEF SameQuestions, OpenQuestions
<1> QED BY <1>1, <1>2 DEF AsksAbout

\* A slot is accounted for as before.
LEMMA SameAccount ==
  ASSUME NEW s, NEW t, SameQuestions(s, t), NEW i, Accounted(s, i), Newest(t, i) => Newest(s, i),
         Busy(s.slots[i]) => Busy(t.slots[i]),
         s.slots[i].at = "Replied" => t.slots[i].at = "Replied" /\ t.slots[i].escalate = s.slots[i].escalate,
         s.slots[i].at = "Ended" => t.slots[i].at = "Ended" /\ t.slots[i].condition = s.slots[i].condition
  PROVE  Accounted(t, i)
<1>1. AsksAbout(t, i) <=> AsksAbout(s, i)
  BY SameAsks
<1> QED BY <1>1 DEF Accounted, Voted

LEMMA AsksOnStill ==
  ASSUME NEW s, NEW t, SameQuestions(s, t), AsksOn(s), Gentle(s, t),
         \A i \in Slots(s) : Voted(t.slots[i]) => Voted(s.slots[i])
  PROVE  AsksOn(t)
<1>1. /\ Slots(t) = Slots(s)
      /\ \A i \in Slots(s) : Newest(t, i) <=> Newest(s, i)
  BY GentleFacts
<1>2. \A i \in Slots(s) : t.slots[i].step = s.slots[i].step /\ t.slots[i].visit = s.slots[i].visit
  BY DEF Gentle, Milder
<1>3. t.visits = s.visits /\ t.current = s.current
  BY DEF Gentle
<1>4. Clear(t, t.current, t.visits[t.current]) => Clear(s, s.current, s.visits[s.current])
  BY <1>1, <1>2, <1>3 DEF Clear, InVisit
<1> QED BY <1>4, SameAsks DEF AsksOn

LEMMA EvenAlmost ==
  ASSUME NEW g, NEW s, Almost(g, s), NEW t, Even(s, t)
  PROVE  Almost(g, t)
<1>1. \A i \in Slots(s) : Alike(s.slots[i], t.slots[i])
  BY DEF Even
<1>2. Gentle(s, t)
  BY <1>1 DEF Even, Alike, Gentle, Milder
<1>3. Slots(t) = Slots(s) /\ \A i \in Slots(s) : Newest(t, i) <=> Newest(s, i)
  BY <1>2, GentleFacts
<1>4. RetriesFit(t)
  BY <1>1, <1>3 DEF Almost, Core, RetriesFit, RetryFits, Even, Alike
<1>5. Core(g, t)
  BY <1>2, <1>4, CoreGentle DEF Almost, Even
<1>6. OneEach(g, t)
  BY <1>1, OneEachCalmer DEF Almost, Even, Alike, Calmer
<1>7. CeilingsHold(g, t)
  BY SameCeilings DEF Almost, Even
<1>8. ASSUME ~Over(t), NEW i \in Slots(t)
      PROVE  Accounted(t, i)
  <2>1. Accounted(s, i) /\ SameQuestions(s, t) /\ Alike(s.slots[i], t.slots[i]) /\ (Newest(t, i) => Newest(s, i))
    BY <1>1, <1>3, <1>8 DEF Almost, Even
  <2> QED BY <2>1, SameAccount DEF Alike
<1>9. ASSUME ~Over(t), t.current # NoStep
      PROVE  AsksOn(t)
  <2>1. AsksOn(s) /\ SameQuestions(s, t)
    BY <1>9 DEF Almost, Even
  <2>2. \A i \in Slots(s) : Voted(t.slots[i]) => Voted(s.slots[i])
    BY <1>1 DEF Voted, Alike
  <2> QED BY <1>2, <2>1, <2>2, AsksOnStill
<1> QED BY <1>5, <1>6, <1>7, <1>8, <1>9 DEF Almost

LEMMA SteadySeats ==
  ASSUME NEW g, NEW s, Seats(g, s), NEW t, Steady(s, t)
  PROVE  Seats(g, t)
<1>1. Even(s, t)
  BY DEF Steady, Even
<1>2. Almost(g, t)
  BY <1>1, EvenAlmost, AlmostWaiting
<1>3. ASSUME ~Over(t)
      PROVE  Waiting(t)
  <2>1. Waiting(s) /\ (TreePrepared(t) => TreePrepared(s)) /\ Slots(t) = Slots(s)
    BY <1>3, AlmostWaiting DEF Steady, Slots
  <2>2. \A i \in Slots(s) : Alike(s.slots[i], t.slots[i])
    BY DEF Steady
  <2>3. \A m : PersonaLive(s, m) => PersonaLive(t, m)
    BY <2>1, <2>2 DEF PersonaLive, Alike
  <2> QED BY <2>1, <2>2, <2>3 DEF Waiting, Alike
<1> QED BY <1>2, <1>3, AlmostWaiting

\* arm_ready: nobody who could start waits.
LEMMA ArmReadyWaiting ==
  ASSUME NEW g, NEW s \in StateSet(g)
  PROVE  Waiting(ArmReady(s))
<1>1. CASE ~TreePrepared(s)
  BY <1>1 DEF ArmReady, Waiting
<1>2. CASE TreePrepared(s)
  <2> DEFINE t == ArmReady(s)
  <2>1. /\ RunSame(s, t) /\ Len(t.slots) = Len(s.slots)
        /\ \A i \in Slots(s) :
             t.slots[i] = IF Wakes(s, i) THEN [s.slots[i] EXCEPT !.at = "Starting"] ELSE s.slots[i]
    BY <1>2, ArmReadyFacts
  <2> HIDE DEF t
  <2>2. Slots(t) = Slots(s) /\ Len(s.slots) \in Nat
    BY <2>1 DEF Slots, StateSet
  <2>3. \A i \in Slots(s) : s.slots[i] \in SlotSet(g) /\ i \in Nat
    BY DEF StateSet, Slots
  <2>4. \A i \in Slots(s) : t.slots[i].member = s.slots[i].member /\ (Wakes(s, i) => t.slots[i].at = "Starting")
    BY <2>1, <2>3 DEF SlotSet
  <2>5. \A m : PersonaLive(s, m) => PersonaLive(t, m)
    <3>1. \A i \in Slots(s) : Live(s.slots[i]) => t.slots[i] = s.slots[i]
      BY <2>1 DEF Wakes, Live, Talking
    <3> QED BY <2>2, <3>1 DEF PersonaLive
  <2>6. ASSUME NEW i \in Slots(t), t.slots[i].at = "Pending"
        PROVE  PersonaLive(t, t.slots[i].member)
    <3> DEFINE m == s.slots[i].member
               W == {j \in Slots(s) : s.slots[j].at = "Pending" /\ s.slots[j].member = m}
    <3>1. s.slots[i].at = "Pending"
      BY <2>1, <2>2, <2>4, <2>6
    <3>2. W \in SUBSET (1 .. Len(s.slots)) /\ W # {}
      BY <2>2, <3>1 DEF Slots
    <3>3. PICK j \in W : \A k \in W : j <= k
      BY <2>2, <3>2, LowestPlace
    <3>4. j \in Slots(s) /\ s.slots[j].at = "Pending" /\ s.slots[j].member = m /\ j \in Nat
      BY <2>3
    <3>5. ~\E k \in 1 .. j - 1 : s.slots[k].at = "Pending" /\ s.slots[k].member = m
      <4>1. ASSUME NEW k \in 1 .. j - 1, s.slots[k].at = "Pending", s.slots[k].member = m
            PROVE  FALSE
        <5>1. k \in Slots(s) /\ k < j
          BY <2>2, <3>4 DEF Slots
        <5> QED BY <2>3, <3>3, <3>4, <4>1, <5>1
      <4> QED BY <4>1
    <3>6. CASE PersonaLive(s, m)
      BY <2>2, <2>4, <2>5, <2>6, <3>6
    <3>7. CASE ~PersonaLive(s, m)
      <4>1. Wakes(s, j)
        BY <3>4, <3>5, <3>7 DEF Wakes
      <4>2. t.slots[j].at = "Starting" /\ t.slots[j].member = m /\ t.slots[i].member = m
        BY <2>2, <2>4, <2>6, <3>4, <4>1
      <4> QED BY <2>2, <3>4, <4>2 DEF PersonaLive, Live
    <3> QED BY <3>6, <3>7
  <2> QED BY <2>6 DEF Waiting, t
<1> QED BY <1>1, <1>2

LEMMA ArmReadySeats ==
  ASSUME NEW g, NEW s, Fine(g, s), Almost(g, s), ~Over(s)
  PROVE  Seats(g, ArmReady(s))
<1>1. s \in StateSet(g)
  BY DEF Fine
<1>2. CASE ~TreePrepared(s)
  BY <1>2, AlmostWaiting DEF ArmReady, Waiting
<1>3. CASE TreePrepared(s)
  <2> DEFINE t == ArmReady(s)
  <2>1. /\ RunSame(s, t) /\ Len(t.slots) = Len(s.slots)
        /\ \A i \in Slots(s) :
             t.slots[i] = IF Wakes(s, i) THEN [s.slots[i] EXCEPT !.at = "Starting"] ELSE s.slots[i]
        /\ \A p, i : Armed(t, p, i) <=> Armed(s, p, i) \/ (p = "start_deadline" /\ i \in Slots(s) /\ Wakes(s, i))
    BY <1>1, <1>3, ArmReadyFacts
  <2>2. Waiting(t)
    BY <1>1, ArmReadyWaiting
  <2> HIDE DEF t
  <2>3. Slots(t) = Slots(s) /\ (Over(t) <=> Over(s)) /\ SameQuestions(s, t) /\ t.passes = s.passes /\ t.outcome = s.outcome
        /\ t.current = s.current /\ t.visits = s.visits
    BY <2>1 DEF Slots, RunSame, Over, SameQuestions
  <2>4. \A i \in Slots(s) : s.slots[i] \in SlotSet(g) /\ i \in Nat
    BY <1>1 DEF StateSet, Slots
  <2>5. ASSUME NEW i \in Slots(s)
        PROVE  \/ t.slots[i] = s.slots[i]
               \/ /\ Wakes(s, i) /\ s.slots[i].at = "Pending" /\ t.slots[i].at = "Starting"
                  /\ t.slots[i].step = s.slots[i].step /\ t.slots[i].visit = s.slots[i].visit
                  /\ t.slots[i].member = s.slots[i].member /\ t.slots[i].attempt = s.slots[i].attempt
                  /\ t.slots[i].restarts = s.slots[i].restarts /\ t.slots[i].escalate = s.slots[i].escalate
    <3>1. CASE Wakes(s, i)
      <4>1. t.slots[i] = [s.slots[i] EXCEPT !.at = "Starting"] /\ s.slots[i] \in SlotSet(g)
        BY <2>1, <2>4, <3>1
      <4>2. s.slots[i].at = "Pending"
        BY <3>1 DEF Wakes
      <4> QED BY <3>1, <4>1, <4>2 DEF SlotSet
    <3>2. CASE ~Wakes(s, i)
      BY <2>1, <3>2
    <3> QED BY <3>1, <3>2
  <2>6. Gentle(s, t)
    BY <2>1, <2>3, <2>5 DEF Gentle, Milder, Busy
  <2>7. \A i \in Slots(s) : Newest(t, i) <=> Newest(s, i)
    BY <2>6, GentleFacts
  <2>8. RetriesFit(t)
    BY <2>1, <2>3, <2>5, <2>7 DEF Almost, Core, RetriesFit, RetryFits
  <2>9. Core(g, t)
    BY <2>3, <2>6, <2>8, CoreGentle DEF Almost
  <2>10. CeilingsHold(g, t)
    BY <2>3, SameCeilings DEF Almost
  <2>11. OneEach(g, t)
    <3>1. SUFFICES ASSUME "late_start" \notin g.may, NEW i \in Slots(s), NEW j \in Slots(s), Live(t.slots[i]), Live(t.slots[j]),
                          t.slots[i].member = t.slots[j].member
                   PROVE  i = j
      BY <2>3 DEF OneEach
    <3>2. s.slots[i].member = s.slots[j].member /\ i \in Nat /\ j \in Nat
      BY <2>4, <2>5, <3>1
    <3>3. CASE t.slots[i] = s.slots[i] /\ t.slots[j] = s.slots[j]
      BY <3>1, <3>2, <3>3 DEF Almost, OneEach
    <3>4. CASE t.slots[i] = s.slots[i] /\ Wakes(s, j)
      BY <3>1, <3>2, <3>4 DEF Wakes, PersonaLive
    <3>5. CASE Wakes(s, i) /\ t.slots[j] = s.slots[j]
      BY <3>1, <3>2, <3>5 DEF Wakes, PersonaLive
    <3>6. CASE Wakes(s, i) /\ Wakes(s, j)
      <4>1. ~(i \in 1 .. j - 1) /\ ~(j \in 1 .. i - 1)
        BY <3>2, <3>6 DEF Wakes
      <4>2. i >= 1 /\ j >= 1
        BY DEF Slots
      <4> QED BY <3>2, <4>1, <4>2
    <3> QED BY <2>5, <3>3, <3>4, <3>5, <3>6
  <2>12. ASSUME NEW i \in Slots(t)
         PROVE  Accounted(t, i)
    <3>1. Accounted(s, i) /\ SameQuestions(s, t) /\ (Newest(t, i) => Newest(s, i))
      BY <2>3, <2>7, <2>12 DEF Almost
    <3>2. Busy(s.slots[i]) => Busy(t.slots[i])
      BY <2>3, <2>5, <2>12 DEF Busy
    <3>3. /\ s.slots[i].at = "Replied" => t.slots[i].at = "Replied" /\ t.slots[i].escalate = s.slots[i].escalate
          /\ s.slots[i].at = "Ended" => t.slots[i].at = "Ended" /\ t.slots[i].condition = s.slots[i].condition
      BY <2>3, <2>5, <2>12
    <3> QED BY <3>1, <3>2, <3>3, SameAccount
  <2>13. t.current # NoStep => AsksOn(t)
    <3>1. \A i \in Slots(s) : Voted(t.slots[i]) => Voted(s.slots[i])
      BY <2>5 DEF Voted
    <3> QED BY <2>3, <2>6, <3>1, AsksOnStill DEF Almost
  <2>14. Almost(g, t)
    BY <2>9, <2>10, <2>11, <2>12, <2>13 DEF Almost
  <2> QED BY <2>2, <2>14, AlmostWaiting DEF t
<1> QED BY <1>2, <1>3

\* ------------------------------------------------------------ attempts that join

\* Attempt i makes way for a later one: nothing waits for it.
Yields(s, i) ==
  /\ ~Busy(s.slots[i]) /\ ~Armed(s, "hold_retry", i) /\ ~AsksAbout(s, i)

\* The slots of t that s has not.
Fresh(s, t) == {i \in Slots(t) : i \notin Slots(s)}

\* In t attempts joined those of s, in a visit that is now the current one.
Joins(g, s, t, step, visit) ==
  /\ Grown(g, s, t) /\ t.current = step /\ t.visits = [s.visits EXCEPT ![step] = visit]
  /\ step \in g.step /\ visit \in Nat /\ s.visits[step] <= visit /\ Fresh(s, t) # {}
  /\ \A i \in Fresh(s, t) :
       /\ InVisit(t.slots[i], step, visit) /\ t.slots[i].restarts < g.max_attempts
       /\ MemberOf(g, step, t.slots[i].member) \/ (t.slots[i].member = Synth /\ step \in g.fan_out)
       /\ \A j \in Fresh(s, t) : t.slots[i].member = t.slots[j].member => i = j
       /\ \A j \in Slots(s) : SameSeat(t.slots[i], s.slots[j]) =>
                                Yields(s, j) /\ s.slots[j].attempt < t.slots[i].attempt
  /\ \A m : MemberOf(g, step, m) => HasSeat(t, step, visit, m)

\* The other visits are complete, and no question is about this one.
Leaves(g, s, step, visit) ==
  /\ \A i \in Slots(s) : InVisit(s.slots[i], step, visit) \/ Complete(g, s, s.slots[i].step, s.slots[i].visit)
  /\ \A k \in 1 .. Len(s.questions) : s.questions[k].asked = "ceiling" =>
       ~Open(s.questions[k]) /\ ~(s.questions[k].step = step /\ s.questions[k].visit = visit)

LEMMA JoinFacts ==
  ASSUME NEW g, NEW s, s \in StateSet(g), NEW t, NEW step, NEW visit, Joins(g, s, t, step, visit)
  PROVE  /\ Slots(s) \subseteq Slots(t) /\ Slots(t) = Slots(s) \cup Fresh(s, t)
         /\ \A i \in Slots(s), j \in Fresh(s, t) : i \in Nat /\ j \in Nat /\ i < j
         /\ \A i \in Slots(s) : t.slots[i] = s.slots[i]
         /\ \A i \in Fresh(s, t) : Newborn(t.slots[i])
         /\ \A i \in Slots(s) :
              Newest(t, i) <=> Newest(s, i) /\ \A j \in Fresh(s, t) : ~SameSeat(t.slots[j], s.slots[i])
         /\ \A i \in Fresh(s, t) : Newest(t, i)
         /\ \A a, b : Begun(s, a, b) => Begun(t, a, b)
         /\ \A a, b, m : HasSeat(s, a, b, m) => HasSeat(t, a, b, m)
         /\ \A a, b : ~(a = step /\ b = visit) /\ Complete(g, s, a, b) => Complete(g, t, a, b)
<1>1. Len(s.slots) \in Nat /\ Len(t.slots) \in Nat /\ Len(t.slots) >= Len(s.slots)
  BY DEF Joins, Grown, StateSet
<1>2. Slots(s) \subseteq Slots(t) /\ Slots(t) = Slots(s) \cup Fresh(s, t)
  BY <1>1 DEF Slots, Fresh
<1>3. \A i \in Slots(s), j \in Fresh(s, t) : i \in Nat /\ j \in Nat /\ i < j
  BY <1>1 DEF Slots, Fresh
<1>4. \A i \in Slots(s) : t.slots[i] = s.slots[i]
  BY DEF Joins, Grown
<1>5. \A i \in Fresh(s, t) : Newborn(t.slots[i])
  BY DEF Joins, Grown, Fresh
<1>6. \A i \in Slots(s) : Newest(t, i) <=> Newest(s, i) /\ \A j \in Fresh(s, t) : ~SameSeat(t.slots[j], s.slots[i])
  <2>1. SUFFICES ASSUME NEW i \in Slots(s)
                 PROVE  Newest(t, i) <=> Newest(s, i) /\ \A j \in Fresh(s, t) : ~SameSeat(t.slots[j], s.slots[i])
    OBVIOUS
  <2>2. \A j \in Fresh(s, t) : ~(j <= i)
    BY <1>3
  <2>3. \A j \in Fresh(s, t) : SameSeat(t.slots[j], s.slots[i]) <=> SameSeat(s.slots[i], t.slots[j])
    BY DEF SameSeat
  <2> QED BY <1>2, <1>4, <2>2, <2>3 DEF Newest
<1>7. \A i \in Fresh(s, t) : Newest(t, i)
  <2>1. SUFFICES ASSUME NEW i \in Fresh(s, t), NEW j \in Slots(t), SameSeat(t.slots[i], t.slots[j])
                 PROVE  j <= i
    BY DEF Newest
  <2>2. CASE j \in Slots(s)
    BY <1>3, <2>2
  <2>3. CASE j \in Fresh(s, t)
    BY <1>1, <2>1, <2>3 DEF Joins, SameSeat, Fresh, Slots
  <2> QED BY <1>2, <2>2, <2>3
<1>8. \A a, b : Begun(s, a, b) => Begun(t, a, b)
  BY <1>2, <1>4 DEF Begun
<1>9. \A a, b, m : HasSeat(s, a, b, m) => HasSeat(t, a, b, m)
  BY <1>2, <1>4 DEF HasSeat
<1>10. \A a, b : ~(a = step /\ b = visit) /\ Complete(g, s, a, b) => Complete(g, t, a, b)
  <2>1. SUFFICES ASSUME NEW a, NEW b, ~(a = step /\ b = visit), Complete(g, s, a, b)
                 PROVE  Complete(g, t, a, b)
    OBVIOUS
  <2>2. \A i \in Fresh(s, t) : ~InVisit(t.slots[i], a, b)
    BY <2>1 DEF Joins, InVisit
  <2>3. Clear(t, a, b)
    BY <1>2, <1>4, <1>6, <2>1, <2>2 DEF Complete, Clear
  <2> QED BY <1>9, <2>1, <2>3 DEF Complete
<1> QED BY <1>2, <1>3, <1>4, <1>5, <1>6, <1>7, <1>8, <1>9, <1>10

LEMMA JoinCore ==
  ASSUME NEW g, NEW s, Fine(g, s), Core(g, s), ~Over(s), NEW t, NEW step, NEW visit,
         Joins(g, s, t, step, visit), Leaves(g, s, step, visit)
  PROVE  Core(g, t)
<1>1. s \in StateSet(g)
  BY DEF Fine
<1>2. /\ Slots(s) \subseteq Slots(t) /\ Slots(t) = Slots(s) \cup Fresh(s, t)
      /\ \A i \in Slots(s), j \in Fresh(s, t) : i \in Nat /\ j \in Nat /\ i < j
      /\ \A i \in Slots(s) : t.slots[i] = s.slots[i]
      /\ \A i \in Fresh(s, t) : Newborn(t.slots[i])
  BY <1>1, JoinFacts
<1>3. /\ \A i \in Slots(s) :
           Newest(t, i) <=> Newest(s, i) /\ \A j \in Fresh(s, t) : ~SameSeat(t.slots[j], s.slots[i])
      /\ \A i \in Fresh(s, t) : Newest(t, i)
  BY <1>1, JoinFacts
<1>4. /\ \A a, b : Begun(s, a, b) => Begun(t, a, b)
      /\ \A a, b, m : HasSeat(s, a, b, m) => HasSeat(t, a, b, m)
      /\ \A a, b : ~(a = step /\ b = visit) /\ Complete(g, s, a, b) => Complete(g, t, a, b)
  BY <1>1, JoinFacts
<1>5. /\ s.visits \in [g.step -> Nat] /\ step \in g.step /\ visit \in Nat /\ s.visits[step] <= visit
      /\ t.visits = [s.visits EXCEPT ![step] = visit] /\ t.current = step
  BY <1>1 DEF Joins, StateSet
<1>6. t.visits[step] = visit /\ \A a \in g.step : t.visits[a] \in Nat /\ s.visits[a] \in Nat /\ s.visits[a] <= t.visits[a]
  BY <1>5
<1>7. \A a, b : Current(t, a, b) <=> a = step /\ b = visit
  BY <1>5, <1>6 DEF Current
<1>8. ASSUME NEW i \in Slots(t)
      PROVE  SeatFits(g, t, t.slots[i])
  <2>1. CASE i \in Slots(s)
    <3> DEFINE r == s.slots[i]
    <3>1. SeatFits(g, s, r) /\ r \in SlotSet(g) /\ t.slots[i] = r
      BY <1>1, <1>2, <2>1 DEF Core, StateSet, Slots
    <3>2. r.step \in g.step /\ r.visit \in Nat
      BY <3>1 DEF SlotSet
    <3>3. Current(t, r.step, r.visit) \/ Complete(g, t, r.step, r.visit)
      BY <1>4, <1>7, <2>1 DEF Leaves, InVisit
    <3> HIDE DEF r
    <3>4. r.visit <= t.visits[r.step]
      BY <1>6, <3>1, <3>2 DEF SeatFits
    <3> QED BY <1>4, <3>1, <3>3, <3>4 DEF SeatFits
  <2>2. CASE i \in Fresh(s, t)
    <3> DEFINE r == t.slots[i]
    <3>1. /\ r.step = step /\ r.visit = visit /\ r.restarts < g.max_attempts /\ ~r.escalate
          /\ MemberOf(g, step, r.member) \/ (r.member = Synth /\ step \in g.fan_out)
          /\ \A m : MemberOf(g, step, m) => HasSeat(t, step, visit, m)
      BY <1>2, <2>2 DEF Joins, InVisit, Newborn
    <3> HIDE DEF r
    <3>2. r.visit <= t.visits[r.step]
      BY <1>5, <1>6, <3>1
    <3>3. SeatFits(g, t, r)
      BY <1>7, <3>1, <3>2 DEF SeatFits
    <3> QED BY <3>3 DEF r
  <2> QED BY <1>2, <2>1, <2>2
<1>9. AttemptsRise(t)
  <2>1. SUFFICES ASSUME NEW i \in Slots(t), NEW j \in Slots(t), i < j, SameSeat(t.slots[i], t.slots[j])
                 PROVE  t.slots[i].attempt < t.slots[j].attempt
    BY DEF AttemptsRise
  <2>2. i \in Nat /\ j \in Nat
    BY DEF Slots
  <2>3. CASE i \in Slots(s) /\ j \in Slots(s)
    BY <1>2, <2>1, <2>3 DEF Core, AttemptsRise
  <2>4. CASE i \in Slots(s) /\ j \in Fresh(s, t)
    <3>1. SameSeat(t.slots[j], s.slots[i]) /\ t.slots[i] = s.slots[i]
      BY <1>2, <2>1, <2>4 DEF SameSeat
    <3> QED BY <2>4, <3>1 DEF Joins
  <2>5. CASE i \in Fresh(s, t) /\ j \in Slots(s)
    BY <1>2, <2>1, <2>2, <2>5
  <2>6. CASE i \in Fresh(s, t) /\ j \in Fresh(s, t)
    BY <2>1, <2>2, <2>6 DEF Joins, SameSeat
  <2> QED BY <1>2, <2>3, <2>4, <2>5, <2>6
<1>10. BusyIsNewest(t)
  <2>1. ASSUME NEW i \in Slots(s), Busy(s.slots[i])
        PROVE  Newest(t, i)
    BY <1>3, <2>1 DEF Core, BusyIsNewest, Joins, Yields
  <2> QED BY <1>2, <1>3, <2>1 DEF BusyIsNewest
<1>11. RetriesFit(t)
  <2>1. SUFFICES ASSUME NEW i \in Slots(t), Armed(t, "hold_retry", i)
                 PROVE  RetryFits(t, i)
    BY DEF RetriesFit
  <2>2. i # 0
    BY DEF Slots
  <2>3. Armed(s, "hold_retry", i)
    BY <2>1, <2>2 DEF Joins, Grown
  <2>4. i \in Slots(s)
    BY <2>3 DEF Fine, RunOK, TimersTyped, RunPurposes
  <2>5. RetryFits(s, i)
    BY <2>3, <2>4 DEF Core, RetriesFit
  <2>6. Newest(t, i)
    BY <1>3, <2>3, <2>4, <2>5 DEF RetryFits, Joins, Yields
  <2> QED BY <1>2, <2>4, <2>5, <2>6 DEF RetryFits
<1>12. Asked(g, t)
  <2>1. t.questions = s.questions /\ ~Over(t)
    BY DEF Joins, Grown, Over
  <2>2. ASSUME NEW k \in 1 .. Len(t.questions)
        PROVE  EscalationFits(t, t.questions[k]) /\ CeilingFits(g, t, t.questions[k])
    <3> DEFINE q == s.questions[k]
    <3>1. /\ EscalationFits(s, q) /\ CeilingFits(g, s, q) /\ t.questions[k] = q
          /\ (q.asked = "escalation" /\ Open(q) => AsksAbout(s, q.slot))
          /\ (q.asked = "ceiling" => ~Open(q) /\ ~(q.step = step /\ q.visit = visit))
      BY <2>1, <2>2 DEF Core, Asked, AsksAbout, OpenQuestions, Leaves
    <3> HIDE DEF q
    <3>2. EscalationFits(t, q)
      BY <1>2, <1>3, <3>1 DEF EscalationFits, Joins, Yields
    <3>3. CeilingFits(g, t, q)
      BY <1>4, <3>1 DEF CeilingFits
    <3> QED BY <3>1, <3>2, <3>3
  <2> QED BY <2>1, <2>2 DEF Core, Asked
<1>13. Underway(g, t)
  <2>1. s.outcome = "none" /\ t.outcome = s.outcome
    BY DEF Fine, RunOK, PhaseFits, Joins, Grown
  <2>2. PICK i \in Fresh(s, t) : InVisit(t.slots[i], step, visit)
    BY DEF Joins
  <2>3. Begun(t, step, visit)
    BY <1>2, <2>2 DEF Begun
  <2> QED BY <1>5, <1>6, <2>1, <2>3 DEF Underway
<1> QED BY <1>8, <1>9, <1>10, <1>11, <1>12, <1>13 DEF Core

\* Somebody works again, and what the others wait for is as it was.
LEMMA JoinAlmost ==
  ASSUME NEW g, NEW s, Fine(g, s), Core(g, s), OneEach(g, s), CeilingsHold(g, s), ~Over(s),
         NEW t, NEW step, NEW visit, Joins(g, s, t, step, visit), Leaves(g, s, step, visit), t.passes = s.passes,
         \A i \in Slots(s) : Accounted(s, i) \/ \E j \in Fresh(s, t) : SameSeat(t.slots[j], s.slots[i])
  PROVE  Almost(g, t)
<1>1. s \in StateSet(g)
  BY DEF Fine
<1>2. /\ Slots(s) \subseteq Slots(t) /\ Slots(t) = Slots(s) \cup Fresh(s, t)
      /\ \A i \in Slots(s) : t.slots[i] = s.slots[i]
      /\ \A i \in Fresh(s, t) : Newborn(t.slots[i])
      /\ \A i \in Slots(s) :
           Newest(t, i) <=> Newest(s, i) /\ \A j \in Fresh(s, t) : ~SameSeat(t.slots[j], s.slots[i])
      /\ \A i \in Fresh(s, t) : Newest(t, i)
  BY <1>1, JoinFacts
<1>3. Core(g, t)
  BY JoinCore
<1>4. OneEach(g, t)
  <2>1. \A i \in Fresh(s, t) : ~Live(t.slots[i])
    BY <1>2 DEF Newborn, Live, Talking
  <2> QED BY <1>2, <2>1 DEF OneEach
<1>5. t.questions = s.questions
  BY DEF Joins, Grown
<1>6. CeilingsHold(g, t)
  BY <1>5 DEF CeilingsHold, Permits
<1>7. \A i : AsksAbout(t, i) <=> AsksAbout(s, i)
  BY <1>5 DEF AsksAbout, OpenQuestions
<1>8. ASSUME NEW i \in Slots(t)
      PROVE  Accounted(t, i)
  <2>1. CASE i \in Slots(s)
    BY <1>2, <1>7, <2>1 DEF Accounted
  <2>2. CASE i \in Fresh(s, t)
    BY <1>2, <2>2 DEF Accounted, Newborn, Busy
  <2> QED BY <1>2, <2>1, <2>2
<1>9. AsksOn(t)
  <2>1. PICK i \in Fresh(s, t) : InVisit(t.slots[i], step, visit)
    BY DEF Joins
  <2>2. i \in Slots(t) /\ Newest(t, i) /\ ~Voted(t.slots[i])
    BY <1>2 DEF Newborn, Voted
  <2>3. t.current = step /\ t.visits[step] = visit
    BY <1>1 DEF Joins, StateSet
  <2> QED BY <2>1, <2>2, <2>3 DEF AsksOn, Clear
<1> QED BY <1>3, <1>4, <1>6, <1>8, <1>9 DEF Almost

\* ------------------------------------------------------------- starting attempts

\* An attempt of each member may be started in the visit.
Enrols(g, s, step, visit, attempt, members, answered) ==
  /\ step \in g.step /\ visit \in Nat /\ attempt \in Nat /\ members \in Seq(Persona \cup {Synth})
  /\ s.visits[step] <= visit /\ Len(members) > 0
  /\ \A k \in 1 .. Len(members) :
       /\ MemberOf(g, step, members[k]) \/ (members[k] = Synth /\ step \in g.fan_out)
       /\ NextRecord(s, step, visit, members[k], attempt, answered).restarts < g.max_attempts
       /\ \A j \in 1 .. Len(members) : members[j] = members[k] => j = k
       /\ \A j \in Slots(s) : InVisit(s.slots[j], step, visit) /\ s.slots[j].member = members[k] =>
                                Yields(s, j) /\ s.slots[j].attempt < attempt
  /\ \A m : MemberOf(g, step, m) => HasSeat(s, step, visit, m) \/ \E k \in 1 .. Len(members) : m = members[k]

LEMMA BareJoins ==
  ASSUME NEW g, NEW s, Fine(g, s), s.phase \in {"Queued", "Running"}, g.max_holds \in Nat, NoStep \notin g.step,
         NEW step, NEW visit, NEW attempt, NEW members, NEW answered,
         Enrols(g, s, step, visit, attempt, members, answered),
         NEW t, t = Bare(s, step, visit, attempt, members, answered)
  PROVE  /\ Joins(g, s, t, step, visit) /\ t.passes = s.passes
         /\ \A i \in Slots(s), k \in 1 .. Len(members) :
              InVisit(s.slots[i], step, visit) /\ s.slots[i].member = members[k] =>
                \E j \in Fresh(s, t) : SameSeat(t.slots[j], s.slots[i])
<1>1. s \in StateSet(g) /\ step \in g.step /\ visit \in Nat /\ attempt \in Nat /\ members \in Seq(Persona \cup {Synth})
  BY DEF Fine, Enrols
<1>2. Appends(g, s, t, step, visit, attempt, members, answered)
  BY <1>1, BareFacts
<1>3. Len(s.slots) \in Nat /\ Len(members) \in Nat /\ Len(t.slots) = Len(s.slots) + Len(members)
  BY <1>1, <1>2 DEF StateSet, Appends
<1>4. \A k \in 1 .. Len(members) : members[k] \in Persona \cup {Synth}
  BY <1>1
<1>5. \A k \in 1 .. Len(members) : Len(s.slots) + k \in Fresh(s, t)
  BY <1>3 DEF Fresh, Slots
<1>6. \A i \in Fresh(s, t) : \E k \in 1 .. Len(members) : i = Len(s.slots) + k
  <2>1. SUFFICES ASSUME NEW i \in Fresh(s, t)
                 PROVE  \E k \in 1 .. Len(members) : i = Len(s.slots) + k
    OBVIOUS
  <2>2. i - Len(s.slots) \in 1 .. Len(members) /\ i = Len(s.slots) + (i - Len(s.slots))
    BY <1>3 DEF Fresh, Slots
  <2> QED BY <2>2
<1>7. ASSUME NEW k \in 1 .. Len(members)
      PROVE  LET n == t.slots[Len(s.slots) + k]
             IN  /\ n.step = step /\ n.visit = visit /\ n.member = members[k] /\ n.attempt = attempt
                 /\ n.restarts < g.max_attempts
  <2> DEFINE n == NextRecord(s, step, visit, members[k], attempt, answered)
  <2>1. n.step = step /\ n.visit = visit /\ n.member = members[k] /\ n.attempt = attempt
    <3> DEFINE m == members[k]
    <3>1. m \in Persona \cup {Synth}
      BY <1>4, <1>7
    <3> HIDE DEF m
    <3>2. LET c == NextRecord(s, step, visit, m, attempt, answered)
          IN  c.step = step /\ c.visit = visit /\ c.member = m /\ c.attempt = attempt
      BY <1>1, <3>1, NextRecordFacts
    <3> QED BY <3>2 DEF m
  <2>2. n.restarts < g.max_attempts
    BY <1>7 DEF Enrols
  <2>3. t.slots[Len(s.slots) + k] = n
    BY <1>2, <1>7 DEF Appends
  <2> HIDE DEF n
  <2> QED BY <2>1, <2>2, <2>3
<1>8. Fresh(s, t) # {}
  <2>1. 1 \in 1 .. Len(members)
    BY <1>3 DEF Enrols
  <2> QED BY <1>5, <2>1
<1>9. ASSUME NEW i \in Fresh(s, t)
      PROVE  /\ InVisit(t.slots[i], step, visit) /\ t.slots[i].restarts < g.max_attempts
             /\ MemberOf(g, step, t.slots[i].member) \/ (t.slots[i].member = Synth /\ step \in g.fan_out)
             /\ \A j \in Slots(s) : SameSeat(t.slots[i], s.slots[j]) =>
                                      Yields(s, j) /\ s.slots[j].attempt < t.slots[i].attempt
  <2>1. PICK k \in 1 .. Len(members) : i = Len(s.slots) + k
    BY <1>6, <1>9
  <2> QED BY <1>7, <2>1 DEF Enrols, InVisit, SameSeat
<1>10. ASSUME NEW i \in Fresh(s, t), NEW j \in Fresh(s, t), t.slots[i].member = t.slots[j].member
       PROVE  i = j
  <2>1. PICK k \in 1 .. Len(members) : i = Len(s.slots) + k
    BY <1>6, <1>10
  <2>2. PICK l \in 1 .. Len(members) : j = Len(s.slots) + l
    BY <1>6, <1>10
  <2>3. members[k] = members[l]
    BY <1>7, <1>10, <2>1, <2>2
  <2>4. k = l
    BY <2>3 DEF Enrols
  <2> QED BY <2>1, <2>2, <2>4
<1>11. Slots(s) \subseteq Slots(t) /\ Fresh(s, t) \subseteq Slots(t)
  BY <1>3 DEF Slots, Fresh
<1>12. ASSUME NEW m, MemberOf(g, step, m)
       PROVE  HasSeat(t, step, visit, m)
  <2>1. CASE HasSeat(s, step, visit, m)
    BY <1>2, <1>11, <2>1 DEF HasSeat, Appends, Grown
  <2>2. CASE \E k \in 1 .. Len(members) : m = members[k]
    BY <1>5, <1>7, <1>11, <2>2 DEF HasSeat, InVisit
  <2> QED BY <1>12, <2>1, <2>2 DEF Enrols
<1>13. Joins(g, s, t, step, visit)
  BY <1>1, <1>2, <1>8, <1>9, <1>10, <1>12 DEF Joins, Appends, Enrols
<1>14. ASSUME NEW i \in Slots(s), NEW k \in 1 .. Len(members), InVisit(s.slots[i], step, visit),
              s.slots[i].member = members[k]
       PROVE  \E j \in Fresh(s, t) : SameSeat(t.slots[j], s.slots[i])
  BY <1>5, <1>7, <1>14, SMTT(30) DEF SameSeat, InVisit
<1>15. t.passes = s.passes
  BY <1>2 DEF Appends
<1> QED BY <1>13, <1>14, <1>15

\* What starts attempts leaves every other seat accounted for.
StandsFor(s, step, visit, members) ==
  \A i \in Slots(s) :
    Accounted(s, i) \/ (InVisit(s.slots[i], step, visit) /\ \E k \in 1 .. Len(members) : s.slots[i].member = members[k])

LEMMA BareAlmost ==
  ASSUME NEW g, NEW s, Fine(g, s), s.phase \in {"Queued", "Running"}, g.max_holds \in Nat, NoStep \notin g.step,
         Core(g, s), OneEach(g, s), CeilingsHold(g, s),
         NEW step, NEW visit, NEW attempt, NEW members, NEW answered,
         Enrols(g, s, step, visit, attempt, members, answered), Leaves(g, s, step, visit),
         StandsFor(s, step, visit, members)
  PROVE  Almost(g, Bare(s, step, visit, attempt, members, answered))
<1> DEFINE t == Bare(s, step, visit, attempt, members, answered)
<1>1. /\ Joins(g, s, t, step, visit) /\ t.passes = s.passes
      /\ \A i \in Slots(s), k \in 1 .. Len(members) :
           InVisit(s.slots[i], step, visit) /\ s.slots[i].member = members[k] =>
             \E j \in Fresh(s, t) : SameSeat(t.slots[j], s.slots[i])
  BY BareJoins
<1> HIDE DEF t
<1>2. \A i \in Slots(s) : Accounted(s, i) \/ \E j \in Fresh(s, t) : SameSeat(t.slots[j], s.slots[i])
  BY <1>1 DEF StandsFor
<1>3. ~Over(s)
  BY DEF Over
<1>4. Almost(g, t)
  BY <1>1, <1>2, <1>3, JoinAlmost
<1> QED BY <1>4 DEF t

LEMMA BareFine ==
  ASSUME NEW g, NEW s, Fine(g, s), s.phase = "Running", NEW step \in g.step, NEW visit \in Nat,
         NEW attempt \in Nat, NEW members \in Seq(Persona \cup {Synth}), NEW answered,
         g.max_holds \in Nat, NoStep \notin g.step
  PROVE  Fine(g, Bare(s, step, visit, attempt, members, answered)) /\ ~Over(Bare(s, step, visit, attempt, members, answered))
<1> DEFINE t == Bare(s, step, visit, attempt, members, answered)
<1>1. s \in StateSet(g) /\ s.phase \in {"Queued", "Running"}
  BY DEF Fine
<1>2. Appends(g, s, t, step, visit, attempt, members, answered)
  BY <1>1, BareFacts
<1> HIDE DEF t
<1>3. DeadlinesFit(g, t)
  BY <1>2 DEF Appends, Grown, Fine, RunOK, DeadlinesFit, Armed
<1>4. \A p : Armed(t, p, 0) => p \in RunPurposes
  BY <1>1, <1>2 DEF Appends, Fine, RunOK, TimersTyped, Armed, Slots
<1>5. Fine(g, t)
  BY <1>1, <1>2, <1>3, <1>4, GrownKeeps DEF Appends
<1>6. ~Over(t)
  BY <1>2 DEF Appends, Grown, Over
<1> QED BY <1>5, <1>6 DEF t

LEMMA StepStartedSeats ==
  ASSUME NEW g, NEW s, Fine(g, s), s.phase = "Running", g.max_holds \in Nat, NoStep \notin g.step,
         Core(g, s), OneEach(g, s), CeilingsHold(g, s),
         NEW step, NEW visit, NEW attempt, NEW members, NEW answered,
         Enrols(g, s, step, visit, attempt, members, answered), Leaves(g, s, step, visit),
         StandsFor(s, step, visit, members)
  PROVE  Seats(g, StepStarted(s, step, visit, attempt, members, answered))
<1> DEFINE t == Bare(s, step, visit, attempt, members, answered)
<1>1. step \in g.step /\ visit \in Nat /\ attempt \in Nat /\ members \in Seq(Persona \cup {Synth})
  BY DEF Enrols
<1>2. Fine(g, t) /\ ~Over(t)
  BY <1>1, BareFine
<1>3. Almost(g, t)
  BY BareAlmost
<1> HIDE DEF t
<1>4. Seats(g, ArmReady(t))
  BY <1>2, <1>3, ArmReadySeats
<1> QED BY <1>4, StepStartedIs DEF t

\* The newest attempts of a complete visit have voted, so its seats are accounted for.
LEMMA CompleteAccounted ==
  ASSUME NEW g, NEW s, NEW i \in Slots(s), Complete(g, s, s.slots[i].step, s.slots[i].visit)
  PROVE  Accounted(s, i) /\ (Newest(s, i) => Voted(s.slots[i]))
BY DEF Complete, Clear, Accounted, InVisit

\* Who has not answered is in the current visit, and no question is about its passes.
LEMMA Unanswered ==
  ASSUME NEW g, NEW s, Core(g, s), ~Over(s), NEW i \in Slots(s), Newest(s, i), ~Voted(s.slots[i])
  PROVE  /\ Current(s, s.slots[i].step, s.slots[i].visit)
         /\ Leaves(g, s, s.slots[i].step, s.slots[i].visit)
<1> DEFINE step == s.slots[i].step
           visit == s.slots[i].visit
<1>1. ~Complete(g, s, step, visit)
  BY DEF Complete, Clear, InVisit
<1>2. Current(s, step, visit)
  BY <1>1 DEF Core, SeatFits
<1>3. \A j \in Slots(s) : InVisit(s.slots[j], step, visit) \/ Complete(g, s, s.slots[j].step, s.slots[j].visit)
  BY <1>2 DEF Core, SeatFits, Current, InVisit
<1>4. ASSUME NEW k \in 1 .. Len(s.questions), s.questions[k].asked = "ceiling"
      PROVE  ~Open(s.questions[k]) /\ ~(s.questions[k].step = step /\ s.questions[k].visit = visit)
  <2>1. CeilingFits(g, s, s.questions[k])
    BY DEF Core, Asked
  <2> QED BY <1>1, <1>2, <1>4, <2>1 DEF CeilingFits, Current
<1> QED BY <1>2, <1>3, <1>4 DEF Leaves

\* The attempts before the newest have made way for it.
LEMMA EarlierYield ==
  ASSUME NEW g, NEW s, s \in StateSet(g), Core(g, s), NEW i \in Slots(s), Newest(s, i), NEW j \in Slots(s),
         SameSeat(s.slots[i], s.slots[j]), j # i
  PROVE  Yields(s, j) /\ s.slots[j].attempt < s.slots[i].attempt
<1>1. j < i /\ i \in Nat /\ j \in Nat
  BY DEF Newest, Slots
<1>2. SameSeat(s.slots[j], s.slots[i])
  BY DEF SameSeat
<1>3. ~Newest(s, j)
  BY <1>1, <1>2 DEF Newest
<1>4. ~Busy(s.slots[j]) /\ ~Armed(s, "hold_retry", j)
  BY <1>3 DEF Core, BusyIsNewest, RetriesFit, RetryFits
<1>5. ~AsksAbout(s, j)
  BY <1>3 DEF Core, Asked, EscalationFits, AsksAbout, OpenQuestions
<1>6. s.slots[j].attempt < s.slots[i].attempt
  BY <1>1, <1>2 DEF Core, AttemptsRise
<1> QED BY <1>4, <1>5, <1>6 DEF Yields

LEMMA RestartSeats ==
  ASSUME NEW g, NEW s, Fine(g, s), s.phase = "Running", g.max_holds \in Nat, NoStep \notin g.step,
         g.max_attempts \in Nat \ {0}, Core(g, s), OneEach(g, s), CeilingsHold(g, s),
         NEW i \in Slots(s), Newest(s, i), ~Voted(s.slots[i]), Yields(s, i),
         NEW answered \in BOOLEAN,
         \/ answered \/ s.slots[i].fresh \/ (s.slots[i].at = "Ended" /\ s.slots[i].cause \in HoldCauses)
         \/ s.slots[i].restarts + 1 < g.max_attempts,
         \A j \in Slots(s) : j # i => Accounted(s, j)
  PROVE  Seats(g, Restart(s, i, answered))
<1> DEFINE r == s.slots[i]
           n == NextRecord(s, r.step, r.visit, r.member, r.attempt + 1, answered)
<1>1. s \in StateSet(g) /\ r \in SlotSet(g) /\ ~Over(s)
  BY SlotKnown DEF Over
<1>2. /\ r.step \in g.step /\ r.visit \in Nat /\ r.attempt \in Nat /\ r.attempt + 1 \in Nat /\ r.member \in Persona \cup {Synth}
      /\ r.restarts \in Nat
  BY <1>1 DEF SlotSet
<1>3. SeatFits(g, s, r) /\ Current(s, r.step, r.visit) /\ Leaves(g, s, r.step, r.visit)
  BY <1>1, Unanswered DEF Core
<1>4. n.restarts < g.max_attempts
  <2>1. Latest(s, r.step, r.visit, r.member) = i /\ i # 0
    BY <1>1, LatestIs DEF Slots
  <2>2. /\ r.fresh => n.restarts = 0
        /\ ~r.fresh => n.restarts = r.restarts + (IF answered \/ (r.at = "Ended" /\ r.cause \in HoldCauses) THEN 0 ELSE 1)
    BY <1>1, <1>2, <2>1, NextRecordFacts
  <2>3. r.restarts < g.max_attempts
    BY <1>3 DEF SeatFits
  <2> HIDE DEF n
  <2> QED BY <1>2, <2>2, <2>3
<1>5. ASSUME NEW j \in Slots(s), InVisit(s.slots[j], r.step, r.visit), s.slots[j].member = r.member
      PROVE  Yields(s, j) /\ s.slots[j].attempt < r.attempt + 1
  <2>1. CASE j = i
    BY <1>2, <2>1
  <2>2. CASE j # i
    <3>1. SameSeat(s.slots[i], s.slots[j])
      BY <1>5 DEF SameSeat, InVisit
    <3>2. Yields(s, j) /\ s.slots[j].attempt < r.attempt
      BY <1>1, <2>2, <3>1, EarlierYield
    <3>3. s.slots[j] \in SlotSet(g)
      BY SlotKnown
    <3>4. s.slots[j].attempt \in Nat
      BY <3>3 DEF SlotSet
    <3> QED BY <1>2, <3>2, <3>4
  <2> QED BY <2>1, <2>2
<1>6. Enrols(g, s, r.step, r.visit, r.attempt + 1, <<r.member>>, answered)
  <2> DEFINE ms == <<r.member>>
  <2>1. ms \in Seq(Persona \cup {Synth}) /\ Len(ms) = 1 /\ ms[1] = r.member
    BY <1>2
  <2>2. s.visits[r.step] <= r.visit
    BY <1>1, <1>2, <1>3 DEF Current, StateSet
  <2> HIDE DEF ms, r
  <2>3. \A k \in 1 .. Len(ms) : k = 1
    BY <2>1
  <2>4. ASSUME NEW k \in 1 .. Len(ms)
        PROVE  /\ MemberOf(g, r.step, ms[k]) \/ (ms[k] = Synth /\ r.step \in g.fan_out)
               /\ NextRecord(s, r.step, r.visit, ms[k], r.attempt + 1, answered).restarts < g.max_attempts
               /\ \A j \in 1 .. Len(ms) : ms[j] = ms[k] => j = k
               /\ \A j \in Slots(s) : InVisit(s.slots[j], r.step, r.visit) /\ s.slots[j].member = ms[k] =>
                                Yields(s, j) /\ s.slots[j].attempt < r.attempt + 1
    <3>1. k = 1 /\ ms[k] = r.member
      BY <2>1, <2>3, <2>4
    <3>2. MemberOf(g, r.step, r.member) \/ (r.member = Synth /\ r.step \in g.fan_out)
      BY <1>3 DEF SeatFits
    <3>3. NextRecord(s, r.step, r.visit, ms[k], r.attempt + 1, answered).restarts < g.max_attempts
      BY <1>4, <3>1
    <3>4. \A j \in Slots(s) : InVisit(s.slots[j], r.step, r.visit) /\ s.slots[j].member = ms[k] =>
                              Yields(s, j) /\ s.slots[j].attempt < r.attempt + 1
      BY <1>5, <3>1
    <3> QED BY <2>3, <3>1, <3>2, <3>3, <3>4
  <2>5. \A m : MemberOf(g, r.step, m) => HasSeat(s, r.step, r.visit, m)
    BY <1>3 DEF SeatFits
  <2>6. Enrols(g, s, r.step, r.visit, r.attempt + 1, ms, answered)
    BY <1>2, <2>1, <2>2, <2>4, <2>5 DEF Enrols
  <2> QED BY <2>6 DEF ms
<1>7. StandsFor(s, r.step, r.visit, <<r.member>>)
  <2>1. ASSUME NEW j \in Slots(s)
        PROVE  \/ Accounted(s, j)
               \/ InVisit(s.slots[j], r.step, r.visit) /\ \E k \in 1 .. Len(<<r.member>>) : s.slots[j].member = <<r.member>>[k]
    <3>1. CASE j # i
      BY <3>1
    <3>2. CASE j = i
      <4>1. 1 \in 1 .. Len(<<r.member>>) /\ <<r.member>>[1] = r.member
        OBVIOUS
      <4> QED BY <3>2, <4>1 DEF InVisit
    <3> QED BY <3>1, <3>2
  <2> QED BY <2>1 DEF StandsFor
<1>8. Seats(g, StepStarted(s, r.step, r.visit, r.attempt + 1, <<r.member>>, answered))
  BY <1>3, <1>6, <1>7, StepStartedSeats
<1> QED BY <1>8 DEF Restart

LEMMA FirstRecord ==
  ASSUME NEW s, NEW step, NEW visit, NEW member, NEW attempt, NEW answered, Latest(s, step, visit, member) = 0
  PROVE  NextRecord(s, step, visit, member, attempt, answered).restarts = 0
BY DEF NextRecord, NewSlot

\* A visit begins where every visit before it is complete.
LEMMA NewVisitEnrols ==
  ASSUME NEW s, given \in DOMAIN Settings, Fine(Settings[given], s), Core(Settings[given], s),
         NEW step \in Settings[given].step, NEW answered
  PROVE  Enrols(Settings[given], s, step, s.visits[step] + 1, 1, Members[step], answered)
<1> DEFINE g == Settings[given]
           ms == Members[step]
           visit == s.visits[step] + 1
<1>1. /\ s \in StateSet(g) /\ g.max_holds \in Nat /\ g.max_attempts \in Nat \ {0} /\ ms \in Seq(Persona \cup {Synth})
      /\ ms = g.members[step]
  BY Given, MembersTyped DEF Fine, Members
<1>2. visit \in Nat /\ s.visits[step] \in Nat /\ s.visits[step] <= visit /\ ~(visit <= s.visits[step])
  BY <1>1 DEF StateSet
<1>3. Len(ms) > 0 /\ \A j, k \in 1 .. Len(ms) : ms[j] = ms[k] => j = k
  BY <1>1, SettingsAssumption
<1>4. ASSUME NEW i \in Slots(s)
      PROVE  ~InVisit(s.slots[i], step, visit)
  <2>1. s.slots[i].visit <= s.visits[s.slots[i].step]
    BY DEF Core, SeatFits
  <2> QED BY <1>2, <2>1 DEF InVisit
<1> HIDE DEF ms, visit
<1>5. ASSUME NEW k \in 1 .. Len(ms)
      PROVE  /\ MemberOf(g, step, ms[k])
             /\ NextRecord(s, step, visit, ms[k], 1, answered).restarts < g.max_attempts
  <2> DEFINE m == ms[k]
             n == NextRecord(s, step, visit, m, 1, answered)
  <2>1. MemberOf(g, step, m) /\ m \in Persona \cup {Synth}
    BY <1>1, <1>5 DEF MemberOf
  <2>2. ~HasSeat(s, step, visit, m)
    BY <1>4 DEF HasSeat
  <2>3. Latest(s, step, visit, m) = 0
    BY <1>1, <2>2, LatestOf
  <2> HIDE DEF m
  <2>5. n.restarts = 0
    BY <2>3, FirstRecord
  <2> HIDE DEF n
  <2>6. n.restarts < g.max_attempts
    BY <1>1, <2>5
  <2> QED BY <2>1, <2>6 DEF m, n
<1>6. \A m : MemberOf(g, step, m) => \E k \in 1 .. Len(ms) : m = ms[k]
  BY <1>1 DEF MemberOf
<1>7. 1 \in Nat
  OBVIOUS
<1>8. Enrols(g, s, step, visit, 1, ms, answered)
  BY <1>1, <1>2, <1>3, <1>4, <1>5, <1>6, <1>7 DEF Enrols
<1> QED BY <1>8 DEF ms, visit

\* Every visit that began is complete, and nobody is asked about a pass.
Passable(g, s) ==
  Unasked(s) /\ \A i \in Slots(s) : Complete(g, s, s.slots[i].step, s.slots[i].visit)

LEMMA NewVisitLeaves ==
  ASSUME NEW g, NEW s, s \in StateSet(g), Core(g, s), NEW step \in g.step, Passable(g, s)
  PROVE  /\ Leaves(g, s, step, s.visits[step] + 1)
         /\ \A members : StandsFor(s, step, s.visits[step] + 1, members)
<1>1. s.visits[step] \in Nat /\ ~(s.visits[step] + 1 <= s.visits[step])
  BY DEF StateSet
<1>2. ASSUME NEW k \in 1 .. Len(s.questions), s.questions[k].asked = "ceiling"
      PROVE  ~Open(s.questions[k]) /\ ~(s.questions[k].step = step /\ s.questions[k].visit = s.visits[step] + 1)
  <2> DEFINE q == s.questions[k]
  <2>1. ~Open(q)
    BY <1>2 DEF Passable, Unasked
  <2>2. Begun(s, q.step, q.visit)
    BY <1>2 DEF Core, Asked, CeilingFits
  <2>3. PICK i \in Slots(s) : s.slots[i].step = q.step /\ s.slots[i].visit = q.visit
    BY <2>2 DEF Begun, InVisit
  <2>4. s.slots[i].visit <= s.visits[s.slots[i].step]
    BY DEF Core, SeatFits
  <2> QED BY <1>1, <2>1, <2>3, <2>4
<1>3. Leaves(g, s, step, s.visits[step] + 1)
  BY <1>2 DEF Leaves, Passable
<1>4. \A i \in Slots(s) : Accounted(s, i)
  BY CompleteAccounted DEF Passable
<1> QED BY <1>3, <1>4 DEF StandsFor

LEMMA StartStepSeats ==
  ASSUME NEW s, given \in DOMAIN Settings, Fine(Settings[given], s), s.phase = "Running",
         Core(Settings[given], s), OneEach(Settings[given], s), CeilingsHold(Settings[given], s),
         NEW step \in Settings[given].step, Passable(Settings[given], s)
  PROVE  Seats(Settings[given], StartStep(s, step))
<1> DEFINE g == Settings[given]
<1>1. s \in StateSet(g) /\ g.max_holds \in Nat /\ NoStep \notin g.step
  BY Given DEF Fine
<1>2. Enrols(g, s, step, s.visits[step] + 1, 1, Members[step], FALSE)
  BY NewVisitEnrols
<1>3. Leaves(g, s, step, s.visits[step] + 1) /\ StandsFor(s, step, s.visits[step] + 1, Members[step])
  BY <1>1, NewVisitLeaves
<1>4. Seats(g, StepStarted(s, step, s.visits[step] + 1, 1, Members[step], FALSE))
  BY <1>1, <1>2, <1>3, StepStartedSeats
<1> QED BY <1>4 DEF StartStep

\* The synthesis of a fan-out begins when every member has answered.
LEMMA SynthSeats ==
  ASSUME NEW g, NEW s, Fine(g, s), s.phase = "Running", g.max_holds \in Nat, NoStep \notin g.step,
         g.max_attempts \in Nat \ {0}, Core(g, s), OneEach(g, s), CeilingsHold(g, s),
         NEW i \in Slots(s), NEW step, NEW visit, InVisit(s.slots[i], step, visit), Current(s, step, visit),
         step \in g.fan_out, ~HasSeat(s, step, visit, Synth), Clear(s, step, visit), NEW answered
  PROVE  Seats(g, StepStarted(s, step, visit, 1, <<Synth>>, answered))
<1>1. s \in StateSet(g) /\ s.slots[i] \in SlotSet(g) /\ SeatFits(g, s, s.slots[i]) /\ ~Over(s)
  BY SlotKnown DEF Core, Over
<1>2. step \in g.step /\ visit \in Nat /\ 1 \in Nat
  BY <1>1 DEF SlotSet, InVisit
<1>3. ~Complete(g, s, step, visit)
  BY DEF Complete
<1>4. Leaves(g, s, step, visit)
  <2>1. \A j \in Slots(s) : InVisit(s.slots[j], step, visit) \/ Complete(g, s, s.slots[j].step, s.slots[j].visit)
    BY DEF Core, SeatFits, Current, InVisit
  <2>2. ASSUME NEW k \in 1 .. Len(s.questions), s.questions[k].asked = "ceiling"
        PROVE  ~Open(s.questions[k]) /\ ~(s.questions[k].step = step /\ s.questions[k].visit = visit)
    <3>1. CeilingFits(g, s, s.questions[k])
      BY DEF Core, Asked
    <3> QED BY <1>1, <1>3, <2>2, <3>1 DEF CeilingFits, Current
  <2> QED BY <2>1, <2>2 DEF Leaves
<1>5. ASSUME NEW j \in Slots(s)
      PROVE  Accounted(s, j)
  <2>1. CASE InVisit(s.slots[j], step, visit)
    BY <2>1 DEF Clear, Accounted
  <2>2. CASE Complete(g, s, s.slots[j].step, s.slots[j].visit)
    BY <2>2, CompleteAccounted
  <2> QED BY <1>4, <2>1, <2>2 DEF Leaves
<1>6. StandsFor(s, step, visit, <<Synth>>)
  BY <1>5 DEF StandsFor
<1>7. Enrols(g, s, step, visit, 1, <<Synth>>, answered)
  <2> DEFINE ms == <<Synth>>
             n == NextRecord(s, step, visit, Synth, 1, answered)
  <2>1. ms \in Seq(Persona \cup {Synth}) /\ Len(ms) = 1 /\ ms[1] = Synth
    OBVIOUS
  <2> HIDE DEF ms
  <2>2. Latest(s, step, visit, Synth) = 0
    BY <1>1, LatestOf
  <2>3. Synth \in Persona \cup {Synth}
    OBVIOUS
  <2>4. n.restarts = 0
    BY <2>2, FirstRecord
  <2> HIDE DEF n
  <2>5. n.restarts < g.max_attempts
    BY <2>4
  <2>6. s.visits[step] <= visit
    BY <1>1, <1>2 DEF Current, StateSet
  <2>7. \A k \in 1 .. Len(ms) : k = 1 /\ ms[k] = Synth
    BY <2>1
  <2>8. \A k \in 1 .. Len(ms) : NextRecord(s, step, visit, ms[k], 1, answered).restarts < g.max_attempts
    BY <2>5, <2>7 DEF n
  <2>9. \A j \in Slots(s) : ~(InVisit(s.slots[j], step, visit) /\ s.slots[j].member = Synth)
    BY DEF HasSeat
  <2>10. \A m : MemberOf(g, step, m) => HasSeat(s, step, visit, m)
    BY <1>1 DEF SeatFits, InVisit
  <2>11. Enrols(g, s, step, visit, 1, ms, answered)
    BY <1>2, <2>1, <2>6, <2>7, <2>8, <2>9, <2>10 DEF Enrols
  <2> QED BY <2>11 DEF ms
<1> QED BY <1>4, <1>6, <1>7, StepStartedSeats

\* ------------------------------------------------------------------ ways out of a step

\* The current visit is complete.
Past(g, s) == s.current # NoStep /\ Complete(g, s, s.current, s.visits[s.current])

LEMMA FinishRunSeats ==
  ASSUME NEW g, NEW s, Fine(g, s), ~Over(s), Core(g, s), OneEach(g, s), CeilingsHold(g, s),
         NEW outcome \in {"Delivered", "Accepted", "Withdrawn"}, outcome = "Withdrawn" \/ Past(g, s)
  PROVE  Seats(g, FinishRun(s, outcome))
<1> DEFINE t == FinishRun(s, outcome)
<1>1. s \in StateSet(g) /\ s.withdrawn \in BOOLEAN
  BY DEF Fine, StateSet
<1>2. Ends(g, s, t, outcome)
  BY <1>1, FinishRunFacts
<1> HIDE DEF t
<1>3. Slots(t) = Slots(s) /\ Over(t) /\ SameQuestions(s, t) /\ t.passes = s.passes /\ t.outcome = outcome
  BY <1>2 DEF Ends, Slots, Over, SameQuestions
<1>4. ASSUME NEW i \in Slots(s)
      PROVE  Milder(s.slots[i], t.slots[i]) /\ (Live(t.slots[i]) => Live(s.slots[i]))
  <2> DEFINE r == s.slots[i]
             f == t.slots[i]
  <2>1. r \in SlotSet(g) /\ f = FinishedSlot(r, s.withdrawn) /\ (r.restart => r.at = "Stopping")
    BY <1>2, <1>4, SlotKnown DEF Ends, SlotOK, SlotFits
  <2> HIDE DEF r, f
  <2>2. /\ f.step = r.step /\ f.visit = r.visit /\ f.member = r.member /\ f.attempt = r.attempt
        /\ f.escalate = r.escalate /\ f.restarts = r.restarts /\ f.live = r.live
        /\ \/ r.at = "Pending" /\ f.at = "Ended"
           \/ (r.at = "Starting" \/ Talking(r)) /\ f.at = "Stopping" /\ f.restart = r.restart
           \/ r.at \in {"Stopping", "Replied", "Ended"} /\ f.at = r.at /\ ~f.restart
    BY <1>1, <2>1, FinishedSlotFacts
  <2>3. Milder(r, f)
    BY <2>1, <2>2 DEF Milder, Busy, Talking
  <2>4. Live(f) => Live(r)
    BY <2>2 DEF Live, Talking
  <2> QED BY <2>3, <2>4 DEF r, f
<1>5. Gentle(s, t)
  BY <1>2, <1>4 DEF Gentle, Ends
<1>6. RetriesFit(t)
  BY <1>2 DEF Ends, RetriesFit, StopPurposes
<1>7. Core(g, t)
  BY <1>3, <1>5, <1>6, CoreGentle DEF Past
<1>8. OneEach(g, t)
  BY <1>4, <1>5, OneEachCalmer DEF Calmer, Gentle, Milder
<1>9. CeilingsHold(g, t)
  BY <1>3, SameCeilings
<1>10. Seats(g, t)
  BY <1>3, <1>7, <1>8, <1>9 DEF Seats, Settled
<1> QED BY <1>10 DEF t

\* ---------------------------------------------------------------------- questions

\* The slots and where the run is are as they were.
LEMMA GentleSame ==
  ASSUME NEW s, NEW t, t.slots = s.slots, t.visits = s.visits, t.current = s.current
  PROVE  Gentle(s, t) /\ Calmer(s, t)
BY DEF Gentle, Milder, Calmer

\* Question q may be asked.
Asking(g, s, q) ==
  /\ EscalationFits(s, q) /\ CeilingFits(g, s, q) /\ ~q.answered
  /\ \A k \in 1 .. Len(s.questions) : ~SameMatter(s.questions[k], q)

LEMMA AskCore ==
  ASSUME NEW g, NEW s, s \in StateSet(g), Core(g, s), NEW t, NEW asked, NEW i, NEW step, NEW pass,
         Asks(g, s, t, asked, i, step, pass),
         Asking(g, s, [asked |-> asked, slot |-> i, step |-> step, visit |-> s.visits[step], pass |-> pass,
                       answered |-> FALSE, delivered |-> FALSE])
  PROVE  Core(g, t)
<1> DEFINE q == [asked |-> asked, slot |-> i, step |-> step, visit |-> s.visits[step], pass |-> pass,
                 answered |-> FALSE, delivered |-> FALSE]
<1>1. /\ t.slots = s.slots /\ t.timers = s.timers /\ t.phase = s.phase /\ t.outcome = s.outcome
      /\ t.visits = s.visits /\ t.passes = s.passes /\ t.current = s.current
      /\ Len(t.questions) = Len(s.questions) + 1 /\ Len(s.questions) \in Nat
      /\ \A k \in 1 .. Len(s.questions) : t.questions[k] = s.questions[k]
      /\ t.questions[Len(s.questions) + 1] = q
  BY DEF Asks, StateSet
<1>2. Asking(g, s, q)
  OBVIOUS
<1> HIDE DEF q
<1>3. Slots(t) = Slots(s) /\ (Over(t) <=> Over(s)) /\ \A p, j : Armed(t, p, j) <=> Armed(s, p, j)
  BY <1>1 DEF Slots, Over, Armed
<1>4. Gentle(s, t)
  BY <1>1, GentleSame
<1>5. /\ \A j \in Slots(s) : Newest(t, j) <=> Newest(s, j)
      /\ \A a, b : Begun(t, a, b) <=> Begun(s, a, b)
      /\ \A a, b : Current(t, a, b) <=> Current(s, a, b)
      /\ \A a, b, m : HasSeat(t, a, b, m) <=> HasSeat(s, a, b, m)
      /\ \A a, b : Complete(g, s, a, b) => Complete(g, t, a, b)
  BY <1>4, GentleFacts
<1>6. \A j \in Slots(t) : SeatFits(g, t, t.slots[j])
  BY <1>1, <1>3, <1>5 DEF Core, SeatFits
<1>7. AttemptsRise(t) /\ BusyIsNewest(t) /\ RetriesFit(t)
  BY <1>1, <1>3, <1>5 DEF Core, AttemptsRise, BusyIsNewest, RetriesFit, RetryFits
<1>8. ASSUME NEW c, EscalationFits(s, c), CeilingFits(g, s, c)
      PROVE  EscalationFits(t, c) /\ CeilingFits(g, t, c)
  BY <1>1, <1>3, <1>5, <1>8 DEF EscalationFits, CeilingFits
<1>9. \A k \in 1 .. Len(t.questions) : k \in 1 .. Len(s.questions) \/ k = Len(s.questions) + 1
  BY <1>1
<1>10. ASSUME NEW k \in 1 .. Len(t.questions)
       PROVE  EscalationFits(t, t.questions[k]) /\ CeilingFits(g, t, t.questions[k])
  <2>1. CASE k \in 1 .. Len(s.questions)
    BY <1>1, <1>8, <2>1 DEF Core, Asked
  <2>2. CASE k = Len(s.questions) + 1
    BY <1>1, <1>2, <1>8, <2>2 DEF Asking
  <2> QED BY <1>9, <2>1, <2>2
<1>11. ASSUME NEW j \in 1 .. Len(t.questions), NEW k \in 1 .. Len(t.questions), SameMatter(t.questions[j], t.questions[k])
       PROVE  j = k
  <2>1. SameMatter(t.questions[k], t.questions[j])
    BY <1>11 DEF SameMatter
  <2>2. CASE j \in 1 .. Len(s.questions) /\ k \in 1 .. Len(s.questions)
    BY <1>1, <1>11, <2>2 DEF Core, Asked
  <2>3. CASE j \in 1 .. Len(s.questions) /\ k = Len(s.questions) + 1
    BY <1>1, <1>2, <1>11, <2>3 DEF Asking
  <2>4. CASE j = Len(s.questions) + 1 /\ k \in 1 .. Len(s.questions)
    BY <1>1, <1>2, <2>1, <2>4 DEF Asking
  <2> QED BY <1>9, <2>2, <2>3, <2>4
<1>12. Underway(g, t)
  BY <1>1, <1>5 DEF Core, Underway
<1> QED BY <1>6, <1>7, <1>10, <1>11, <1>12 DEF Core, Asked

\* What else a new question leaves as it was.
LEMMA AskRest ==
  ASSUME NEW g, NEW s, s \in StateSet(g), NEW t, NEW asked, NEW i, NEW step, NEW pass,
         Asks(g, s, t, asked, i, step, pass), OneEach(g, s), CeilingsHold(g, s)
  PROVE  /\ OneEach(g, t) /\ CeilingsHold(g, t) /\ (Waiting(s) => Waiting(t))
         /\ \A j : AsksAbout(s, j) => AsksAbout(t, j)
         /\ \A j \in Slots(s) : Accounted(s, j) => Accounted(t, j)
         /\ asked = "escalation" => AsksAbout(t, i)
         /\ asked = "ceiling" => \E k \in OpenQuestions(t) : t.questions[k].asked = "ceiling"
<1>1. /\ t.slots = s.slots /\ t.timers = s.timers /\ t.phase = s.phase /\ t.tree = s.tree
      /\ t.visits = s.visits /\ t.passes = s.passes /\ t.current = s.current
      /\ Len(t.questions) = Len(s.questions) + 1 /\ Len(s.questions) \in Nat
      /\ \A k \in 1 .. Len(s.questions) : t.questions[k] = s.questions[k]
      /\ t.questions[Len(s.questions) + 1].asked = asked /\ t.questions[Len(s.questions) + 1].slot = i
      /\ t.questions[Len(s.questions) + 1].answered = FALSE
  BY DEF Asks, StateSet
<1>2. OneEach(g, t)
  BY <1>1, GentleSame, OneEachCalmer
<1>3. \A a : Permits(t, a) = Permits(s, a)
  <2>1. \A k : k \in 1 .. Len(t.questions) <=> k \in 1 .. Len(s.questions) \/ k = Len(s.questions) + 1
    BY <1>1
  <2> QED BY <1>1, <2>1 DEF Permits
<1>4. CeilingsHold(g, t)
  BY <1>1, <1>3 DEF CeilingsHold
<1>5. Waiting(s) => Waiting(t)
  BY <1>1 DEF Waiting, TreePrepared, PersonaLive, Slots
<1>6. Len(s.questions) + 1 \in OpenQuestions(t) /\ \A k \in OpenQuestions(s) : k \in OpenQuestions(t) /\ t.questions[k] = s.questions[k]
  BY <1>1 DEF OpenQuestions, Open
<1>7. \A j : AsksAbout(s, j) => AsksAbout(t, j)
  BY <1>6 DEF AsksAbout
<1>8. \A j \in Slots(s) : Newest(t, j) <=> Newest(s, j)
  BY <1>1 DEF Newest, Slots
<1>9. \A j \in Slots(s) : Accounted(s, j) => Accounted(t, j)
  BY <1>1, <1>7, <1>8 DEF Accounted
<1>10. asked = "escalation" => AsksAbout(t, i)
  BY <1>1, <1>6 DEF AsksAbout
<1>11. asked = "ceiling" => \E k \in OpenQuestions(t) : t.questions[k].asked = "ceiling"
  BY <1>1, <1>6
<1> QED BY <1>2, <1>4, <1>5, <1>7, <1>9, <1>10, <1>11

\* ------------------------------------------------------------------ ways out of a step

LEMMA CountedCore ==
  ASSUME NEW g, NEW s, s \in StateSet(g), Core(g, s), OneEach(g, s), Passable(g, s), NEW step \in g.step, NEW pass \in Nat
  PROVE  Core(g, Counted(s, step, pass)) /\ OneEach(g, Counted(s, step, pass)) /\ Passable(g, Counted(s, step, pass))
<1> DEFINE t == Counted(s, step, pass)
<1>1. Counts(g, s, t, step, pass)
  BY CountedFacts
<1> HIDE DEF t
<1>2. /\ t.slots = s.slots /\ t.timers = s.timers /\ t.phase = s.phase /\ t.outcome = s.outcome
      /\ t.visits = s.visits /\ t.current = s.current /\ t.questions = s.questions
  BY <1>1 DEF Counts
<1>3. Slots(t) = Slots(s) /\ (Over(t) <=> Over(s)) /\ SameQuestions(s, t) /\ \A p, j : Armed(t, p, j) <=> Armed(s, p, j)
  BY <1>2 DEF Slots, Over, Armed, SameQuestions
<1>4. Gentle(s, t) /\ Calmer(s, t)
  BY <1>2, GentleSame
<1>5. /\ \A j \in Slots(s) : Newest(t, j) <=> Newest(s, j)
      /\ \A a, b : Complete(g, s, a, b) => Complete(g, t, a, b)
  BY <1>4, GentleFacts
<1>6. RetriesFit(t)
  BY <1>2, <1>3, <1>5 DEF Core, RetriesFit, RetryFits
<1>7. Core(g, t)
  BY <1>2, <1>3, <1>4, <1>6, CoreGentle DEF Passable
<1>8. OneEach(g, t)
  BY <1>4, OneEachCalmer
<1>9. Passable(g, t)
  BY <1>2, <1>3, <1>5 DEF Passable, Unasked
<1> QED BY <1>7, <1>8, <1>9 DEF t

LEMMA ReworkSeats ==
  ASSUME NEW s, given \in DOMAIN Settings, Fine(Settings[given], s), s.phase = "Running",
         Core(Settings[given], s), OneEach(Settings[given], s), CeilingsHold(Settings[given], s), Passable(Settings[given], s),
         NEW step \in Settings[given].step, ReworkTo[step] # NoStep, NEW pass \in Nat,
         pass <= Settings[given].max_passes[step] + Cardinality(Permits(s, step))
  PROVE  Seats(Settings[given], Rework(s, step, pass))
<1> DEFINE g == Settings[given]
           t == Counted(s, step, pass)
<1>1. ReworkTo[step] \in g.step /\ s \in StateSet(g)
  BY Given DEF ReworkTo, Fine
<1>2. Fine(g, t) /\ t.phase = "Running"
  BY CountedKeeps
<1>3. Core(g, t) /\ OneEach(g, t) /\ Passable(g, t)
  BY <1>1, CountedCore
<1>4. Counts(g, s, t, step, pass)
  BY <1>1, CountedFacts
<1> HIDE DEF t
<1>5. CeilingsHold(g, t)
  <2>1. t.questions = s.questions /\ t.passes = [s.passes EXCEPT ![step] = pass] /\ s.passes \in [g.step -> Nat]
    BY <1>1, <1>4 DEF Counts, StateSet
  <2>2. \A a : Permits(t, a) = Permits(s, a)
    BY <2>1 DEF Permits
  <2> QED BY <2>1, <2>2 DEF CeilingsHold
<1>6. Seats(g, StartStep(t, ReworkTo[step]))
  BY <1>1, <1>2, <1>3, <1>5, StartStepSeats
<1> QED BY <1>6 DEF Rework, Counted, t

LEMMA OnwardSeats ==
  ASSUME NEW s, given \in DOMAIN Settings, Fine(Settings[given], s), s.phase = "Running",
         Core(Settings[given], s), OneEach(Settings[given], s), CeilingsHold(Settings[given], s),
         Passable(Settings[given], s), Past(Settings[given], s),
         NEW step \in Settings[given].step, NEW outcome \in {"Delivered", "Accepted"}
  PROVE  Seats(Settings[given], Onward(s, step, outcome))
<1>1. CASE NextStep[step] = NoStep
  <2>1. ~Over(s)
    BY DEF Over
  <2>2. Seats(Settings[given], FinishRun(s, outcome))
    BY <2>1, FinishRunSeats
  <2> QED BY <1>1, <2>2 DEF Onward
<1>2. CASE NextStep[step] # NoStep
  <2>1. NextStep[step] \in Settings[given].step
    BY <1>2, Given DEF NextStep
  <2>2. Seats(Settings[given], StartStep(s, NextStep[step]))
    BY <2>1, StartStepSeats
  <2> QED BY <1>2, <2>2 DEF Onward
<1> QED BY <1>1, <1>2

\* A visit that is complete is left.
LEMMA PastPassable ==
  ASSUME NEW g, NEW s, Core(g, s), Past(g, s), Unasked(s)
  PROVE  Passable(g, s)
BY DEF Core, SeatFits, Past, Passable, Current

LEMMA PermitsFinite ==
  ASSUME NEW g, NEW s \in StateSet(g), NEW step
  PROVE  IsFiniteSet(Permits(s, step)) /\ Cardinality(Permits(s, step)) \in Nat
<1>1. Len(s.questions) \in Nat
  BY DEF StateSet
<1>2. IsFiniteSet(1 .. Len(s.questions))
  BY <1>1, FS_Interval
<1>3. Permits(s, step) \subseteq 1 .. Len(s.questions)
  BY DEF Permits
<1> QED BY <1>2, <1>3, FS_Subset, FS_CardinalityType

LEMMA FinishStepSeats ==
  ASSUME NEW s, given \in DOMAIN Settings, Fine(Settings[given], s), s.phase = "Running",
         Core(Settings[given], s), OneEach(Settings[given], s), CeilingsHold(Settings[given], s),
         Past(Settings[given], s), Waiting(s), NEW step \in Settings[given].step, step = s.current,
         Leaves(Settings[given], s, step, s.visits[step]), NEW rework
  PROVE  Seats(Settings[given], FinishStep(s, step, rework))
<1> DEFINE g == Settings[given]
           pass == s.passes[step] + 1
<1>1. /\ pass \in Nat /\ s \in StateSet(g) /\ ~Over(s)
      /\ MaxPasses[step] = g.max_passes[step] /\ g.max_passes[step] \in Nat
  BY Given, SMTT(30) DEF Fine, StateSet, Over, MaxPasses
<1>2. Unasked(s) /\ Passable(g, s)
  BY PastPassable DEF Leaves, Unasked
<1>3. CASE rework /\ ReworkTo[step] # NoStep /\ pass <= MaxPasses[step]
  <2> HIDE DEF pass
  <2>1. Cardinality(Permits(s, step)) \in Nat
    BY <1>1, PermitsFinite
  <2>2. pass <= g.max_passes[step] + Cardinality(Permits(s, step))
    BY <1>1, <1>3, <2>1
  <2>3. Seats(g, Rework(s, step, pass))
    BY <1>1, <1>2, <1>3, <2>2, ReworkSeats
  <2> QED BY <1>3, <2>3 DEF FinishStep, pass
<1>4. CASE rework /\ ReworkTo[step] # NoStep /\ ~(pass <= MaxPasses[step])
  <2> DEFINE t == Ask(s, "ceiling", 0, step, pass)
             q == [asked |-> "ceiling", slot |-> 0, step |-> step, visit |-> s.visits[step], pass |-> pass,
                   answered |-> FALSE, delivered |-> FALSE]
  <2>1. Asks(g, s, t, "ceiling", 0, step, pass)
    BY <1>1, AskFacts
  <2>2. FinishStep(s, step, rework) = t
    BY <1>4 DEF FinishStep
  <2> HIDE DEF t
  <2>3. Begun(s, step, s.visits[step]) /\ Complete(g, s, step, s.visits[step]) /\ Current(s, step, s.visits[step])
    BY DEF Past, Core, Underway, Current
  <2>4. Asking(g, s, q)
    BY <2>3 DEF Asking, EscalationFits, CeilingFits, Leaves, SameMatter
  <2>5. Core(g, t)
    BY <1>1, <2>1, <2>4, AskCore
  <2>6. /\ OneEach(g, t) /\ CeilingsHold(g, t) /\ Waiting(t)
        /\ \A j \in Slots(s) : Accounted(s, j) => Accounted(t, j)
        /\ \E k \in OpenQuestions(t) : t.questions[k].asked = "ceiling"
    BY <1>1, <2>1, AskRest
  <2>7. \A j \in Slots(s) : Accounted(s, j)
    BY <1>2, CompleteAccounted DEF Passable
  <2>8. Slots(t) = Slots(s)
    BY <2>1 DEF Asks, Slots
  <2>9. Seats(g, t)
    BY <2>5, <2>6, <2>7, <2>8 DEF Seats, Settled, AsksOn
  <2> QED BY <2>2, <2>9
<1>5. CASE ~(rework /\ ReworkTo[step] # NoStep)
  <2>1. Seats(g, Onward(s, step, "Delivered"))
    BY <1>2, OnwardSeats
  <2> QED BY <1>5, <2>1 DEF FinishStep
<1> QED BY <1>3, <1>4, <1>5

\* ------------------------------------------------------------------------ replies

\* A visit is clear when the latest attempt of each member and of the synthesis has voted.
LEMMA ClearIs ==
  ASSUME NEW g, NEW s, s \in StateSet(g), Core(g, s), NEW step, NEW visit,
         \A m : MemberOf(g, step, m) => Voted(s.slots[Latest(s, step, visit, m)]),
         HasSeat(s, step, visit, Synth) => Voted(s.slots[Latest(s, step, visit, Synth)])
  PROVE  Clear(s, step, visit)
<1>1. SUFFICES ASSUME NEW i \in Slots(s), InVisit(s.slots[i], step, visit), Newest(s, i)
               PROVE  Voted(s.slots[i])
  BY DEF Clear
<1> DEFINE m == s.slots[i].member
<1>2. Latest(s, step, visit, m) = i
  BY <1>1, LatestIs DEF InVisit
<1>3. MemberOf(g, step, m) \/ m = Synth
  BY <1>1 DEF Core, SeatFits, InVisit
<1>4. HasSeat(s, step, visit, m)
  BY <1>1 DEF HasSeat
<1> QED BY <1>2, <1>3, <1>4

LEMMA AfterReplySeats ==
  ASSUME NEW s, given \in DOMAIN Settings, Fine(Settings[given], s), s.phase = "Running",
         Core(Settings[given], s), OneEach(Settings[given], s), CeilingsHold(Settings[given], s), Waiting(s),
         \A j \in Slots(s) : Accounted(s, j), NEW i \in Slots(s),
         Current(s, s.slots[i].step, s.slots[i].visit), Leaves(Settings[given], s, s.slots[i].step, s.slots[i].visit)
  PROVE  Seats(Settings[given], AfterReply(s, i))
<1> DEFINE g == Settings[given]
           step == s.slots[i].step
           visit == s.slots[i].visit
           ms == {Members[step][k] : k \in 1 .. Len(Members[step])}
           latest(m) == s.slots[Latest(s, step, visit, m)]
           synth == Latest(s, step, visit, Synth)
           rework == \E m \in ms : latest(m).rework
<1>1. /\ s \in StateSet(g) /\ ~Over(s) /\ step \in g.step /\ g.max_holds \in Nat /\ NoStep \notin g.step
      /\ g.max_attempts \in Nat \ {0} /\ FanOut = g.fan_out
  BY SlotKnown, Given DEF SlotSet, Over, FanOut
<1>2. s.current = step /\ s.visits[step] = visit
  BY DEF Current
<1>3. \A m : m \in ms <=> MemberOf(g, step, m)
  BY DEF Members, MemberOf
<1>4. AfterReply(s, i) =
        IF \E m \in ms : ~Voted(latest(m)) THEN s
        ELSE IF step \in FanOut /\ synth = 0 THEN StepStarted(s, step, visit, 1, <<Synth>>, FALSE)
        ELSE IF step \in FanOut /\ latest(Synth).at # "Replied" THEN s
        ELSE FinishStep(s, step, rework)
  BY <1>2 DEF AfterReply
<1> HIDE DEF ms, rework
<1>5. \A m : MemberOf(g, step, m) => HasSeat(s, step, visit, m)
  BY DEF Core, SeatFits
<1>6. ASSUME NEW m, HasSeat(s, step, visit, m)
      PROVE  LET l == Latest(s, step, visit, m)
             IN  /\ l \in Slots(s) /\ l # 0 /\ InVisit(s.slots[l], step, visit) /\ Newest(s, l)
                 /\ s.slots[l].member = m
  <2> DEFINE l == Latest(s, step, visit, m)
  <2>1. l \in Slots(s) /\ InVisit(s.slots[l], step, visit) /\ s.slots[l].member = m /\ Newest(s, l)
    BY <1>1, <1>6, LatestOf
  <2> HIDE DEF l
  <2>2. l # 0
    BY <2>1 DEF Slots
  <2> QED BY <2>1, <2>2 DEF l
<1>7. ASSUME NEW m, HasSeat(s, step, visit, m), ~Voted(latest(m))
      PROVE  Seats(g, s)
  <2>1. ~Clear(s, step, visit)
    BY <1>6, <1>7 DEF Clear
  <2>2. AsksOn(s)
    BY <1>2, <2>1 DEF AsksOn
  <2> QED BY <2>2 DEF Seats, Settled
<1>8. CASE \E m \in ms : ~Voted(latest(m))
  BY <1>3, <1>4, <1>5, <1>7, <1>8
<1>9. ASSUME \A m \in ms : Voted(latest(m))
      PROVE  Seats(g, AfterReply(s, i))
  <2>1. \A m : MemberOf(g, step, m) => Voted(s.slots[Latest(s, step, visit, m)])
    BY <1>3, <1>9
  <2>2. synth = 0 <=> ~HasSeat(s, step, visit, Synth)
    BY <1>1, <1>6, LatestOf
  <2>3. CASE step \in FanOut /\ synth = 0
    <3>1. ~HasSeat(s, step, visit, Synth)
      BY <2>2, <2>3
    <3>2. Clear(s, step, visit)
      BY <1>1, <2>1, <3>1, ClearIs
    <3>3. InVisit(s.slots[i], step, visit)
      BY DEF InVisit
    <3>4. Seats(g, StepStarted(s, step, visit, 1, <<Synth>>, FALSE))
      BY <1>1, <2>3, <3>1, <3>2, <3>3, SynthSeats
    <3> QED BY <1>4, <1>9, <2>3, <3>4
  <2>4. CASE step \in FanOut /\ synth # 0 /\ latest(Synth).at # "Replied"
    <3>1. HasSeat(s, step, visit, Synth) /\ ~Voted(latest(Synth))
      BY <2>2, <2>4 DEF Voted
    <3>2. Seats(g, s)
      BY <1>7, <3>1
    <3> QED BY <1>4, <1>9, <2>4, <3>2
  <2>5. CASE ~(step \in FanOut /\ synth = 0) /\ ~(step \in FanOut /\ latest(Synth).at # "Replied")
    <3>1. HasSeat(s, step, visit, Synth) => Voted(latest(Synth))
      <4>1. SUFFICES ASSUME HasSeat(s, step, visit, Synth)
                     PROVE  Voted(latest(Synth))
        OBVIOUS
      <4> DEFINE l == Latest(s, step, visit, Synth)
      <4>2. l \in Slots(s) /\ InVisit(s.slots[l], step, visit) /\ s.slots[l].member = Synth
        BY <1>6, <4>1
      <4> HIDE DEF l
      <4>3. SeatFits(g, s, s.slots[l])
        BY <4>2 DEF Core
      <4>4. ~MemberOf(g, step, Synth)
        BY <1>1, Given, NamesAssumption DEF MemberOf
      <4>5. step \in g.fan_out /\ ~s.slots[l].escalate
        BY <4>2, <4>3, <4>4 DEF SeatFits, InVisit
      <4>6. s.slots[l].at = "Replied"
        BY <1>1, <2>5, <4>5 DEF l
      <4> QED BY <4>5, <4>6 DEF Voted, l
    <3>2. Clear(s, step, visit)
      BY <1>1, <2>1, <3>1, ClearIs
    <3>3. Past(g, s)
      BY <1>1, <1>2, <2>2, <2>5, <3>2 DEF Past, Complete
    <3>4. Seats(g, FinishStep(s, step, rework))
      BY <1>1, <1>2, <3>3, FinishStepSeats
    <3> QED BY <1>4, <1>9, <2>5, <3>4
  <2> QED BY <2>3, <2>4, <2>5
<1> QED BY <1>8, <1>9

\* A slot changes and its timers, not for hold_retry, and the rest is as it was.
LEMMA TouchGentle ==
  ASSUME NEW g, NEW s, s \in StateSet(g), Core(g, s), OneEach(g, s), CeilingsHold(g, s), NEW i \in Slots(s),
         NEW t, Touch(g, s, t, i), Milder(s.slots[i], t.slots[i]), Live(t.slots[i]) => Live(s.slots[i]),
         Armed(t, "hold_retry", i) => RetryFits(t, i)
  PROVE  /\ Core(g, t) /\ OneEach(g, t) /\ CeilingsHold(g, t) /\ Gentle(s, t) /\ SameQuestions(s, t)
         /\ Slots(t) = Slots(s) /\ (\A j \in Slots(s) : Newest(t, j) <=> Newest(s, j))
         /\ \A j \in Slots(s) : j # i /\ Accounted(s, j) => Accounted(t, j)
<1>1. /\ RunSame(s, t) /\ Len(t.slots) = Len(s.slots) /\ \A j \in Slots(s) : j # i => t.slots[j] = s.slots[j]
      /\ \A p, j : j # i => (Armed(t, p, j) <=> Armed(s, p, j))
  BY DEF Touch
<1>2. Slots(t) = Slots(s) /\ (Over(t) <=> Over(s)) /\ SameQuestions(s, t)
  BY <1>1 DEF Slots, RunSame, Over, SameQuestions
<1>3. Gentle(s, t)
  <2>1. \A r : Milder(r, r)
    BY DEF Milder
  <2> QED BY <1>1, <2>1 DEF Gentle, RunSame
<1>4. \A j \in Slots(s) : Newest(t, j) <=> Newest(s, j)
  BY <1>3, GentleFacts
<1>5. RetriesFit(t)
  BY <1>1, <1>2, <1>4 DEF Core, RetriesFit, RetryFits
<1>6. Core(g, t)
  BY <1>1, <1>2, <1>3, <1>5, CoreGentle DEF RunSame
<1>7. OneEach(g, t)
  BY <1>1, <1>3, OneEachCalmer DEF Calmer, Gentle, Milder
<1>8. CeilingsHold(g, t)
  BY <1>1, <1>2, SameCeilings DEF RunSame
<1>9. ASSUME NEW j \in Slots(s), j # i, Accounted(s, j)
      PROVE  Accounted(t, j)
  BY <1>1, <1>2, <1>4, <1>9, SameAccount
<1> QED BY <1>2, <1>3, <1>4, <1>6, <1>7, <1>8, <1>9

\* The visit of a slot that works is the current one, and no question is about it.
LEMMA BusyCurrent ==
  ASSUME NEW g, NEW s, Core(g, s), ~Over(s), NEW i \in Slots(s), Busy(s.slots[i])
  PROVE  /\ Newest(s, i) /\ Current(s, s.slots[i].step, s.slots[i].visit)
         /\ Leaves(g, s, s.slots[i].step, s.slots[i].visit)
<1>1. Newest(s, i) /\ ~Voted(s.slots[i])
  BY DEF Core, BusyIsNewest, Busy, Voted, Talking
<1> QED BY <1>1, Unanswered

LEMMA LeavesStill ==
  ASSUME NEW g, NEW s, NEW step, NEW visit, Leaves(g, s, step, visit), NEW t, Gentle(s, t), SameQuestions(s, t)
  PROVE  Leaves(g, t, step, visit)
<1>1. Slots(t) = Slots(s) /\ \A a, b : Complete(g, s, a, b) => Complete(g, t, a, b)
  BY GentleFacts
<1>2. \A j \in Slots(s) : t.slots[j].step = s.slots[j].step /\ t.slots[j].visit = s.slots[j].visit
  BY DEF Gentle, Milder
<1> QED BY <1>1, <1>2 DEF Leaves, SameQuestions, Open, InVisit

LEMMA LeavesAsked ==
  ASSUME NEW g, NEW s, s \in StateSet(g), NEW step, NEW visit, Leaves(g, s, step, visit), NEW t, NEW i, NEW a, NEW pass,
         Asks(g, s, t, "escalation", i, a, pass)
  PROVE  Leaves(g, t, step, visit)
<1>1. /\ t.slots = s.slots /\ t.visits = s.visits /\ t.current = s.current /\ Len(s.questions) \in Nat
      /\ Len(t.questions) = Len(s.questions) + 1 /\ t.questions[Len(s.questions) + 1].asked = "escalation"
      /\ \A k \in 1 .. Len(s.questions) : t.questions[k] = s.questions[k]
  BY DEF Asks, StateSet
<1>2. Slots(t) = Slots(s) /\ \A c, b : Complete(g, s, c, b) => Complete(g, t, c, b)
  BY <1>1, GentleSame, GentleFacts
<1>3. \A k \in 1 .. Len(t.questions) : k \in 1 .. Len(s.questions) \/ k = Len(s.questions) + 1
  BY <1>1
<1> QED BY <1>1, <1>2, <1>3 DEF Leaves

\* Who waits keeps waiting while the process it waits for is still there.
LEMMA WaitingTouch ==
  ASSUME NEW g, NEW s, Waiting(s), NEW i \in Slots(s), NEW t, Touch(g, s, t, i),
         t.slots[i].member = s.slots[i].member, Live(s.slots[i]) => Live(t.slots[i]), t.slots[i].at # "Pending"
  PROVE  Waiting(t)
<1>1. Slots(t) = Slots(s) /\ (TreePrepared(t) <=> TreePrepared(s)) /\ \A j \in Slots(s) : j # i => t.slots[j] = s.slots[j]
  BY DEF Touch, RunSame, Slots, TreePrepared
<1>2. \A m : PersonaLive(s, m) => PersonaLive(t, m)
  BY <1>1 DEF PersonaLive
<1>3. \A j \in Slots(t) : t.slots[j].at = "Pending" => s.slots[j] = t.slots[j]
  BY <1>1
<1> QED BY <1>1, <1>2, <1>3 DEF Waiting

\* A reply: the seat has answered, or a person is asked about it.
LEMMA ReplySeats ==
  ASSUME NEW s, given \in DOMAIN Settings, Fine(Settings[given], s), Seats(Settings[given], s), NEW i \in Slots(s),
         s.slots[i].at = "Starting" \/ Talking(s.slots[i]), ~Over(s),
         NEW escalate \in BOOLEAN, NEW rework \in BOOLEAN, escalate => s.slots[i].member # Synth,
         NEW t, t = SetTimer(ClearSlotTimers(With(s, i, RepliedSlot(s.slots[i], escalate, rework)), i), "wind_down", i)
  PROVE  /\ escalate => Seats(Settings[given], AfterReply(Ask(t, "escalation", i, s.slots[i].step, 0), i))
         /\ ~escalate => Seats(Settings[given], AfterReply(t, i))
<1> DEFINE g == Settings[given]
<1> HIDE DEF g
<1>14. Fine(g, t) /\ t.phase = "Running" /\ Slots(t) = Slots(s) /\ Heard(g, s, t, i, escalate, rework)
  <2>1. Fine(g, s)
    BY DEF g
  <2> QED BY <2>1, RepliedKeeps
<1>1. /\ Fine(g, t) /\ t.phase = "Running" /\ Slots(t) = Slots(s) /\ Touch(g, s, t, i)
      /\ t.slots[i] = RepliedSlot(s.slots[i], escalate, rework) /\ \A p : Armed(t, p, i) <=> p = "wind_down"
  BY <1>14 DEF Heard
<1> USE DEF g
<1> DEFINE old == s.slots[i]
           step == old.step
           visit == old.visit
           u == Ask(t, "escalation", i, step, 0)
<1>2. /\ s \in StateSet(g) /\ old \in SlotSet(g) /\ i \in Nat /\ t \in StateSet(g)
  BY <1>1, SlotKnown DEF Fine
<1>3. step \in g.step
  BY <1>2 DEF SlotSet
<1> DEFINE n == t.slots[i]
<1>4. /\ n.at = "Replied" /\ n.live /\ n.step = step /\ n.visit = visit /\ n.member = old.member
      /\ n.attempt = old.attempt /\ n.restarts = old.restarts /\ n.escalate = escalate
  BY <1>1, <1>2, RepliedSlotFacts, SMTT(30)
<1> HIDE DEF n
<1>5. Busy(old) /\ Live(old) /\ old.at # "Replied"
  BY DEF Busy, Live, Talking
<1>6. /\ Core(g, s) /\ OneEach(g, s) /\ CeilingsHold(g, s) /\ (\A j \in Slots(s) : Accounted(s, j)) /\ Waiting(s)
  BY DEF Seats, Settled
<1>7. Newest(s, i) /\ Current(s, step, visit) /\ Leaves(g, s, step, visit)
  BY <1>5, <1>6, BusyCurrent
<1>8. Milder(old, n) /\ Live(n)
  BY <1>4, <1>5 DEF Milder, Busy, Live, Talking
<1>9. /\ Core(g, t) /\ OneEach(g, t) /\ CeilingsHold(g, t) /\ Gentle(s, t) /\ SameQuestions(s, t)
      /\ (\A j \in Slots(s) : Newest(t, j) <=> Newest(s, j))
      /\ \A j \in Slots(s) : j # i /\ Accounted(s, j) => Accounted(t, j)
  <2>1. ~Armed(t, "hold_retry", i)
    BY <1>1
  <2> QED BY <1>1, <1>2, <1>5, <1>6, <1>8, <2>1, TouchGentle DEF n
<1>10. Waiting(t)
  BY <1>1, <1>4, <1>6, <1>8, WaitingTouch DEF n
<1>11. Current(t, step, visit) /\ Leaves(g, t, step, visit)
  BY <1>7, <1>9, GentleFacts, LeavesStill
<1>12. ASSUME ~escalate
       PROVE  Seats(g, AfterReply(t, i))
  <2>1. Accounted(t, i)
    BY <1>4, <1>12 DEF Accounted, Voted, n
  <2>2. \A j \in Slots(t) : Accounted(t, j)
    BY <1>1, <1>6, <1>9, <2>1
  <2>3. t.slots[i].step = step /\ t.slots[i].visit = visit
    BY <1>4 DEF n
  <2> QED BY <1>1, <1>9, <1>10, <1>11, <2>2, <2>3, AfterReplySeats
<1>13. ASSUME escalate
       PROVE  Seats(g, AfterReply(u, i))
  <2>1. Asks(g, t, u, "escalation", i, step, 0)
    BY <1>2, <1>3, AskFacts
  <2>2. Fine(g, u)
    BY <1>1, <1>2, <1>3, AskKeeps
  <2> HIDE DEF u
  <2>3. u.slots = t.slots /\ Slots(u) = Slots(s) /\ u.phase = "Running" /\ u.visits = t.visits /\ u.current = t.current
    BY <1>1, <2>1 DEF Asks, Slots
  <2> DEFINE q == [asked |-> "escalation", slot |-> i, step |-> step, visit |-> t.visits[step], pass |-> 0,
                   answered |-> FALSE, delivered |-> FALSE]
  <2>4. \A k \in 1 .. Len(t.questions) : ~SameMatter(t.questions[k], q)
    <3>1. SUFFICES ASSUME NEW k \in 1 .. Len(t.questions), SameMatter(t.questions[k], q)
                   PROVE  FALSE
      OBVIOUS
    <3>2. /\ k \in 1 .. Len(s.questions) /\ s.questions[k].asked = "escalation" /\ s.questions[k].slot = i
      BY <1>9, <3>1 DEF SameMatter, SameQuestions
    <3>3. EscalationFits(s, s.questions[k])
      BY <1>6, <3>2 DEF Core, Asked
    <3> QED BY <1>5, <3>2, <3>3 DEF EscalationFits
  <2>5. Asking(g, t, q)
    <3>1. EscalationFits(t, q)
      BY <1>1, <1>4, <1>7, <1>9, <1>13 DEF EscalationFits, n
    <3>2. CeilingFits(g, t, q)
      BY DEF CeilingFits
    <3> QED BY <2>4, <3>1, <3>2 DEF Asking
  <2>6. Core(g, u)
    BY <1>2, <1>9, <2>1, <2>5, AskCore
  <2>7. /\ OneEach(g, u) /\ CeilingsHold(g, u) /\ Waiting(u) /\ AsksAbout(u, i)
        /\ \A j \in Slots(t) : Accounted(t, j) => Accounted(u, j)
    BY <1>2, <1>9, <1>10, <2>1, AskRest, SMTT(30)
  <2>8. Accounted(u, i)
    BY <1>4, <2>3, <2>7 DEF Accounted, n
  <2>9. \A j \in Slots(u) : Accounted(u, j)
    BY <1>1, <1>6, <1>9, <2>3, <2>7, <2>8
  <2>10. Current(u, step, visit)
    BY <1>11, <2>3 DEF Current
  <2>11. Leaves(g, u, step, visit)
    BY <1>2, <1>11, <2>1, LeavesAsked
  <2>12. u.slots[i].step = step /\ u.slots[i].visit = visit
    BY <1>4, <2>3 DEF n
  <2> QED BY <2>2, <2>3, <2>6, <2>7, <2>9, <2>10, <2>11, <2>12, AfterReplySeats
<1> QED BY <1>12, <1>13

\* --------------------------------------------------------------- ends of processes

LEMMA TouchTouch ==
  ASSUME NEW g, NEW s, NEW t, NEW u, NEW i, Touch(g, s, t, i), Touch(g, t, u, i)
  PROVE  Touch(g, s, u, i)
<1>1. Slots(t) = Slots(s)
  BY DEF Touch, Slots
<1>2. RunSame(s, u) /\ Len(u.slots) = Len(s.slots) /\ u \in StateSet(g)
  BY DEF Touch, RunSame
<1>3. \A j \in Slots(s) : j # i => u.slots[j] = s.slots[j]
  BY <1>1 DEF Touch
<1>4. \A p, j : j # i => (Armed(u, p, j) <=> Armed(s, p, j))
  BY DEF Touch
<1> QED BY <1>2, <1>3, <1>4 DEF Touch

\* Who waits for a persona does not wait for the seat that works.
LEMMA WaitsForAnother ==
  ASSUME NEW g, NEW s, s \in StateSet(g), Core(g, s), ~Over(s), NEW i \in Slots(s), Busy(s.slots[i]),
         NEW j \in Slots(s), Busy(s.slots[j]), s.slots[i].member = s.slots[j].member
  PROVE  i = j
<1>1. /\ Newest(s, i) /\ Current(s, s.slots[i].step, s.slots[i].visit)
      /\ Newest(s, j) /\ Current(s, s.slots[j].step, s.slots[j].visit)
  BY BusyCurrent
<1>2. SameSeat(s.slots[i], s.slots[j])
  BY <1>1 DEF Current, SameSeat
<1> QED BY <1>1, <1>2, NewestIsOne

\* The attempt ended, and somebody is told.
Rests(s, p, i) ==
  /\ p.slots[i].at = "Ended" /\ p.slots[i].condition \in {"Held", "Parked"}
  /\ p.slots[i].step = s.slots[i].step /\ p.slots[i].visit = s.slots[i].visit
  /\ p.slots[i].member = s.slots[i].member /\ p.slots[i].attempt = s.slots[i].attempt
  /\ p.slots[i].restarts = s.slots[i].restarts /\ p.slots[i].escalate = s.slots[i].escalate
  /\ Armed(p, "hold_retry", i) => p.slots[i].cause \in HoldCauses /\ p.slots[i].condition = "Held"

LEMMA RestSeats ==
  ASSUME NEW g, NEW s, Fine(g, s), Seats(g, s), ~Over(s), NEW i \in Slots(s), Busy(s.slots[i]),
         NEW p, Touch(g, s, p, i), Rests(s, p, i)
  PROVE  Seats(g, p)
<1>1. /\ s \in StateSet(g) /\ Core(g, s) /\ OneEach(g, s) /\ CeilingsHold(g, s)
      /\ (\A j \in Slots(s) : Accounted(s, j)) /\ Waiting(s)
  BY DEF Seats, Settled, Fine
<1>2. Newest(s, i) /\ Current(s, s.slots[i].step, s.slots[i].visit)
  BY <1>1, BusyCurrent
<1>3. Slots(p) = Slots(s) /\ (Over(p) <=> Over(s)) /\ (TreePrepared(p) <=> TreePrepared(s))
      /\ p.current = s.current /\ p.visits = s.visits /\ \A j \in Slots(s) : j # i => p.slots[j] = s.slots[j]
  BY DEF Touch, RunSame, Slots, Over, TreePrepared
<1>4. Milder(s.slots[i], p.slots[i]) /\ ~Live(p.slots[i]) /\ ~Voted(p.slots[i]) /\ p.slots[i].at # "Pending"
  BY DEF Milder, Busy, Live, Talking, Rests, Voted
<1>5. \A j \in Slots(s) : SameSeat(p.slots[i], p.slots[j]) <=> SameSeat(s.slots[i], s.slots[j])
  BY <1>3 DEF SameSeat, Rests
<1>6. Newest(p, i)
  BY <1>2, <1>3, <1>5 DEF Newest
<1>7. Armed(p, "hold_retry", i) => RetryFits(p, i)
  BY <1>6 DEF Rests, RetryFits
<1>8. /\ Core(g, p) /\ OneEach(g, p) /\ CeilingsHold(g, p)
      /\ \A j \in Slots(s) : j # i /\ Accounted(s, j) => Accounted(p, j)
  BY <1>1, <1>4, <1>7, TouchGentle
<1>9. \A j \in Slots(p) : Accounted(p, j)
  <2>1. Accounted(p, i)
    BY DEF Accounted, Rests
  <2> QED BY <1>1, <1>3, <1>8, <2>1
<1>10. AsksOn(p)
  <2>1. InVisit(p.slots[i], p.current, p.visits[p.current])
    BY <1>2, <1>3 DEF Rests, InVisit, Current
  <2>2. ~Clear(p, p.current, p.visits[p.current])
    BY <1>3, <1>4, <1>6, <2>1 DEF Clear
  <2> QED BY <2>2 DEF AsksOn
<1>11. Waiting(p)
  <2>1. SUFFICES ASSUME TreePrepared(p), NEW j \in Slots(p), p.slots[j].at = "Pending"
                 PROVE  PersonaLive(p, p.slots[j].member)
    BY DEF Waiting
  <2>2. j \in Slots(s) /\ j # i /\ p.slots[j] = s.slots[j]
    BY <1>3, <1>4, <2>1
  <2>3. PersonaLive(s, s.slots[j].member) /\ Busy(s.slots[j])
    BY <1>1, <1>3, <2>1, <2>2 DEF Waiting, Busy
  <2>4. PICK k \in Slots(s) : s.slots[k].member = s.slots[j].member /\ Live(s.slots[k])
    BY <2>3 DEF PersonaLive
  <2>5. k # i
    BY <1>1, <2>2, <2>3, <2>4, WaitsForAnother
  <2>6. p.slots[k] = s.slots[k] /\ k \in Slots(p)
    BY <1>3, <2>4, <2>5
  <2> QED BY <2>2, <2>4, <2>6 DEF PersonaLive
<1> QED BY <1>8, <1>9, <1>10, <1>11 DEF Seats, Settled

\* The end of a process, folded.
LEMMA FoldEndedSeats ==
  ASSUME NEW g, NEW s, Fine(g, s), Seats(g, s), NEW i \in Slots(s), Live(s.slots[i]), NEW cause \in Causes,
         NEW t, t = FoldEnded(s, i, cause)
  PROVE  /\ Core(g, t) /\ OneEach(g, t) /\ CeilingsHold(g, t) /\ Gentle(s, t) /\ SameQuestions(s, t)
         /\ (\A j \in Slots(s) : Newest(t, j) <=> Newest(s, j))
         /\ \A j \in Slots(s) : j # i /\ Accounted(s, j) => Accounted(t, j)
         /\ ~Busy(s.slots[i]) /\ ~Over(s) => Almost(g, t)
<1> DEFINE was == s.slots[i]
           e == t.slots[i]
<1>1. Touch(g, s, t, i) /\ e = EndedSlot(was, cause) /\ \A p : ~Armed(t, p, i)
  BY FoldEndedFacts
<1>2. s \in StateSet(g) /\ was \in SlotSet(g) /\ Core(g, s) /\ OneEach(g, s) /\ CeilingsHold(g, s)
  BY SlotKnown DEF Seats
<1>3. /\ e.at = (IF was.at = "Replied" THEN "Replied" ELSE "Ended") /\ (was.at = "Replied" => ~e.live)
      /\ e.step = was.step /\ e.visit = was.visit /\ e.member = was.member /\ e.attempt = was.attempt
      /\ e.escalate = was.escalate /\ e.restarts = was.restarts
  BY <1>1, <1>2, EndedSlotFacts
<1> HIDE DEF e
<1>4. Milder(was, e) /\ ~Live(e) /\ (Voted(e) <=> Voted(was)) /\ was.at # "Ended"
  BY <1>3 DEF Milder, Busy, Live, Talking, Voted
<1>5. /\ Core(g, t) /\ OneEach(g, t) /\ CeilingsHold(g, t) /\ Gentle(s, t) /\ SameQuestions(s, t)
      /\ Slots(t) = Slots(s) /\ (\A j \in Slots(s) : Newest(t, j) <=> Newest(s, j))
      /\ \A j \in Slots(s) : j # i /\ Accounted(s, j) => Accounted(t, j)
  BY <1>1, <1>2, <1>4, TouchGentle DEF e
<1>6. ASSUME ~Busy(was), ~Over(s)
      PROVE  Almost(g, t)
  <2>1. (\A j \in Slots(s) : Accounted(s, j)) /\ (s.current # NoStep => AsksOn(s))
    BY <1>6 DEF Seats, Settled
  <2>2. Accounted(t, i)
    BY <1>3, <1>4, <1>5, <1>6, <2>1, SameAccount DEF e
  <2>3. \A j \in Slots(s) : Voted(t.slots[j]) => Voted(s.slots[j])
    BY <1>1, <1>4 DEF Touch, e
  <2>4. s.current # NoStep => AsksOn(t)
    BY <1>5, <2>1, <2>3, AsksOnStill
  <2>5. t.current = s.current
    BY <1>1 DEF Touch, RunSame
  <2> QED BY <1>5, <2>1, <2>2, <2>4, <2>5 DEF Almost
<1> QED BY <1>5, <1>6

\* The attempt that ended is parked.
LEMMA ParkRests ==
  ASSUME NEW g, NEW s, NEW t, NEW i \in Slots(s), t \in StateSet(g), t.slots[i] \in SlotSet(g), Touch(g, s, t, i),
         t.slots[i] = EndedSlot(s.slots[i], t.slots[i].cause), t.slots[i].at = "Ended", \A p : ~Armed(t, p, i),
         s.slots[i] \in SlotSet(g), t.slots[i].cause \in Causes
  PROVE  Touch(g, s, SetCondition(t, i, "Parked"), i) /\ Rests(s, SetCondition(t, i, "Parked"), i)
<1> DEFINE e == t.slots[i]
           r == [e EXCEPT !.condition = "Parked"]
           p == With(t, i, r)
<1>1. r \in SlotSet(g) /\ i \in Slots(t)
  BY DEF SlotSet, Touch, Slots
<1>2. /\ r.at = e.at /\ r.condition = "Parked" /\ r.step = e.step /\ r.visit = e.visit /\ r.member = e.member
      /\ r.attempt = e.attempt /\ r.restarts = e.restarts /\ r.escalate = e.escalate
  BY DEF SlotSet
<1>3. /\ e.step = s.slots[i].step /\ e.visit = s.slots[i].visit /\ e.member = s.slots[i].member
      /\ e.attempt = s.slots[i].attempt /\ e.escalate = s.slots[i].escalate /\ e.restarts = s.slots[i].restarts
  BY EndedSlotFacts
<1> HIDE DEF r, e
<1>4. Touch(g, t, p, i) /\ p.slots[i] = r /\ \A q, j : Armed(p, q, j) <=> Armed(t, q, j)
  BY <1>1, WithFacts
<1>5. p = SetCondition(t, i, "Parked")
  BY SetConditionIsWith DEF e, r
<1> HIDE DEF p
<1>6. Touch(g, s, p, i)
  BY <1>4, TouchTouch
<1>7. Rests(s, p, i)
  BY <1>2, <1>3, <1>4 DEF Rests, e
<1> QED BY <1>5, <1>6, <1>7

LEMMA HoldRests ==
  ASSUME NEW s, given \in DOMAIN Settings, NEW t, NEW i \in Slots(s), t \in StateSet(Settings[given]),
         t.slots[i] \in SlotSet(Settings[given]), Touch(Settings[given], s, t, i),
         t.slots[i] = EndedSlot(s.slots[i], t.slots[i].cause), t.slots[i].at = "Ended", \A p : ~Armed(t, p, i),
         s.slots[i] \in SlotSet(Settings[given]), t.slots[i].cause \in Causes, t.slots[i].cause \in HoldCauses,
         NEW named \in BOOLEAN
  PROVE  Touch(Settings[given], s, Hold(t, i, named), i) /\ Rests(s, Hold(t, i, named), i)
<1> DEFINE g == Settings[given]
           e == t.slots[i]
           r == HeldSlot(e, named)
           h == SetTimer(SetCondition([t EXCEPT !.slots[i].holds = t.slots[i].holds + IF named THEN 0 ELSE 1],
                                      i, "Held"), "hold_retry", i)
<1>1. g.max_holds \in Nat
  BY SettingsAssumption
<1>2. CASE ~named /\ t.slots[i].holds >= g.max_holds
  <2>1. Hold(t, i, named) = SetCondition(t, i, "Parked")
    BY <1>2 DEF Hold, MaxHolds
  <2> QED BY <2>1, ParkRests
<1>3. CASE ~(~named /\ t.slots[i].holds >= g.max_holds)
  <2>1. Hold(t, i, named) = h
    BY <1>3 DEF Hold, MaxHolds
  <2>2. named \/ t.slots[i].holds < g.max_holds
    BY <1>1, <1>3 DEF SlotSet
  <2>3. i \in Slots(t)
    BY DEF Touch, Slots
  <2>4. Touch(g, t, h, i) /\ h.slots[i] = r
    BY <1>1, <2>2, <2>3, HoldFacts
  <2> HIDE DEF h
  <2>5. /\ r.at = e.at /\ r.condition = "Held" /\ r.step = e.step /\ r.visit = e.visit /\ r.member = e.member
        /\ r.attempt = e.attempt /\ r.restarts = e.restarts /\ r.escalate = e.escalate /\ r.cause = e.cause
    BY DEF SlotSet, HeldSlot
  <2>6. /\ e.step = s.slots[i].step /\ e.visit = s.slots[i].visit /\ e.member = s.slots[i].member
        /\ e.attempt = s.slots[i].attempt /\ e.escalate = s.slots[i].escalate /\ e.restarts = s.slots[i].restarts
    BY EndedSlotFacts
  <2> HIDE DEF r, e
  <2>7. Touch(g, s, h, i)
    BY <2>4, TouchTouch
  <2>8. Rests(s, h, i)
    BY <2>4, <2>5, <2>6 DEF Rests, e
  <2> QED BY <2>1, <2>7, <2>8
<1> QED BY <1>2, <1>3

LEMMA EndedSeats ==
  ASSUME NEW s, given \in DOMAIN Settings, Fine(Settings[given], s), Seats(Settings[given], s), NEW i \in Slots(s),
         Live(s.slots[i]), NEW cause \in Causes
  PROVE  Seats(Settings[given], Ended(FoldEnded(s, i, cause), i, s.slots[i], cause))
<1> DEFINE g == Settings[given]
           t == FoldEnded(s, i, cause)
           was == s.slots[i]
<1>1. Fine(g, t)
  BY FoldEndedKeeps
<1>2. Touch(g, s, t, i) /\ t.slots[i] = EndedSlot(was, cause) /\ was \in SlotSet(g) /\ \A p : ~Armed(t, p, i)
  BY FoldEndedFacts, SlotKnown
<1>3. was.at # "Replied" => t.slots[i].at = "Ended" /\ t.slots[i].cause = cause
  BY <1>2, EndedSlotFacts
<1>4. t.phase = s.phase /\ i \in Slots(t) /\ Slots(t) = Slots(s) /\ (Over(t) <=> Over(s)) /\ s.phase # "Finished"
  BY <1>2, LiveIsUnfinished DEF Touch, RunSame, Slots, Over
<1>5. /\ Core(g, t) /\ OneEach(g, t) /\ CeilingsHold(g, t) /\ Gentle(s, t) /\ SameQuestions(s, t)
      /\ (\A j \in Slots(s) : Newest(t, j) <=> Newest(s, j))
      /\ \A j \in Slots(s) : j # i /\ Accounted(s, j) => Accounted(t, j)
      /\ ~Busy(was) /\ ~Over(s) => Almost(g, t)
  BY FoldEndedSeats
<1>6. t \in StateSet(g) /\ t.slots[i] \in SlotSet(g)
  BY <1>1, <1>4, SlotKnown
<1> HIDE DEF t
<1>7. CASE Finishing(t)
  <2>1. Ended(t, i, was, cause) = t /\ Over(t)
    BY <1>7 DEF Ended, Over, Finishing
  <2>2. Seats(g, t)
    BY <1>5, <2>1 DEF Seats, Settled
  <2> QED BY <2>1, <2>2 DEF t
<1>8. CASE ~Finishing(t)
  <2>1. ~Over(t) /\ ~Over(s) /\ t.phase = "Running"
    BY <1>1, <1>4, <1>8, SlotsMeanRunning DEF Over, Finishing
  <2>2. CASE was.at = "Replied" \/ (was.at = "Stopping" /\ ~was.restart)
    <3>1. ~Busy(was)
      BY <2>2 DEF Busy, Talking
    <3>2. Seats(g, ArmReady(t))
      BY <1>1, <1>5, <2>1, <3>1, ArmReadySeats
    <3>3. Ended(t, i, was, cause) = ArmReady(t)
      BY <1>8, <2>2 DEF Ended
    <3> QED BY <3>2, <3>3 DEF t
  <2>3. CASE ~(was.at = "Replied" \/ (was.at = "Stopping" /\ ~was.restart))
    <3>1. Busy(was) /\ was.at # "Replied"
      BY <2>3 DEF Busy, Live, Talking
    <3>2. t.slots[i].at = "Ended" /\ t.slots[i].cause = cause /\ t.slots[i] = EndedSlot(was, t.slots[i].cause)
      BY <1>2, <1>3, <2>3
    <3>3. Seats(g, SetCondition(t, i, "Parked"))
      <4>1. Touch(g, s, SetCondition(t, i, "Parked"), i) /\ Rests(s, SetCondition(t, i, "Parked"), i)
        BY <1>2, <1>6, <3>2, ParkRests
      <4> QED BY <2>1, <3>1, <4>1, RestSeats
    <3>4. ASSUME NEW named \in BOOLEAN, cause \in HoldCauses
          PROVE  Seats(g, Hold(t, i, named))
      <4>1. Touch(g, s, Hold(t, i, named), i) /\ Rests(s, Hold(t, i, named), i)
        BY <1>2, <1>6, <3>2, <3>4, HoldRests
      <4> QED BY <2>1, <3>1, <4>1, RestSeats
    <3>5. Core(g, s) /\ Newest(s, i) /\ \A j \in Slots(s) : Accounted(s, j)
      BY <2>1, <3>1, BusyCurrent DEF Seats, Settled
    <3>6. ~AsksAbout(t, i)
      <4>1. SUFFICES ASSUME NEW k \in OpenQuestions(t), t.questions[k].asked = "escalation", t.questions[k].slot = i
                     PROVE  FALSE
        BY DEF AsksAbout
      <4>2. EscalationFits(t, t.questions[k])
        BY <1>5, <4>1 DEF Core, Asked, OpenQuestions
      <4> QED BY <3>2, <4>1, <4>2 DEF EscalationFits
    <3>7. Yields(t, i) /\ ~Voted(t.slots[i]) /\ Newest(t, i)
      BY <1>2, <1>5, <3>2, <3>5, <3>6 DEF Yields, Busy, Talking, Voted
    <3>8. ASSUME t.slots[i].restarts + 1 < g.max_attempts
          PROVE  Seats(g, Restart(t, i, FALSE))
      <4>1. g.max_holds \in Nat /\ NoStep \notin g.step /\ g.max_attempts \in Nat \ {0}
        BY Given
      <4>2. \A j \in Slots(t) : j # i => Accounted(t, j)
        BY <1>4, <1>5, <3>5
      <4> DEFINE no == FALSE
      <4>3. no \in BOOLEAN
        OBVIOUS
      <4> HIDE DEF no
      <4>4. Seats(g, Restart(t, i, no))
        BY <1>1, <1>4, <1>5, <2>1, <3>7, <3>8, <4>1, <4>2, <4>3, RestartSeats
      <4> QED BY <4>4 DEF no
    <3>9. Seats(g, RestartOrPark(t, i))
      BY <3>3, <3>8 DEF RestartOrPark, MaxAttempts
    <3>10. CASE was.at # "Stopping" /\ cause \in HoldCauses
      <4> DEFINE named == cause = "hold_until_reset"
      <4>1. named \in BOOLEAN
        OBVIOUS
      <4>2. Ended(t, i, was, cause) = Hold(t, i, named)
        BY <1>8, <2>3, <3>10 DEF Ended
      <4> HIDE DEF named
      <4> QED BY <3>4, <3>10, <4>1, <4>2 DEF t
    <3>11. CASE ~(was.at # "Stopping" /\ cause \in HoldCauses)
      <4>1. Ended(t, i, was, cause) = RestartOrPark(t, i) \/ Ended(t, i, was, cause) = SetCondition(t, i, "Parked")
        BY <1>8, <2>3, <3>11 DEF Ended
      <4> QED BY <3>3, <3>9, <4>1 DEF t
    <3> QED BY <3>10, <3>11
  <2> QED BY <2>2, <2>3
<1> QED BY <1>7, <1>8

\* ------------------------------------------------------------------------ answers

\* Question k is answered, and the rest is as it was.
Answers(s, t, k) ==
  /\ t.phase = s.phase /\ t.slots = s.slots /\ t.timers = s.timers /\ t.outcome = s.outcome
  /\ t.visits = s.visits /\ t.passes = s.passes /\ t.current = s.current
  /\ Len(t.questions) = Len(s.questions)
  /\ \A j \in 1 .. Len(s.questions) :
       /\ t.questions[j].asked = s.questions[j].asked /\ t.questions[j].slot = s.questions[j].slot
       /\ t.questions[j].step = s.questions[j].step /\ t.questions[j].visit = s.questions[j].visit
       /\ t.questions[j].pass = s.questions[j].pass
       /\ t.questions[j].answered <=> (s.questions[j].answered \/ j = k)

LEMMA AnsweredAnswers ==
  ASSUME NEW g, NEW s, Fine(g, s), NEW k \in 1 .. Len(s.questions), NEW t, t = Answered(s, k)
  PROVE  Fine(g, t) /\ Answers(s, t, k)
<1> DEFINE q == s.questions[k]
           m == [q EXCEPT !.answered = TRUE]
<1>1. q \in QuestionSet(g)
  BY QuestionKnown DEF Fine
<1>2. Fine(g, t) /\ MarkedAs(s, t, k, m)
  BY AnsweredKeeps
<1>3. /\ m.asked = q.asked /\ m.slot = q.slot /\ m.step = q.step /\ m.visit = q.visit /\ m.pass = q.pass
      /\ m.answered = TRUE
  BY <1>1, MarkFacts
<1> HIDE DEF m
<1>4. \A j \in 1 .. Len(s.questions) : t.questions[j] = IF j = k THEN m ELSE s.questions[j]
  BY <1>2 DEF MarkedAs
<1>5. \A j \in 1 .. Len(s.questions) :
       /\ t.questions[j].asked = s.questions[j].asked /\ t.questions[j].slot = s.questions[j].slot
       /\ t.questions[j].step = s.questions[j].step /\ t.questions[j].visit = s.questions[j].visit
       /\ t.questions[j].pass = s.questions[j].pass
       /\ t.questions[j].answered <=> (s.questions[j].answered \/ j = k)
  BY <1>3, <1>4
<1> QED BY <1>2, <1>5 DEF MarkedAs, Answers

LEMMA AnsweredCore ==
  ASSUME NEW g, NEW s, Core(g, s), NEW k, NEW t, Answers(s, t, k)
  PROVE  Core(g, t)
<1>1. Gentle(s, t) /\ Slots(t) = Slots(s) /\ (Over(t) <=> Over(s))
  BY GentleSame DEF Answers, Slots, Over
<1>2. /\ \A i \in Slots(s) : Newest(t, i) <=> Newest(s, i)
      /\ \A step, visit : Begun(t, step, visit) <=> Begun(s, step, visit)
      /\ \A step, visit : Current(t, step, visit) <=> Current(s, step, visit)
      /\ \A step, visit, m : HasSeat(t, step, visit, m) <=> HasSeat(s, step, visit, m)
      /\ \A step, visit : Complete(g, s, step, visit) => Complete(g, t, step, visit)
  BY <1>1, GentleFacts
<1>3. \A i \in Slots(t) : SeatFits(g, t, t.slots[i])
  <2>1. SUFFICES ASSUME NEW i \in Slots(t)
                 PROVE  SeatFits(g, t, t.slots[i])
    OBVIOUS
  <2>2. SeatFits(g, s, s.slots[i]) /\ t.slots[i] = s.slots[i] /\ t.visits = s.visits
    BY <1>1, <2>1 DEF Core, Answers
  <2> QED BY <1>2, <2>2 DEF SeatFits
<1>4. AttemptsRise(t) /\ BusyIsNewest(t) /\ RetriesFit(t)
  BY <1>1, <1>2 DEF Core, AttemptsRise, BusyIsNewest, RetriesFit, RetryFits, Armed, Answers
<1>5. Asked(g, t)
  <2>1. ASSUME NEW j \in 1 .. Len(t.questions)
        PROVE  EscalationFits(t, t.questions[j]) /\ CeilingFits(g, t, t.questions[j])
    <3>1. EscalationFits(s, s.questions[j]) /\ CeilingFits(g, s, s.questions[j]) /\ j \in 1 .. Len(s.questions)
      BY <2>1 DEF Core, Asked, Answers
    <3> DEFINE p == s.questions[j]
               q == t.questions[j]
    <3>2. /\ q.asked = p.asked /\ q.slot = p.slot /\ q.step = p.step /\ q.visit = p.visit /\ q.pass = p.pass
          /\ (Open(q) => Open(p))
      BY <3>1 DEF Answers, Open
    <3> HIDE DEF p, q
    <3>3. EscalationFits(t, q)
      BY <1>1, <1>2, <3>1, <3>2 DEF EscalationFits, Answers, p
    <3>4. CeilingFits(g, t, q)
      BY <1>1, <1>2, <3>1, <3>2 DEF CeilingFits, Answers, p
    <3> QED BY <3>3, <3>4 DEF q
  <2>2. ASSUME NEW i \in 1 .. Len(t.questions), NEW j \in 1 .. Len(t.questions),
               SameMatter(t.questions[i], t.questions[j])
        PROVE  i = j
    <3>1. SameMatter(s.questions[i], s.questions[j]) /\ i \in 1 .. Len(s.questions) /\ j \in 1 .. Len(s.questions)
      BY <2>2 DEF SameMatter, Answers
    <3> QED BY <3>1 DEF Core, Asked
  <2> QED BY <2>1, <2>2 DEF Asked
<1>6. Underway(g, t)
  BY <1>2 DEF Core, Underway, Answers
<1> QED BY <1>3, <1>4, <1>5, <1>6 DEF Core

LEMMA AnsweredPermits ==
  ASSUME NEW g, NEW s, s \in StateSet(g), NEW k \in 1 .. Len(s.questions), Open(s.questions[k]),
         NEW t, t \in StateSet(g), Answers(s, t, k), NEW step \in g.step
  PROVE  /\ Cardinality(Permits(s, step)) \in Nat /\ Cardinality(Permits(t, step)) \in Nat
         /\ Cardinality(Permits(s, step)) <= Cardinality(Permits(t, step))
         /\ s.questions[k].asked = "ceiling" /\ s.questions[k].step = step =>
              Cardinality(Permits(t, step)) = Cardinality(Permits(s, step)) + 1
<1> DEFINE P == Permits(s, step)
           Q == Permits(t, step)
<1>1. IsFiniteSet(P) /\ IsFiniteSet(Q) /\ Cardinality(P) \in Nat /\ Cardinality(Q) \in Nat
  BY PermitsFinite
<1>2. P \subseteq Q
  BY DEF Permits, Answers
<1>3. k \notin P
  BY DEF Permits, Open
<1>4. s.questions[k].asked = "ceiling" /\ s.questions[k].step = step => Q = P \cup {k}
  BY DEF Permits, Answers
<1> HIDE DEF P, Q
<1>5. Cardinality(P) <= Cardinality(Q)
  BY <1>1, <1>2, FS_Subset
<1>6. Cardinality(P \cup {k}) = Cardinality(P) + 1
  BY <1>1, <1>3, FS_AddElement
<1> QED BY <1>1, <1>4, <1>5, <1>6 DEF P, Q

LEMMA AnsweredRest ==
  ASSUME NEW s, given \in DOMAIN Settings, s \in StateSet(Settings[given]), NEW k \in 1 .. Len(s.questions),
         Open(s.questions[k]), OneEach(Settings[given], s), CeilingsHold(Settings[given], s),
         NEW t, t \in StateSet(Settings[given]), Answers(s, t, k)
  PROVE  OneEach(Settings[given], t) /\ CeilingsHold(Settings[given], t)
<1> DEFINE g == Settings[given]
<1>1. OneEach(g, t)
  BY OneEachCalmer, GentleSame DEF Answers
<1>2. ASSUME NEW step \in g.step
      PROVE  t.passes[step] <= g.max_passes[step] + Cardinality(Permits(t, step))
  <2>1. /\ Cardinality(Permits(s, step)) \in Nat /\ Cardinality(Permits(t, step)) \in Nat
        /\ Cardinality(Permits(s, step)) <= Cardinality(Permits(t, step))
    BY <1>2, AnsweredPermits
  <2>2. s.passes[step] \in Nat /\ g.max_passes[step] \in Nat
    BY <1>2, Given DEF StateSet
  <2>3. t.passes = s.passes /\ s.passes[step] <= g.max_passes[step] + Cardinality(Permits(s, step))
    BY <1>2 DEF Answers, CeilingsHold
  <2> QED BY <2>1, <2>2, <2>3
<1> QED BY <1>1, <1>2 DEF CeilingsHold

LEMMA EscalationAnswered ==
  ASSUME NEW g, NEW s, Fine(g, s), Seats(g, s), ~Over(s), s.phase = "Running", NEW k \in 1 .. Len(s.questions),
         Open(s.questions[k]), s.questions[k].asked = "escalation", NEW i, i = s.questions[k].slot,
         g.max_holds \in Nat, NoStep \notin g.step, g.max_attempts \in Nat \ {0},
         NEW t, Fine(g, t), Answers(s, t, k), Core(g, t), OneEach(g, t), CeilingsHold(g, t)
  PROVE  Seats(g, Restart(t, i, TRUE))
<1>1. Core(g, s) /\ \A j \in Slots(s) : Accounted(s, j)
  BY DEF Seats, Settled
<1>2. /\ i \in Slots(s) /\ s.slots[i].at = "Replied" /\ s.slots[i].escalate /\ Newest(s, i)
  <2>1. EscalationFits(s, s.questions[k])
    BY <1>1 DEF Core, Asked
  <2> QED BY <2>1 DEF EscalationFits
<1>3. t.slots = s.slots /\ Slots(t) = Slots(s) /\ t.phase = "Running"
  BY DEF Answers, Slots
<1>4. \A j \in Slots(s) : Newest(t, j) <=> Newest(s, j)
  BY <1>3 DEF Newest
<1>5. ~Armed(t, "hold_retry", i)
  BY <1>2, <1>3 DEF Core, RetriesFit, RetryFits
<1>6. ~AsksAbout(t, i)
  <2>1. SUFFICES ASSUME NEW j \in OpenQuestions(t), t.questions[j].asked = "escalation", t.questions[j].slot = i
                 PROVE  FALSE
    BY DEF AsksAbout
  <2>2. j \in 1 .. Len(s.questions) /\ s.questions[j].asked = "escalation" /\ s.questions[j].slot = i /\ j # k
    BY <2>1 DEF OpenQuestions, Open, Answers
  <2>3. SameMatter(s.questions[j], s.questions[k])
    BY <2>2 DEF SameMatter
  <2> QED BY <1>1, <2>2, <2>3 DEF Core, Asked
<1>7. Yields(t, i) /\ ~Voted(t.slots[i])
  BY <1>2, <1>3, <1>5, <1>6 DEF Yields, Busy, Talking, Voted
<1>8. ASSUME NEW j \in Slots(t), j # i
      PROVE  Accounted(t, j)
  <2>1. Accounted(s, j) /\ j \in Slots(s)
    BY <1>1, <1>3, <1>8
  <2>2. AsksAbout(s, j) => AsksAbout(t, j)
    <3>1. SUFFICES ASSUME NEW l \in OpenQuestions(s), s.questions[l].asked = "escalation", s.questions[l].slot = j
                   PROVE  AsksAbout(t, j)
      BY DEF AsksAbout
    <3>2. l \in 1 .. Len(s.questions) /\ l # k
      BY <1>8, <3>1 DEF OpenQuestions
    <3>3. l \in OpenQuestions(t) /\ t.questions[l].asked = "escalation" /\ t.questions[l].slot = j
      BY <3>1, <3>2 DEF OpenQuestions, Open, Answers
    <3> QED BY <3>3 DEF AsksAbout
  <2> QED BY <1>3, <1>4, <2>1, <2>2 DEF Accounted
<1> DEFINE yes == TRUE
<1>9. yes \in BOOLEAN /\ yes
  OBVIOUS
<1> HIDE DEF yes
<1>10. Seats(g, Restart(t, i, yes))
  BY <1>2, <1>3, <1>4, <1>7, <1>8, <1>9, RestartSeats
<1> QED BY <1>10 DEF yes

LEMMA CeilingAnswered ==
  ASSUME NEW g, NEW s, Core(g, s), ~Over(s), NEW k \in 1 .. Len(s.questions), NoStep \notin g.step,
         Open(s.questions[k]), s.questions[k].asked = "ceiling", s.questions[k].step \in g.step,
         NEW t, Answers(s, t, k), Core(g, t)
  PROVE  /\ s.questions[k].pass = s.passes[s.questions[k].step] + 1
         /\ Past(g, t) /\ Passable(g, t)
<1> DEFINE q == s.questions[k]
<1>1. CeilingFits(g, s, q)
  BY DEF Core, Asked
<1>2. Current(s, q.step, q.visit) /\ q.pass = s.passes[q.step] + 1 /\ Complete(g, s, q.step, q.visit)
  BY <1>1 DEF CeilingFits
<1>3. Gentle(s, t) /\ t.current = s.current /\ t.visits = s.visits
  BY GentleSame DEF Answers
<1>4. Past(g, t)
  <2>1. Complete(g, t, q.step, q.visit)
    <3>1. \A a, b : Complete(g, s, a, b) => Complete(g, t, a, b)
      BY <1>3, GentleFacts
    <3> QED BY <1>2, <3>1
  <2>2. q.step = t.current /\ q.visit = t.visits[t.current]
    BY <1>2, <1>3 DEF Current
  <2> QED BY <2>1, <2>2 DEF Past
<1>5. Unasked(t)
  <2>1. SUFFICES ASSUME NEW j \in 1 .. Len(t.questions), t.questions[j].asked = "ceiling", Open(t.questions[j])
                 PROVE  FALSE
    BY DEF Unasked
  <2>2. j \in 1 .. Len(s.questions) /\ s.questions[j].asked = "ceiling" /\ Open(s.questions[j]) /\ j # k
    BY <2>1 DEF Open, Answers
  <2>3. CeilingFits(g, s, s.questions[j])
    BY <2>2 DEF Core, Asked
  <2>4. Current(s, s.questions[j].step, s.questions[j].visit)
    BY <2>2, <2>3 DEF CeilingFits
  <2>5. SameMatter(s.questions[j], s.questions[k])
    BY <1>2, <2>2, <2>4 DEF SameMatter, Current
  <2> QED BY <2>2, <2>5 DEF Core, Asked
<1> QED BY <1>2, <1>4, <1>5, PastPassable

LEMMA AnswerSeats ==
  ASSUME NEW s, given \in DOMAIN Settings, Fine(Settings[given], s), Seats(Settings[given], s), ~Over(s),
         NEW k \in 1 .. Len(s.questions), Open(s.questions[k]),
         NEW disposition, NEW q, q = s.questions[k], NEW t, t = Answered(s, k)
  PROVE  Seats(Settings[given], IF q.asked = "escalation" THEN Restart(t, q.slot, TRUE)
                                ELSE IF disposition = "Continue" THEN Rework(t, q.step, q.pass)
                                ELSE Onward(t, q.step, "Accepted"))
<1> DEFINE g == Settings[given]
<1>1. s \in StateSet(g) /\ q.step \in g.step /\ q.pass \in Nat /\ q \in QuestionSet(g)
  BY QuestionKnown DEF Fine
<1>2. Slots(s) # {} /\ (q.asked = "ceiling" => ReworkTo[q.step] # NoStep)
  BY DEF Fine, RunOK, QuestionsFit, ReworkTo
<1>3. s.phase = "Running"
  BY <1>2, SlotsMeanRunning
<1>4. Fine(g, t) /\ Answers(s, t, k)
  BY AnsweredAnswers
<1>5. t \in StateSet(g) /\ t.phase = "Running" /\ t.passes = s.passes
  BY <1>3, <1>4 DEF Fine, Answers
<1>6. Core(g, s) /\ OneEach(g, s) /\ CeilingsHold(g, s)
  BY DEF Seats
<1>7. Core(g, t) /\ OneEach(g, t) /\ CeilingsHold(g, t)
  BY <1>1, <1>4, <1>5, <1>6, AnsweredCore, AnsweredRest
<1>8. g.max_holds \in Nat /\ NoStep \notin g.step /\ g.max_attempts \in Nat \ {0} /\ g.max_passes \in [g.step -> Nat \ {0}]
  BY Given
<1>9. CASE q.asked = "escalation"
  <2>1. Seats(g, Restart(t, q.slot, TRUE))
    BY <1>3, <1>4, <1>7, <1>8, <1>9, EscalationAnswered
  <2> QED BY <1>9, <2>1
<1>10. CASE q.asked # "escalation"
  <2>1. q.asked = "ceiling"
    BY <1>1, <1>10 DEF QuestionSet
  <2>2. q.pass = s.passes[q.step] + 1 /\ Past(g, t) /\ Passable(g, t)
    BY <1>1, <1>4, <1>6, <1>7, <1>8, <2>1, CeilingAnswered
  <2>3. q.pass <= g.max_passes[q.step] + Cardinality(Permits(t, q.step))
    <3>1. /\ Cardinality(Permits(s, q.step)) \in Nat /\ Cardinality(Permits(t, q.step)) = Cardinality(Permits(s, q.step)) + 1
      BY <1>1, <1>4, <1>5, <2>1, AnsweredPermits
    <3>2. s.passes[q.step] <= g.max_passes[q.step] + Cardinality(Permits(s, q.step))
      BY <1>1, <1>6 DEF CeilingsHold
    <3>3. s.passes[q.step] \in Nat /\ g.max_passes[q.step] \in Nat
      BY <1>1, <1>8 DEF StateSet
    <3> QED BY <2>2, <3>1, <3>2, <3>3
  <2>4. Seats(g, Rework(t, q.step, q.pass))
    BY <1>1, <1>2, <1>4, <1>5, <1>7, <2>1, <2>2, <2>3, ReworkSeats
  <2>5. Seats(g, Onward(t, q.step, "Accepted"))
    BY <1>1, <1>4, <1>5, <1>7, <2>2, OnwardSeats
  <2> QED BY <1>10, <2>4, <2>5
<1> QED BY <1>9, <1>10

\* --------------------------------------------------------------- the other inputs

\* A conditioned attempt that ended starts its next one.
LEMMA AgainSeats ==
  ASSUME NEW g, NEW s, Fine(g, s), Seats(g, s), ~Over(s), NEW i \in Slots(s), s.slots[i].at = "Ended", Newest(s, i),
         g.max_holds \in Nat, NoStep \notin g.step, g.max_attempts \in Nat \ {0},
         NEW t, Fine(g, t), Touch(g, s, t, i), Milder(s.slots[i], t.slots[i]), t.slots[i].at = "Ended",
         ~Armed(t, "hold_retry", i), t.slots[i].fresh \/ t.slots[i].cause \in HoldCauses
  PROVE  Seats(g, Restart(t, i, FALSE))
<1>1. s \in StateSet(g) /\ Core(g, s) /\ OneEach(g, s) /\ CeilingsHold(g, s) /\ \A j \in Slots(s) : Accounted(s, j)
  BY DEF Seats, Settled, Fine
<1>2. ~Live(t.slots[i]) /\ ~Busy(t.slots[i]) /\ ~Voted(t.slots[i])
  BY DEF Live, Busy, Voted, Talking
<1>3. /\ Core(g, t) /\ OneEach(g, t) /\ CeilingsHold(g, t) /\ SameQuestions(s, t)
      /\ Slots(t) = Slots(s) /\ (\A j \in Slots(s) : Newest(t, j) <=> Newest(s, j))
      /\ \A j \in Slots(s) : j # i /\ Accounted(s, j) => Accounted(t, j)
  BY <1>1, <1>2, TouchGentle
<1>4. ~AsksAbout(t, i)
  <2>1. SUFFICES ASSUME NEW k \in OpenQuestions(t), t.questions[k].asked = "escalation", t.questions[k].slot = i
                 PROVE  FALSE
    BY DEF AsksAbout
  <2>2. EscalationFits(t, t.questions[k])
    BY <1>3, <2>1 DEF Core, Asked, OpenQuestions
  <2> QED BY <2>1, <2>2 DEF EscalationFits
<1>5. Yields(t, i)
  BY <1>2, <1>4 DEF Yields
<1>6. t.phase = "Running"
  BY SlotsMeanRunning DEF Touch, RunSame
<1>7. \A j \in Slots(t) : j # i => Accounted(t, j)
  BY <1>1, <1>3
<1> DEFINE no == FALSE
<1>8. no \in BOOLEAN
  OBVIOUS
<1> HIDE DEF no
<1>9. Seats(g, Restart(t, i, no))
  BY <1>2, <1>3, <1>5, <1>6, <1>7, <1>8, RestartSeats
<1> QED BY <1>9 DEF no

LEMMA ResumeSeats ==
  ASSUME NEW s, given \in DOMAIN Settings, Fine(Settings[given], s), Seats(Settings[given], s), ~Over(s), NEW i \in Slots(s),
         s.slots[i].condition \in {"Held", "Parked"}, ~Superseded(s, i),
         NEW a, a = SetCondition(s, i, "none"), NEW b, b = Freshened(a, i)
  PROVE  Seats(Settings[given], Restart(ClearTimers(b, {"hold_retry"}, i), i, FALSE))
<1> DEFINE g == Settings[given]
           t == ClearTimers(b, {"hold_retry"}, i)
<1>1. s \in StateSet(g) /\ s.slots[i] \in SlotSet(g) /\ Core(g, s) /\ SlotOK(g, s, i)
  BY SlotKnown DEF Seats
<1>2. Newest(s, i)
  BY <1>1, SupersededIs DEF Core
<1>3. s.slots[i].at = "Ended"
  <2>1. s.slots[i].at = "Ended" \/ (s.slots[i].at = "Stopping" /\ ~s.slots[i].restart)
    BY <1>1 DEF SlotOK, SlotFits
  <2>2. Accounted(s, i)
    BY DEF Seats, Settled
  <2> QED BY <1>2, <2>1, <2>2 DEF Accounted, Busy, Talking, Voted
<1>4. Fine(g, t) /\ Resumed(g, s, t, i)
  BY ResumedFacts
<1> HIDE DEF t
<1>5. /\ Touch(g, s, t, i) /\ t.slots[i].at = "Ended" /\ t.slots[i].fresh /\ ~Armed(t, "hold_retry", i)
      /\ Milder(s.slots[i], t.slots[i])
  BY <1>3, <1>4 DEF Resumed, Milder, Busy, Talking
<1>6. g.max_holds \in Nat /\ NoStep \notin g.step /\ g.max_attempts \in Nat \ {0}
  BY Given
<1>7. Seats(g, Restart(t, i, FALSE))
  BY <1>2, <1>3, <1>4, <1>5, <1>6, AgainSeats
<1> QED BY <1>7 DEF t

LEMMA HoldRetrySeats ==
  ASSUME NEW s, given \in DOMAIN Settings, Fine(Settings[given], s), Seats(Settings[given], s), NEW i \in Slots(s),
         Armed(s, "hold_retry", i)
  PROVE  Seats(Settings[given], Fired(Spent(s, "hold_retry", i), "hold_retry", i))
<1> DEFINE g == Settings[given]
           a == Spent(s, "hold_retry", i)
<1>1. Fine(g, a)
  BY SpentKeeps DEF Keeps
<1>2. Touch(g, s, a, i) /\ a.slots = s.slots /\ ~Armed(a, "hold_retry", i)
  BY SlotKnown, TouchSelf, TouchSpent
<1> HIDE DEF a
<1>3. ~Over(s)
  BY DEF Fine, RunOK, OnlyStops, StopPurposes
<1>4. s.slots[i].at = "Ended" /\ s.slots[i].cause \in HoldCauses /\ Newest(s, i)
  BY DEF Seats, Core, RetriesFit, RetryFits
<1>5. Milder(s.slots[i], a.slots[i])
  BY <1>2 DEF Milder
<1>6. g.max_holds \in Nat /\ NoStep \notin g.step /\ g.max_attempts \in Nat \ {0}
  BY Given
<1>7. Seats(g, Restart(a, i, FALSE))
  BY <1>1, <1>2, <1>3, <1>4, <1>5, <1>6, AgainSeats
<1> QED BY <1>7 DEF Fired, a

\* A superseded attempt that reports its start is stopped.
LateSlot(r, withdrawn) == [r EXCEPT !.at = "Stopping", !.cause = "none", !.ladder = NewLadder(withdrawn)]

LEMMA LateStartedSeats ==
  ASSUME NEW g, NEW s, Fine(g, s), Seats(g, s), "late_start" \in g.may, NEW i \in Slots(s), s.slots[i].at = "Ended",
         Superseded(s, i), NEW t, t = With(s, i, LateSlot(s.slots[i], s.withdrawn))
  PROVE  Seats(g, t)
<1> DEFINE old == s.slots[i]
           n == LateSlot(old, s.withdrawn)
<1>1. s \in StateSet(g) /\ old \in SlotSet(g) /\ i \in Nat /\ Core(g, s) /\ CeilingsHold(g, s) /\ Touch(g, s, s, i)
      /\ SlotOK(g, s, i) /\ s.withdrawn \in BOOLEAN
  BY SlotKnown, TouchSelf DEF Seats
<1>2. ~Newest(s, i)
  BY <1>1, SupersededIs DEF Core
<1>3. n \in SlotSet(g)
  BY <1>1, NewLadderFacts DEF SlotSet, States, LateSlot
<1>4. /\ n.at = "Stopping" /\ n.restart = old.restart /\ n.step = old.step /\ n.visit = old.visit
      /\ n.member = old.member /\ n.attempt = old.attempt /\ n.restarts = old.restarts /\ n.escalate = old.escalate
  BY <1>1 DEF SlotSet, LateSlot
<1> HIDE DEF n
<1>5. Touch(g, s, t, i) /\ t.slots[i] = n /\ \A p, j : Armed(t, p, j) <=> Armed(s, p, j)
  BY <1>1, <1>3, TouchWith DEF n
<1>6. ~n.restart
  BY <1>1, <1>4 DEF SlotOK, SlotFits
<1>7. Milder(old, n) /\ ~Voted(n) /\ n.at # "Pending"
  BY <1>4, <1>6 DEF Milder, Busy, Talking, Voted
<1>8. RunSame(s, t) /\ Slots(t) = Slots(s) /\ (Over(t) <=> Over(s)) /\ SameQuestions(s, t)
      /\ \A j \in Slots(s) : j # i => t.slots[j] = s.slots[j]
  BY <1>5 DEF Touch, Slots, RunSame, Over, SameQuestions
<1>9. Gentle(s, t)
  <2>1. \A r : Milder(r, r)
    BY DEF Milder
  <2> QED BY <1>5, <1>7, <1>8, <2>1 DEF Gentle, RunSame, Touch
<1>10. \A j \in Slots(s) : Newest(t, j) <=> Newest(s, j)
  BY <1>9, GentleFacts
<1>11. RetriesFit(t)
  BY <1>1, <1>2, <1>5, <1>8, <1>10 DEF Core, RetriesFit, RetryFits
<1>12. Core(g, t)
  BY <1>1, <1>8, <1>9, <1>11, CoreGentle DEF RunSame
<1>13. OneEach(g, t) /\ CeilingsHold(g, t)
  BY <1>1, <1>8, SameCeilings DEF OneEach, RunSame
<1>14. ASSUME ~Over(t)
       PROVE  /\ \A j \in Slots(t) : Accounted(t, j)
              /\ t.current # NoStep => AsksOn(t)
              /\ Waiting(t)
  <2>1. /\ (\A j \in Slots(s) : Accounted(s, j)) /\ (s.current # NoStep => AsksOn(s)) /\ Waiting(s)
    BY <1>8, <1>14 DEF Seats, Settled
  <2>2. \A j \in Slots(s) : Accounted(t, j)
    <3>1. ASSUME NEW j \in Slots(s), j # i
          PROVE  Accounted(t, j)
      BY <1>8, <1>10, <2>1, <3>1, SameAccount
    <3>2. Accounted(t, i)
      BY <1>2, <1>10 DEF Accounted
    <3> QED BY <3>1, <3>2
  <2>3. \A j \in Slots(s) : Voted(t.slots[j]) => Voted(s.slots[j])
    BY <1>5, <1>7, <1>8
  <2>4. s.current # NoStep => AsksOn(t)
    BY <1>8, <1>9, <2>1, <2>3, AsksOnStill
  <2>5. Waiting(t)
    BY <1>4, <1>5, <1>7, <2>1, WaitingTouch DEF Live
  <2> QED BY <1>8, <2>2, <2>4, <2>5 DEF RunSame
<1> QED BY <1>12, <1>13, <1>14 DEF Seats, Settled

\* The claim is taken: the first step begins, and the tree is not prepared yet.
LEMMA ClaimTakenSeats ==
  ASSUME NEW s, given \in DOMAIN Settings, Fine(Settings[given], s), Seats(Settings[given], s), s.phase = "Queued"
  PROVE  Seats(Settings[given], SetTimer(StartStep([s EXCEPT !.behind = "none"], First), "tree_window", 0))
<1> DEFINE g == Settings[given]
           a == [s EXCEPT !.behind = "none"]
           v == a.visits[First] + 1
           b == Bare(a, First, v, 1, Members[First], FALSE)
           t == SetTimer(b, "tree_window", 0)
<1>1. First \in g.step /\ g.max_holds \in Nat /\ NoStep \notin g.step
  BY Given DEF First
<1>2. Keeps(g, s, a)
  BY ClaimBusyKeeps
<1>3. s \in StateSet(g) /\ a.phase = "Queued" /\ a.tree = s.tree
  BY DEF Fine, StateSet
<1> HIDE DEF a
<1>4. Fine(g, a) /\ Seats(g, a) /\ a \in StateSet(g)
  BY <1>2, SteadySeats DEF Keeps, Fine
<1>5. a.tree = "Unprepared" /\ Slots(a) = {} /\ Len(a.questions) = 0
  <2>1. s.tree = "Unprepared"
    BY <1>3 DEF Fine, RunOK, PhaseFits, StateSet, Over
  <2>2. Len(a.slots) \in Nat /\ ~(Len(a.slots) > 0) /\ Len(a.questions) \in Nat
    BY <1>3, <1>4 DEF Fine, RunOK, PhaseFits, StateSet, Over
  <2>3. Slots(a) = {}
    BY <2>2 DEF Slots
  <2>4. \A k \in 1 .. Len(a.questions) : FALSE
    BY <1>4, <2>3 DEF Fine, RunOK, QuestionsFit
  <2> QED BY <1>3, <2>1, <2>2, <2>3, <2>4
<1>6. Core(g, a) /\ OneEach(g, a) /\ CeilingsHold(g, a)
  BY <1>4 DEF Seats
<1>7. Passable(g, a)
  BY <1>5 DEF Passable, Unasked
<1>8. Leaves(g, a, First, v) /\ StandsFor(a, First, v, Members[First])
  BY <1>1, <1>4, <1>6, <1>7, NewVisitLeaves
<1>9. Enrols(g, a, First, v, 1, Members[First], FALSE)
  <2> DEFINE no == FALSE
  <2> HIDE DEF no
  <2>1. Enrols(g, a, First, v, 1, Members[First], no)
    BY <1>1, <1>4, <1>6, NewVisitEnrols
  <2> QED BY <2>1 DEF no
<1>10. StartStep(a, First) = ArmReady(b)
  BY StepStartedIs DEF StartStep
<1>11. Members[First] \in Seq(Persona \cup {Synth}) /\ v \in Nat
  BY <1>1, <1>4, MembersTyped DEF StateSet
<1>12. Appends(g, a, b, First, v, 1, Members[First], FALSE)
  BY <1>1, <1>3, <1>4, <1>11, BareFacts
<1> DEFINE no == FALSE
           members == Members[First]
<1>13. Almost(g, Bare(a, First, v, 1, members, no))
  <2>1. Enrols(g, a, First, v, 1, members, no) /\ Leaves(g, a, First, v) /\ StandsFor(a, First, v, members)
    BY <1>8, <1>9
  <2> HIDE DEF no, members, v
  <2> QED BY <1>1, <1>3, <1>4, <1>6, <2>1, BareAlmost
<1>14. Almost(g, b)
  BY <1>13
<1> HIDE DEF b, v
<1>15. b \in StateSet(g) /\ b.phase = "Running" /\ b.tree = "Unprepared"
  BY <1>3, <1>5, <1>12 DEF Appends, Grown
<1>16. ArmReady(b) = b
  BY <1>15 DEF ArmReady, TreePrepared
<1>17. /\ t \in StateSet(g) /\ RunSame(b, t) /\ t.slots = b.slots
       /\ \A p, j : Armed(t, p, j) <=> Armed(b, p, j) \/ (p = "tree_window" /\ j = 0)
  BY <1>15, SetTimerFacts DEF RunPurposes
<1> HIDE DEF t
<1>18. ~TreePrepared(t) /\ (Over(t) <=> Over(b)) /\ SameQuestions(b, t)
  BY <1>15, <1>17 DEF RunSame, TreePrepared, Over, SameQuestions
<1>19. Even(b, t)
  BY <1>17, <1>18, AlikeSelf DEF Even, RunSame
<1>20. Almost(g, t) /\ Waiting(t)
  BY <1>14, <1>18, <1>19, EvenAlmost DEF Waiting
<1>21. Seats(g, t)
  BY <1>20, AlmostWaiting
<1> QED BY <1>10, <1>16, <1>21 DEF t, a

LEMMA TreePreparedSeats ==
  ASSUME NEW g, NEW s, Fine(g, s), Seats(g, s), s.phase = "Running", s.tree = "Unprepared"
  PROVE  Seats(g, ArmReady(ClearTimers([s EXCEPT !.tree = "Prepared", !.condition = "none",
                                                 !.cancel_owed = FALSE], {"tree_window"}, 0)))
<1> DEFINE t == TreeReady(s)
<1>1. Fine(g, t) /\ Even(s, t) /\ ~Over(t)
  BY TreeReadyFacts
<1>2. Almost(g, t)
  BY <1>1, EvenAlmost, AlmostWaiting
<1>3. Seats(g, ArmReady(t))
  BY <1>1, <1>2, ArmReadySeats
<1> QED BY <1>3 DEF TreeReady

LEMMA WithdrawnSeats ==
  ASSUME NEW g, NEW s, Fine(g, s), Seats(g, s), s.commissioned, s.phase # "Finished", NEW t, t = Forcing(s)
  PROVE  Seats(g, IF Finishing(s) THEN t ELSE FinishRun(t, "Withdrawn"))
<1>1. Keeps(g, s, t)
  BY ForceKeeps
<1>2. Fine(g, t) /\ Seats(g, t) /\ (Over(t) <=> Over(s))
  BY <1>1, SteadySeats DEF Keeps, Steady
<1>3. Core(g, t) /\ OneEach(g, t) /\ CeilingsHold(g, t)
  BY <1>2 DEF Seats
<1>4. ~Finishing(s) => Seats(g, FinishRun(t, "Withdrawn"))
  BY <1>2, <1>3, FinishRunSeats DEF Finishing, Over
<1> QED BY <1>2, <1>4

\* -------------------------------------------------------------------- every step

\* The state a step leads to is fine, and its seats are what they have to be.
Ok ==
  /\ Fine(Settings[given], st') /\ given' = given
  /\ Seats(Settings[given], st) => Seats(Settings[given], st')

LEMMA KeptOk ==
  ASSUME Keeps(Settings[given], st, st'), given' = given
  PROVE  Ok
<1>1. Seats(Settings[given], st) => Seats(Settings[given], st')
  BY SteadySeats DEF Keeps
<1> QED BY <1>1 DEF Keeps, Ok

LEMMA RunInputStep ==
  ASSUME Shape, RunInput
  PROVE  Ok
<1> DEFINE g == Settings[given]
<1>1. given \in DOMAIN Settings /\ Fine(g, st) /\ g.max_attempts \in Nat \ {0} /\ st \in StateSet(g)
  BY Given DEF Shape, Fine
<1>2. CASE Commissioned
  <2>1. Keeps(g, st, SetTimer([st EXCEPT !.commissioned = TRUE], "root_deadline", 0))
    BY <1>1, <1>2, CommissionedKeeps DEF Commissioned
  <2> QED BY <1>2, <2>1, KeptOk DEF Commissioned, Become
<1>3. CASE RootOpened
  <2> DEFINE o == [st EXCEPT !.root = TRUE, !.condition = "none"]
  <2>1. Keeps(g, st, IF st.phase = "Finishing" THEN o
                ELSE ClearTimers([o EXCEPT !.phase = "Queued"], {"root_deadline"}, 0))
    BY <1>1, <1>3, RootOpenedKeeps DEF RootOpened
  <2> QED BY <1>3, <2>1, KeptOk DEF RootOpened, Become
<1>4. CASE ClaimTaken
  <2>1. Fine(g, SetTimer(StartStep([st EXCEPT !.behind = "none"], First), "tree_window", 0))
    BY <1>1, <1>4, ClaimTakenKeeps DEF ClaimTaken
  <2>2. Seats(g, st) => Seats(g, SetTimer(StartStep([st EXCEPT !.behind = "none"], First), "tree_window", 0))
    BY <1>1, <1>4, ClaimTakenSeats DEF ClaimTaken
  <2> QED BY <1>4, <2>1, <2>2 DEF ClaimTaken, Become, Ok
<1>5. ASSUME NEW h \in Holder, ClaimBusy(h)
      PROVE  Ok
  <2>1. Keeps(g, st, [st EXCEPT !.behind = h])
    BY <1>1, <1>5, ClaimBusyKeeps DEF ClaimBusy
  <2> QED BY <1>5, <2>1, KeptOk DEF ClaimBusy, Become
<1>6. CASE TreePreparedInput
  <2>1. Fine(g, ArmReady(ClearTimers([st EXCEPT !.tree = "Prepared", !.condition = "none",
                                                !.cancel_owed = FALSE], {"tree_window"}, 0)))
    BY <1>1, <1>6, TreePreparedKeeps DEF TreePreparedInput
  <2>2. Seats(g, st) =>
          Seats(g, ArmReady(ClearTimers([st EXCEPT !.tree = "Prepared", !.condition = "none",
                                                   !.cancel_owed = FALSE], {"tree_window"}, 0)))
    BY <1>1, <1>6, TreePreparedSeats DEF TreePreparedInput
  <2> QED BY <1>6, <2>1, <2>2 DEF TreePreparedInput, Become, Ok
<1>7. ASSUME NEW p \in BOOLEAN, TreeRefused(p)
      PROVE  Ok
  <2> DEFINE f == [st EXCEPT !.cancel_owed = FALSE]
  <2>1. Keeps(g, st, IF p /\ st.condition = "none"
                THEN ClearTimers([f EXCEPT !.condition = "tree_refused"], {"tree_window"}, 0) ELSE f)
    BY <1>1, <1>7, TreeRefusedKeeps DEF TreeRefused
  <2> QED BY <1>7, <2>1, KeptOk DEF TreeRefused, Become
<1>8. ASSUME NEW o \in {"clean", "committed"}, TreeParked(o)
      PROVE  Ok
  <2>1. Keeps(g, st, [st EXCEPT !.park = o])
    BY <1>1, <1>8, TreeParkedKeeps DEF TreeParked, Finishing
  <2> QED BY <1>8, <2>1, KeptOk DEF TreeParked, Become
<1>9. ASSUME NEW d \in {"result", "notice"}, DeliveredResult(d)
      PROVE  Ok
  <2>1. st.phase = "Finishing"
    BY <1>9 DEF DeliveredResult, OwedResults, Finishing
  <2>2. Keeps(g, st, [st EXCEPT !.delivered = st.delivered \cup {d}])
    BY <1>1, <2>1, DeliveredResultKeeps
  <2> QED BY <1>9, <2>2, KeptOk DEF DeliveredResult, Become
<1>10. ASSUME NEW k \in OpenQuestions(st), DeliveredQuestion(k)
       PROVE  Ok
  <2>1. k \in 1 .. Len(st.questions)
    BY DEF OpenQuestions
  <2>2. Keeps(g, st, Told(st, k))
    BY <1>1, <2>1, DeliveredQuestionKeeps
  <2> QED BY <1>10, <2>2, KeptOk DEF DeliveredQuestion, Become, Told
<1>11. CASE ClaimReleased
  <2>1. Keeps(g, st, [st EXCEPT !.phase = "Finished", !.timers = {}])
    BY <1>1, <1>11, ClaimReleasedKeeps DEF ClaimReleased
  <2> QED BY <1>11, <2>1, KeptOk DEF ClaimReleased, Become
<1> QED BY <1>2, <1>3, <1>4, <1>5, <1>6, <1>7, <1>8, <1>9, <1>10, <1>11 DEF RunInput

LEMMA SlotInputStep ==
  ASSUME Shape, NEW i \in Slots(st), SlotInput(i)
  PROVE  Ok
<1> DEFINE g == Settings[given]
           r == st.slots[i]
<1>1. given \in DOMAIN Settings /\ Fine(g, st) /\ st \in StateSet(g) /\ g.causes \subseteq Causes /\ r \in SlotSet(g)
  BY Given, SlotKnown DEF Shape, Fine
<1>2. CASE Nudged(i)
  <2>1. Keeps(g, st, SetTimer([st EXCEPT !.slots[i].at = "Nudged"], "confirm", i))
    BY <1>1, <1>2, NudgedKeeps, SMTT(30) DEF Nudged
  <2> QED BY <1>2, <2>1, KeptOk DEF Nudged, Become
<1>3. CASE StopSignalled(i)
  <2> DEFINE l == [st.slots[i].ladder EXCEPT !.sent = st.slots[i].ladder.sent + 1,
                                             !.total = st.slots[i].ladder.total + 1]
             w == With(st, i, [st.slots[i] EXCEPT !.ladder = l, !.logged = l.total])
  <2>1. Keeps(g, st, IF l.sent = 1 THEN SetTimer(w, "stop_grace_1", i)
                ELSE IF l.sent = 2 THEN SetTimer(w, "stop_grace_2", i) ELSE w)
    BY <1>1, <1>3, StopSignalledKeeps DEF StopSignalled
  <2> QED BY <1>3, <2>1, KeptOk, SMTT(30) DEF StopSignalled, Become
<1>4. CASE Started(i)
  <2>1. Keeps(g, st, SetTimer(ClearTimers([st EXCEPT !.slots[i].at = "Running"], {"start_deadline"}, i), "quiet", i))
    BY <1>1, <1>4, StartedKeeps DEF Started
  <2> QED BY <1>4, <2>1, KeptOk DEF Started, Become
<1>5. CASE LateStarted(i)
  <2>1. Fine(g, With(st, i, [st.slots[i] EXCEPT !.at = "Stopping", !.cause = "none",
                                                !.ladder = NewLadder(st.withdrawn)]))
    BY <1>1, <1>5, LateStartedKeeps DEF LateStarted, May
  <2>2. Seats(g, st) => Seats(g, With(st, i, LateSlot(st.slots[i], st.withdrawn)))
    BY <1>1, <1>5, LateStartedSeats DEF LateStarted, May
  <2> QED BY <1>5, <2>1, <2>2 DEF LateStarted, Become, Ok, LateSlot
<1>6. ASSUME NEW b \in Beat, Heartbeat(i, b)
      PROVE  Ok
  <2> DEFINE wq == r.at # "Running"
             w == With(st, i, Beaten(r, b))
  <2>1. Keeps(g, st, IF b = "other" /\ ~wq THEN w ELSE Rearm(w, i, wq, b))
    BY <1>1, <1>6, HeartbeatKeeps DEF Heartbeat, May
  <2> QED BY <1>6, <2>1, KeptOk DEF Heartbeat, Become, Beaten
<1>7. CASE GroupLingering(i)
  <2>1. Keeps(g, st, IF st.slots[i].at = "Replied" THEN ClearTimers(StartReplyStop(st, i), {"wind_down"}, i)
                ELSE Conclude(ClearSlotTimers(st, i), i))
    BY <1>1, <1>7, GroupLingeringKeeps DEF GroupLingering
  <2> QED BY <1>7, <2>1, KeptOk DEF GroupLingering, Become
<1>8. ASSUME NEW c \in Cause, EndedFact(i, c)
      PROVE  Ok
  <2>1. c \in Causes
    BY <1>1 DEF Cause
  <2>2. Fine(g, Ended(FoldEnded(st, i, c), i, st.slots[i], c))
    BY <1>1, <1>8, <2>1, EndedKeeps DEF EndedFact
  <2>3. Seats(g, st) => Seats(g, Ended(FoldEnded(st, i, c), i, st.slots[i], c))
    BY <1>1, <1>8, <2>1, EndedSeats DEF EndedFact
  <2> QED BY <1>8, <2>2, <2>3 DEF EndedFact, Become, Ok
<1>9. ASSUME NEW e \in BOOLEAN, NEW w \in BOOLEAN, Reply(i, e, w)
      PROVE  Ok
  <2> DEFINE bits == r.member # Synth
             esc == e /\ bits
             rew == w /\ bits /\ ReworkTo[r.step] # NoStep
             t == SetTimer(ClearSlotTimers(With(st, i, RepliedSlot(st.slots[i], esc, rew)), i), "wind_down", i)
  <2>1. ~Over(st)
    BY <1>1, <1>9, LiveIsUnfinished DEF Reply, Over, Finishing, Live
  <2>2. esc \in BOOLEAN /\ rew \in BOOLEAN
    OBVIOUS
  <2>3. st' = AfterReply(IF esc THEN Ask(t, "escalation", i, st.slots[i].step, 0) ELSE t, i) /\ given' = given
    BY <1>9 DEF Reply, Become, RepliedSlot
  <2>4. (st.slots[i].at = "Starting" \/ Talking(st.slots[i])) /\ (esc => st.slots[i].member # Synth)
    BY <1>9 DEF Reply
  <2> HIDE DEF esc, rew
  <2>5. Fine(g, AfterReply(IF esc THEN Ask(t, "escalation", i, st.slots[i].step, 0) ELSE t, i))
    BY <1>1, <2>1, <2>2, <2>4, ReplyKeeps
  <2>6. Seats(g, st) => Seats(g, AfterReply(IF esc THEN Ask(t, "escalation", i, st.slots[i].step, 0) ELSE t, i))
    <3>1. SUFFICES ASSUME Seats(g, st)
                   PROVE  Seats(g, AfterReply(IF esc THEN Ask(t, "escalation", i, st.slots[i].step, 0) ELSE t, i))
      OBVIOUS
    <3>2. /\ esc => Seats(g, AfterReply(Ask(t, "escalation", i, st.slots[i].step, 0), i))
          /\ ~esc => Seats(g, AfterReply(t, i))
      BY <1>1, <2>1, <2>2, <2>4, <3>1, ReplySeats
    <3> QED BY <2>2, <3>2
  <2> QED BY <2>3, <2>5, <2>6 DEF Ok
<1> QED BY <1>2, <1>3, <1>4, <1>5, <1>6, <1>7, <1>8, <1>9 DEF SlotInput

LEMMA PersonInputStep ==
  ASSUME Shape, PersonInput
  PROVE  Ok
<1> DEFINE g == Settings[given]
<1>1. given \in DOMAIN Settings /\ Fine(g, st) /\ st \in StateSet(g) /\ g.max_attempts \in Nat \ {0}
  BY Given DEF Shape, Fine
<1>2. ASSUME NEW k \in OpenQuestions(st), NEW d \in {"Continue", "Accept"}, Answer(k, d)
      PROVE  Ok
  <2> DEFINE q == st.questions[k]
             t == Answered(st, k)
  <2>1. k \in 1 .. Len(st.questions) /\ ~Over(st)
    BY <1>2 DEF OpenQuestions, Answer, Over
  <2>2. Fine(g, IF q.asked = "escalation" THEN Restart(t, q.slot, TRUE)
                ELSE IF d = "Continue" THEN Rework(t, q.step, q.pass)
                ELSE Onward(t, q.step, "Accepted"))
    BY <1>1, <2>1, AnswerKeeps
  <2>3. Seats(g, st) => Seats(g, IF q.asked = "escalation" THEN Restart(t, q.slot, TRUE)
                                 ELSE IF d = "Continue" THEN Rework(t, q.step, q.pass)
                                 ELSE Onward(t, q.step, "Accepted"))
    BY <1>1, <1>2, <2>1, AnswerSeats DEF Answer
  <2> QED BY <1>2, <2>2, <2>3 DEF Answer, Become, Ok, Answered
<1>3. ASSUME NEW i \in Slots(st), Resume(i)
      PROVE  Ok
  <2> DEFINE s == SetCondition(st, i, "none")
  <2>1. ~Over(st) /\ st.slots[i].condition \in {"Held", "Parked", "WouldNotStop"}
    BY <1>1, <1>3, SlotKnown DEF Resume, Over, Conditioned, SlotSet
  <2>2. CASE st.slots[i].condition = "WouldNotStop"
    <3>1. Keeps(g, st, With(s, i, [s.slots[i] EXCEPT !.ladder = [st.slots[i].ladder EXCEPT !.sent = 0, !.fired = 0]]))
      BY <1>1, <2>1, <2>2, ResumeStopKeeps
    <3> QED BY <1>3, <2>2, <3>1, KeptOk DEF Resume, Become
  <2>3. CASE st.slots[i].condition # "WouldNotStop"
    <3> DEFINE b == Freshened(s, i)
    <3>1. Fine(g, Restart(ClearTimers(b, {"hold_retry"}, i), i, FALSE))
      BY <1>1, <2>1, <2>3, ResumeSeatKeeps
    <3>2. Seats(g, st) => Seats(g, Restart(ClearTimers(b, {"hold_retry"}, i), i, FALSE))
      BY <1>1, <1>3, <2>1, <2>3, ResumeSeats DEF Resume, Conditioned
    <3> QED BY <1>3, <2>3, <3>1, <3>2 DEF Resume, Become, Ok, Freshened
  <2> QED BY <2>2, <2>3
<1>4. CASE ResumeRun
  <2> DEFINE a == [st EXCEPT !.condition = "none", !.root_periods = 0]
  <2>1. a \in StateSet(g)
    BY <1>1 DEF StateSet
  <2>2. /\ a.timers = st.timers
        /\ RunIs(st, a, st.phase, st.commissioned, st.root, st.tree, st.park, "none", 0, st.cancel_owed)
    BY <1>1 DEF StateSet, RunIs
  <2>3. ~Over(st) /\ st.condition # "none"
    BY <1>4 DEF ResumeRun, Over
  <2>4. st' = (IF st.condition = "root_failed" THEN SetTimer(a, "root_deadline", 0)
               ELSE IF st.condition = "tree_refused" THEN SetTimer(a, "tree_window", 0) ELSE a) /\ given' = given
    BY <1>4 DEF ResumeRun, Become
  <2> HIDE DEF a
  <2>5. Keeps(g, st, IF st.condition = "root_failed" THEN SetTimer(a, "root_deadline", 0)
                ELSE IF st.condition = "tree_refused" THEN SetTimer(a, "tree_window", 0) ELSE a)
    BY <1>1, <2>1, <2>2, <2>3, ResumeRunKeeps
  <2> QED BY <2>4, <2>5, KeptOk DEF Ok
<1>5. CASE Withdrawn
  <2> DEFINE t == Forcing(st)
  <2>1. Fine(g, IF Finishing(st) THEN t ELSE FinishRun(t, "Withdrawn"))
    BY <1>1, <1>5, WithdrawnKeeps DEF Withdrawn
  <2>2. Seats(g, st) => Seats(g, IF Finishing(st) THEN t ELSE FinishRun(t, "Withdrawn"))
    BY <1>1, <1>5, WithdrawnSeats DEF Withdrawn
  <2> QED BY <1>5, <2>1, <2>2 DEF Withdrawn, Become, Ok, Forcing, ForcedSlot
<1> QED BY <1>2, <1>3, <1>4, <1>5 DEF PersonInput

LEMMA FiredSeats ==
  ASSUME NEW s, given \in DOMAIN Settings, Fine(Settings[given], s), Seats(Settings[given], s), NEW t \in s.timers
  PROVE  Seats(Settings[given], Fired([s EXCEPT !.timers = s.timers \ {t}], t[1], t[2]))
<1> DEFINE g == Settings[given]
           u == Fired([s EXCEPT !.timers = s.timers \ {t}], t[1], t[2])
<1>1. t[1] # "hold_retry" => Steady(s, u)
  BY FiredKeeps
<1>2. CASE t[1] # "hold_retry"
  <2> HIDE DEF u
  <2>1. Seats(g, u)
    BY <1>1, <1>2, SteadySeats
  <2> QED BY <2>1 DEF u
<1>3. CASE t[1] = "hold_retry"
  <2>1. t = <<t[1], t[2]>>
    BY DEF Fine, StateSet
  <2>2. Armed(s, t[1], t[2]) /\ [s EXCEPT !.timers = s.timers \ {t}] = Spent(s, t[1], t[2])
    BY <2>1 DEF Armed, Spent
  <2>3. t[2] \in Slots(s)
    BY <1>3, <2>2 DEF Fine, RunOK, TimersTyped, RunPurposes
  <2>4. Seats(g, Fired(Spent(s, "hold_retry", t[2]), "hold_retry", t[2]))
    BY <1>3, <2>2, <2>3, HoldRetrySeats
  <2> QED BY <1>3, <2>2, <2>4
<1> QED BY <1>2, <1>3

LEMMA EveryStep ==
  ASSUME Shape, [Next]_vars
  PROVE  Ok
<1>1. given \in DOMAIN Settings /\ Fine(Settings[given], st)
  BY DEF Shape
<1>2. ASSUME RunInput PROVE Ok
  BY <1>2, RunInputStep
<1>3. ASSUME NEW i \in Slots(st), SlotInput(i)
      PROVE  Ok
  BY <1>3, SlotInputStep
<1>4. ASSUME PersonInput PROVE Ok
  BY <1>4, PersonInputStep
<1>5. ASSUME NEW t \in st.timers, TimerFired(t)
      PROVE  Ok
  <2>1. Fine(Settings[given], Fired([st EXCEPT !.timers = st.timers \ {t}], t[1], t[2]))
    BY <1>1, FiredKeeps
  <2>2. Seats(Settings[given], st) =>
          Seats(Settings[given], Fired([st EXCEPT !.timers = st.timers \ {t}], t[1], t[2]))
    BY <1>1, FiredSeats
  <2> QED BY <1>5, <2>1, <2>2 DEF TimerFired, Become, Ok
<1>6. ASSUME PoisonParked PROVE Ok
  <2>1. Keeps(Settings[given], st, [st EXCEPT !.condition = "poison"])
    BY <1>1, <1>6, PoisonParkedKeeps DEF PoisonParked, May
  <2> QED BY <1>6, <2>1, KeptOk DEF PoisonParked, Become
<1>7. ASSUME UNCHANGED vars PROVE Ok
  BY <1>1, <1>7 DEF vars, Ok
<1> QED BY <1>2, <1>3, <1>4, <1>5, <1>6, <1>7 DEF Next

LEMMA ShapeInit ==
  ASSUME Init
  PROVE  Shape
<1> DEFINE g == Settings[given]
<1>1. given \in DOMAIN Settings /\ st = Initial /\ g.max_attempts \in Nat \ {0}
  BY Given DEF Init
<1>2. [s \in g.step |-> 0] \in [g.step -> Nat]
  OBVIOUS
<1>3. st \in StateSet(g)
  BY <1>1, <1>2 DEF Initial, StateSet, Step
<1>4. /\ st.phase = "Created" /\ ~st.commissioned /\ ~st.root /\ st.tree = "Unprepared" /\ st.outcome = "none"
      /\ st.condition = "none" /\ st.slots = <<>> /\ st.current = NoStep /\ st.questions = <<>> /\ st.timers = {}
      /\ st.root_periods = 0
  BY <1>1 DEF Initial
<1>5. Slots(st) = {} /\ ~Over(st) /\ Len(st.questions) = 0 /\ Len(st.slots) = 0 /\ \A p, i : ~Armed(st, p, i)
  BY <1>4 DEF Slots, Over, Armed
<1>6. DeadlinesFit(g, st) /\ PhaseFits(st)
  BY <1>1, <1>4, <1>5 DEF DeadlinesFit, PhaseFits
<1>7. TimersTyped(st) /\ OnlyStops(st) /\ NothingLeft(st) /\ QuestionsFit(g, st)
  BY <1>4, <1>5 DEF TimersTyped, OnlyStops, NothingLeft, QuestionsFit
<1> QED BY <1>1, <1>3, <1>5, <1>6, <1>7 DEF Shape, Fine, RunOK

\* The invariant: every slot agrees with its ladder and its timers, and the run with its
\* phase, its deadlines, its questions and its outcome (decide and evolve together).
THEOREM ShapeHolds == Spec => []Shape
<1>1. Init => Shape
  BY ShapeInit
<1>2. Shape /\ [Next]_vars => Shape'
  BY EveryStep DEF Shape, Ok
<1> QED BY <1>1, <1>2, PTL DEF Spec

LEMMA SeatsInit ==
  ASSUME Init
  PROVE  Seats(Settings[given], st)
<1> DEFINE g == Settings[given]
<1>1. /\ st.slots = <<>> /\ st.questions = <<>> /\ st.current = NoStep /\ st.outcome = "none" /\ st.tree = "Unprepared"
      /\ st.passes = [s \in g.step |-> 0] /\ g.max_passes \in [g.step -> Nat \ {0}]
  BY Given DEF Init, Initial, Step
<1>2. Slots(st) = {} /\ Len(st.questions) = 0
  BY <1>1 DEF Slots
<1>3. Core(g, st)
  BY <1>1, <1>2 DEF Core, AttemptsRise, BusyIsNewest, RetriesFit, Asked, Underway
<1>4. OneEach(g, st) /\ Settled(st)
  BY <1>1, <1>2 DEF OneEach, Settled, Waiting
<1>5. CeilingsHold(g, st)
  <2>1. \A step : Permits(st, step) = {}
    BY <1>2 DEF Permits
  <2>2. Cardinality({}) = 0
    BY FS_EmptySet
  <2>3. ASSUME NEW step \in g.step
        PROVE  st.passes[step] <= g.max_passes[step] + Cardinality(Permits(st, step))
    <3>1. st.passes[step] = 0 /\ g.max_passes[step] \in Nat
      BY <1>1, <2>3
    <3>2. Cardinality(Permits(st, step)) = 0
      BY <2>1, <2>2
    <3> QED BY <3>1, <3>2
  <2> QED BY <2>3 DEF CeilingsHold
<1> QED BY <1>3, <1>4, <1>5 DEF Seats

Order == Shape /\ Seats(Settings[given], st)

\* The second layer: every seat has one attempt that counts, every visit before the current
\* one is complete, no back edge is past its ceiling unanswered, and nothing waits for
\* nobody (arm_ready, after_reply, finish_step, restart_or_park, hold and answer together).
THEOREM OrderHolds == Spec => []Order
<1>1. Init => Order
  BY ShapeInit, SeatsInit DEF Order
<1>2. Order /\ [Next]_vars => Order'
  BY EveryStep DEF Order, Shape, Ok
<1> QED BY <1>1, <1>2, PTL DEF Spec

\* A run ends by force only when it is withdrawn, and with nothing left behind
\* (apply_finishing, withdrawn, ready_to_release), whatever the flow and its sessions do.
THEOREM RunsEndInOrder == Spec => []EndsInOrder
<1>1. Shape => EndsInOrder
  <2>1. SUFFICES ASSUME Shape PROVE EndsInOrder
    OBVIOUS
  <2>2. Fine(Settings[given], st)
    BY <2>1 DEF Shape
  <2>3. WithdrawalForcesEveryStop
    BY <2>2 DEF WithdrawalForcesEveryStop, Fine, SlotOK, SlotFits, LadderFits
  <2>4. FinishedLeavesNothing
    BY <2>2 DEF FinishedLeavesNothing, Fine, RunOK, NothingLeft
  <2> QED BY <2>3, <2>4 DEF EndsInOrder
<1> QED BY <1>1, ShapeHolds, PTL

\* Every process that may be alive is watched by a timer, owed a signal or has had every
\* signal there is (rearm, reply, stop_signalled, grace_over), as long as the host that
\* sampled a session can go on sampling it: run engine_sampler is what happens otherwise.
THEOREM LiveSlotsStayWatched == Spec => []("sampler_fails" \notin May => LiveSlotsAreWatched)
<1>1. Shape => ("sampler_fails" \notin May => LiveSlotsAreWatched)
  <2>1. SUFFICES ASSUME Shape, "sampler_fails" \notin May, NEW i \in Slots(st)
                 PROVE  LET r == st.slots[i]
                            l == r.ladder
                        IN  /\ r.at = "Starting" => Armed(st, "start_deadline", i)
                            /\ r.at = "Running" /\ ~r.open => Armed(st, "quiet", i)
                            /\ r.at = "Running" /\ r.open =>
                                 Armed(st, "subprocess_idle", i) \/ (r.blind /\ Armed(st, "call_bound", i))
                            /\ r.at \in {"Quiet", "Nudged"} => Armed(st, "confirm", i)
                            /\ r.at = "Replied" /\ r.live /\ ~l.on => Armed(st, "wind_down", i)
                            /\ l.on => \/ StopOwed(st, i) \/ l.sent = 3 \/ (~l.forced /\ l.sent = 2 /\ l.fired = 2)
                                       \/ l.sent = 1 /\ Armed(st, "stop_grace_1", i)
                                       \/ l.sent = 2 /\ Armed(st, "stop_grace_2", i)
    BY DEF LiveSlotsAreWatched
  <2> DEFINE g == Settings[given]
             r == st.slots[i]
             l == r.ladder
  <2>2. Fine(g, st) /\ "sampler_fails" \notin g.may
    BY <2>1 DEF Shape, May
  <2>3. Watched(g, st, i, r) /\ SlotFits(g, r, st.withdrawn, Over(st), Ready(st)) /\ l \in LadderType
    BY <2>2, SlotKnown DEF SlotOK
  <2>4. l.on => \/ StopOwed(st, i) \/ l.sent = 3 \/ (~l.forced /\ l.sent = 2 /\ l.fired = 2)
                \/ l.sent = 1 /\ Armed(st, "stop_grace_1", i)
                \/ l.sent = 2 /\ Armed(st, "stop_grace_2", i)
    <3>1. SUFFICES ASSUME l.on
                   PROVE  \/ StopOwed(st, i) \/ l.sent = 3 \/ (~l.forced /\ l.sent = 2 /\ l.fired = 2)
                          \/ l.sent = 1 /\ Armed(st, "stop_grace_1", i)
                          \/ l.sent = 2 /\ Armed(st, "stop_grace_2", i)
      OBVIOUS
    <3>2. Live(r) /\ Ready(st)
      BY <2>3, <3>1 DEF SlotFits, LadderFits, Live
    <3>3. Finishing(st) \/ TreePrepared(st)
      BY <2>2, <3>2, LiveIsUnfinished DEF Ready, Over, Finishing
    <3>4. l.fired <= l.sent /\ (l.sent = 2 => l.fired >= 1) /\ l.sent \in 0 .. 3 /\ l.fired \in 0 .. 2
      BY <2>3 DEF SlotFits, LadderFits, LadderType
    <3>5. \/ StopSignal(l) # "none" \/ l.sent = 3 \/ (~l.forced /\ l.sent = 2 /\ l.fired = 2)
          \/ (l.sent = 1 /\ l.fired = 0) \/ (l.sent = 2 /\ l.fired < 2)
      <4>1. l.sent = 0 \/ l.sent = 1 \/ l.sent = 2 \/ l.sent = 3
        BY <3>4
      <4>2. l.fired = 0 \/ l.fired >= 1
        BY <3>4
      <4>3. l.sent = 2 => l.fired < 2 \/ l.fired = 2
        BY <3>4
      <4> QED BY <3>1, <4>1, <4>2, <4>3 DEF StopSignal
    <3> QED BY <2>3, <3>1, <3>3, <3>5 DEF StopOwed, Watched
  <2>5. r.at = "Running" /\ r.open => Armed(st, "subprocess_idle", i) \/ (r.blind /\ Armed(st, "call_bound", i))
    BY <2>2, <2>3 DEF Watched
  <2> QED BY <2>3, <2>4, <2>5 DEF Watched
<1> QED BY <1>1, ShapeHolds, PTL

\* A run that waits for its root or for its tree and is not parked has its deadline running
\* (decide/timers.rs root_period, tree_window), however often either is renewed.
THEOREM WaitsStayTimed == Spec => []WaitsAreTimed
<1>1. Shape => WaitsAreTimed
  BY DEF Shape, Fine, RunOK, DeadlinesFit, WaitsAreTimed, May
<1> QED BY <1>1, ShapeHolds, PTL

\* The key of a signal that is owed is new (Effect::StopSession), across any number of
\* resumed stops, as long as no session whose end is folded reports that it started.
THEOREM StopKeysStayNew == Spec => []StopKeysNeverRepeat
<1>1. Shape => StopKeysNeverRepeat
  <2>1. SUFFICES ASSUME Shape, "late_start" \notin May, NEW i \in Slots(st), StopOwed(st, i)
                 PROVE  st.slots[i].ladder.total + 1 > st.slots[i].logged
    BY DEF StopKeysNeverRepeat
  <2>2. Fine(Settings[given], st) /\ "late_start" \notin Settings[given].may
    BY <2>1 DEF Shape, May
  <2>3. /\ SlotOK(Settings[given], st, i) /\ st.slots[i].ladder \in LadderType
        /\ st.slots[i] \in SlotSet(Settings[given])
    BY <2>2, SlotKnown
  <2>4. st.slots[i].ladder.on
    BY <2>1 DEF StopOwed, StopSignal
  <2>5. st.slots[i].ladder.total \in Nat /\ st.slots[i].logged \in Nat
    BY <2>3 DEF LadderType, SlotSet
  <2>6. st.slots[i].logged <= st.slots[i].ladder.total
    BY <2>2, <2>3, <2>4 DEF SlotOK, SlotFits
  <2> QED BY <2>5, <2>6
<1> QED BY <1>1, ShapeHolds, PTL

LEMMA OrderFacts ==
  ASSUME Order
  PROVE  /\ given \in DOMAIN Settings /\ Fine(Settings[given], st) /\ st \in StateSet(Settings[given])
         /\ Core(Settings[given], st) /\ OneEach(Settings[given], st)
         /\ CeilingsHold(Settings[given], st) /\ Settled(st)
BY DEF Order, Shape, Fine, Seats

\* RunState keeps its shape, no seat is restarted and no hold is counted past its budget
\* (restart_or_park, hold), and open calls and ladders are only where SlotState has them,
\* for every flow and policy.
THEOREM TypesHold == Spec => []TypeOK
<1>1. Order => TypeOK
  <2>1. SUFFICES ASSUME Order PROVE TypeOK
    OBVIOUS
  <2> DEFINE g == Settings[given]
  <2>2. /\ given \in DOMAIN Settings /\ Fine(g, st) /\ st \in StateSet(g) /\ Core(g, st)
        /\ g.max_attempts \in Nat \ {0} /\ g.max_holds \in Nat
    BY <2>1, OrderFacts, Given
  <2>3. /\ st.phase \in {"Created", "Queued", "Running", "Finishing", "Finished"}
        /\ st.tree \in {"Unprepared", "Prepared"} /\ st.park \in {"none", "clean", "committed"}
        /\ st.outcome \in {"none", "Delivered", "Accepted", "Withdrawn"}
        /\ st.condition \in {"none", "root_failed", "tree_refused", "poison"}
        /\ st.delivered \subseteq {"result", "notice"}
    BY <2>2 DEF StateSet
  <2>4. /\ st.visits \in [Step -> Nat] /\ st.passes \in [Step -> Nat]
        /\ st.current \in Step \cup {NoStep}
    BY <2>2 DEF StateSet, Step
  <2>5. st.root_periods \in 0 .. MaxAttempts
    <3>1. st.root_periods \in Nat
      BY <2>2 DEF StateSet
    <3>2. st.root_periods <= g.max_attempts
      BY <2>2 DEF Fine, RunOK, DeadlinesFit
    <3> QED BY <2>2, <3>1, <3>2 DEF MaxAttempts
  <2>6. st.timers \subseteq (RunPurposes \X {0}) \cup (SlotPurposes \X Slots(st))
    <3>1. SUFFICES ASSUME NEW t \in st.timers
                   PROVE  t \in (RunPurposes \X {0}) \cup (SlotPurposes \X Slots(st))
      OBVIOUS
    <3>2. t = <<t[1], t[2]>>
      BY <2>2 DEF StateSet
    <3>3. Armed(st, t[1], t[2])
      BY <3>2 DEF Armed
    <3>4. (t[1] \in RunPurposes /\ t[2] = 0) \/ (t[1] \in SlotPurposes /\ t[2] \in Slots(st))
      BY <2>2, <3>3 DEF Fine, RunOK, TimersTyped
    <3> QED BY <3>2, <3>4
  <2>7. ASSUME NEW i \in Slots(st)
        PROVE  SlotType(st.slots[i])
    <3> DEFINE r == st.slots[i]
    <3>1. r \in SlotSet(g) /\ SlotOK(g, st, i)
      BY <2>2, SlotKnown
    <3>2. SeatFits(g, st, r)
      BY <2>2 DEF Core
    <3>3. /\ r.step \in Step /\ r.visit \in Nat /\ r.attempt \in Nat
          /\ r.at \in States /\ r.cause \in Causes \cup {"none"}
          /\ r.ladder \in LadderType /\ r.logged \in Nat /\ r.holds \in 0 .. MaxHolds
          /\ r.condition \in {"none", "Held", "Parked", "WouldNotStop"} /\ r.restarts \in Nat
      BY <3>1 DEF SlotSet, Step, MaxHolds
    <3>4. r.restarts < g.max_attempts
      BY <3>2 DEF SeatFits
    <3>5. r.restarts \in 0 .. MaxAttempts - 1
      BY <2>2, <3>3, <3>4 DEF MaxAttempts
    <3>6. /\ r.open => Talking(r)
          /\ r.ladder.on => r.at = "Stopping" \/ (r.at = "Replied" /\ r.live)
          /\ r.at = "Stopping" => r.ladder.on
      BY <3>1 DEF SlotOK, SlotFits, LadderFits
    <3> QED BY <3>3, <3>5, <3>6 DEF SlotType
  <2> QED BY <2>3, <2>4, <2>5, <2>6, <2>7 DEF TypeOK
<1> QED BY <1>1, OrderHolds, PTL

LEMMA TimersFitAll ==
  ASSUME Order
  PROVE  TimersFitTheirSlot
<1> DEFINE g == Settings[given]
<1>1. Fine(g, st) /\ st \in StateSet(g) /\ Core(g, st)
  BY OrderFacts
<1>2. SUFFICES ASSUME NEW t \in st.timers
               PROVE  LET r == st.slots[t[2]]
                      IN  CASE t[1] = "root_deadline" -> st.phase = "Created"
                            [] t[1] = "tree_window" -> st.phase = "Running" /\ st.tree = "Unprepared"
                            [] t[1] = "start_deadline" -> r.at = "Starting"
                            [] t[1] = "quiet" -> r.at = "Running" /\ ~r.open
                            [] t[1] \in {"subprocess_idle", "call_bound"} -> r.at = "Running" /\ r.open
                            [] t[1] = "confirm" -> r.at \in {"Quiet", "Nudged"}
                            [] t[1] = "wind_down" -> r.at = "Replied" /\ r.live /\ ~r.ladder.on
                            [] t[1] = "stop_grace_1" -> r.ladder.on /\ r.ladder.sent >= 1 /\ r.ladder.fired = 0
                            [] t[1] = "stop_grace_2" -> r.ladder.on /\ r.ladder.sent >= 2 /\ r.ladder.fired < 2
                            [] t[1] = "hold_retry" -> r.at = "Ended" /\ r.condition = "Held" /\ ~Superseded(st, t[2])
  BY DEF TimersFitTheirSlot
<1> DEFINE p == t[1]
           i == t[2]
           r == st.slots[i]
<1>3. t = <<p, i>>
  BY <1>1 DEF StateSet
<1>4. Armed(st, p, i)
  BY <1>3 DEF Armed
<1>5. (p \in RunPurposes /\ i = 0) \/ (p \in SlotPurposes /\ i \in Slots(st))
  BY <1>1, <1>4 DEF Fine, RunOK, TimersTyped
<1>6. p = "root_deadline" => st.phase = "Created"
  BY <1>1, <1>4, <1>5 DEF Fine, RunOK, DeadlinesFit, SlotPurposes
<1>7. p = "tree_window" => st.phase = "Running" /\ st.tree = "Unprepared"
  BY <1>1, <1>4, <1>5 DEF Fine, RunOK, DeadlinesFit, SlotPurposes
<1>8. ASSUME p \in SlotPurposes
      PROVE  /\ i \in Slots(st) /\ TimersFit(st, i, r)
             /\ p = "hold_retry" => r.at = "Ended" /\ r.condition = "Held" /\ ~Superseded(st, i)
  <2>1. i \in Slots(st)
    BY <1>5, <1>8 DEF SlotPurposes, RunPurposes
  <2>2. TimersFit(st, i, r)
    BY <1>1, <2>1, SlotKnown DEF SlotOK
  <2>3. p = "hold_retry" => RetryFits(st, i)
    BY <1>1, <1>4, <2>1 DEF Core, RetriesFit
  <2>4. Superseded(st, i) <=> ~Newest(st, i)
    BY <1>1, <2>1, SupersededIs DEF Core
  <2> QED BY <2>1, <2>2, <2>3, <2>4 DEF RetryFits
<1>9. /\ p = "start_deadline" => r.at = "Starting"
      /\ p = "quiet" => r.at = "Running" /\ ~r.open
      /\ p \in {"subprocess_idle", "call_bound"} => r.at = "Running" /\ r.open
      /\ p = "confirm" => r.at \in {"Quiet", "Nudged"}
      /\ p = "wind_down" => r.at = "Replied" /\ r.live /\ ~r.ladder.on
      /\ p = "stop_grace_1" => r.ladder.on /\ r.ladder.sent >= 1 /\ r.ladder.fired = 0
      /\ p = "stop_grace_2" => r.ladder.on /\ r.ladder.sent >= 2 /\ r.ladder.fired < 2
      /\ p = "hold_retry" => r.at = "Ended" /\ r.condition = "Held" /\ ~Superseded(st, i)
  BY <1>4, <1>8 DEF TimersFit, SlotPurposes
<1>10. p \in RunPurposes \cup SlotPurposes
  BY <1>5
<1> HIDE DEF p, i, r
<1> QED BY <1>6, <1>7, <1>9, <1>10 DEF RunPurposes, SlotPurposes, p, i, r


\* The timers of slots and of the run agree with what they wait for, in both directions
\* (rearm, clear_slot_timers, finish_run, root_period): no process goes unnoticed and no
\* timer concludes anything about a session that has moved on, ended or been superseded.
THEOREM TimersStayInStep == Spec => []("sampler_fails" \notin May => TimersAgree)
<1>1. Order => TimersFitTheirSlot
  BY TimersFitAll
<1>2. /\ TimersFitTheirSlot /\ WaitsAreTimed
      /\ "sampler_fails" \notin May => LiveSlotsAreWatched
      => ("sampler_fails" \notin May => TimersAgree)
  BY DEF TimersAgree
<1> QED BY <1>1, <1>2, OrderHolds, LiveSlotsStayWatched, WaitsStayTimed, PTL

\* No session key, question key or signal key is ever used twice (Slot::session_key, the
\* escalation's key, ceiling_key, Effect::StopSession), however often seats are restarted,
\* steps revisited and stops resumed.
THEOREM KeysStayNew == Spec => []KeysNeverRepeat
<1>1. Order => KeysAreUnique
  <2>1. SUFFICES ASSUME Order PROVE KeysAreUnique
    OBVIOUS
  <2> DEFINE g == Settings[given]
  <2>2. st \in StateSet(g) /\ Core(g, st) /\ Fine(g, st)
    BY <2>1, OrderFacts
  <2>3. ASSUME NEW i \in Slots(st), NEW j \in Slots(st),
               SameSeat(st.slots[i], st.slots[j]), st.slots[i].attempt = st.slots[j].attempt
        PROVE  i = j
    <3>1. SameSeat(st.slots[j], st.slots[i])
      BY <2>3 DEF SameSeat
    <3>2. /\ i < j => st.slots[i].attempt < st.slots[j].attempt
          /\ j < i => st.slots[j].attempt < st.slots[i].attempt
      BY <2>2, <2>3, <3>1 DEF Core, AttemptsRise
    <3>3. st.slots[i] \in SlotSet(g) /\ i \in Nat /\ j \in Nat
      BY <2>2, SlotKnown
    <3>4. st.slots[i].attempt \in Nat
      BY <3>3 DEF SlotSet
    <3> QED BY <2>3, <3>2, <3>3, <3>4
  <2>4. ASSUME NEW j \in 1 .. Len(st.questions), NEW k \in 1 .. Len(st.questions),
               st.questions[j].asked = st.questions[k].asked, st.questions[j].slot = st.questions[k].slot,
               st.questions[j].step = st.questions[k].step, st.questions[j].visit = st.questions[k].visit
        PROVE  j = k
    <3>1. SameMatter(st.questions[j], st.questions[k])
      BY <2>4 DEF SameMatter
    <3> QED BY <2>2, <3>1 DEF Core, Asked
  <2> QED BY <2>3, <2>4 DEF KeysAreUnique
<1>2. KeysAreUnique /\ StopKeysNeverRepeat => KeysNeverRepeat
  BY DEF KeysNeverRepeat
<1> QED BY <1>1, <1>2, OrderHolds, StopKeysStayNew, PTL

\* A visit that is complete is done: every member, and the consolidator of a fan-out, has a
\* latest attempt, and it has answered.
LEMMA CompleteIsDone ==
  ASSUME Order, NEW step, NEW visit, Begun(st, step, visit), Complete(Settings[given], st, step, visit)
  PROVE  Done(st, step, visit)
<1> DEFINE g == Settings[given]
<1>1. st \in StateSet(g) /\ Core(g, st) /\ Fine(g, st)
  BY OrderFacts
<1>2. ASSUME NEW m, NEW l, l = Latest(st, step, visit, m), HasSeat(st, step, visit, m)
      PROVE  l > 0 /\ Voted(st.slots[l])
  <2>1. l \in Slots(st) /\ InVisit(st.slots[l], step, visit) /\ Newest(st, l)
    BY <1>1, <1>2, LatestOf
  <2>2. l > 0
    BY <2>1 DEF Slots
  <2> QED BY <2>1, <2>2 DEF Complete, Clear
<1>3. PICK j \in Slots(st) : InVisit(st.slots[j], step, visit)
  BY DEF Begun
<1>4. \A m : MemberOf(g, step, m) => HasSeat(st, step, visit, m)
  BY <1>1, <1>3 DEF Core, SeatFits, InVisit
<1>5. ASSUME NEW k \in 1 .. Len(Members[step]), NEW i, i = Latest(st, step, visit, Members[step][k])
      PROVE  i > 0 /\ st.slots[i].at = "Replied" /\ ~st.slots[i].escalate
  <2>1. HasSeat(st, step, visit, Members[step][k])
    BY <1>4, <1>5 DEF MemberOf, Members
  <2> QED BY <1>2, <1>5, <2>1 DEF Voted
<1>6. ASSUME step \in FanOut, NEW i, i = Latest(st, step, visit, Synth)
      PROVE  i > 0 /\ st.slots[i].at = "Replied"
  <2>1. HasSeat(st, step, visit, Synth)
    BY <1>6 DEF Complete, FanOut
  <2> QED BY <1>2, <1>6, <2>1 DEF Voted
<1> QED BY <1>5, <1>6 DEF Done

\* A run leaves a visit only when every member's latest attempt has answered it, and goes
\* back no oftener than the flow or a person's answers allow (after_reply, restart,
\* step_started, finish_step, one_more_pass), for every flow, fan-outs and cycles included.
THEOREM StepsLeftInOrder == Spec => []StepsAreLeftInOrder
<1>1. Order => StepsAreLeftInOrder
  <2>1. SUFFICES ASSUME Order PROVE StepsAreLeftInOrder
    OBVIOUS
  <2> DEFINE g == Settings[given]
  <2>2. st \in StateSet(g) /\ Core(g, st) /\ CeilingsHold(g, st)
    BY <2>1, OrderFacts
  <2>3. ASSUME NEW i \in Slots(st),
               st.slots[i].step # st.current \/ st.slots[i].visit # st.visits[st.current]
        PROVE  Done(st, st.slots[i].step, st.slots[i].visit)
    <3> DEFINE step == st.slots[i].step
               visit == st.slots[i].visit
    <3>1. SeatFits(g, st, st.slots[i])
      BY <2>2 DEF Core
    <3>2. Begun(st, step, visit) /\ Complete(g, st, step, visit)
      BY <2>3, <3>1 DEF SeatFits, Current, Begun, InVisit
    <3> HIDE DEF step, visit
    <3>3. Done(st, step, visit)
      BY <2>1, <3>2, CompleteIsDone
    <3> QED BY <3>3 DEF step, visit
  <2>4. ASSUME st.outcome \in {"Delivered", "Accepted"}
        PROVE  Done(st, st.current, st.visits[st.current])
    <3> DEFINE visit == st.visits[st.current]
    <3>1. Begun(st, st.current, visit) /\ Complete(g, st, st.current, visit)
      BY <2>2, <2>4 DEF Core, Underway
    <3> HIDE DEF visit
    <3>2. Done(st, st.current, visit)
      BY <2>1, <3>1, CompleteIsDone
    <3> QED BY <3>2 DEF visit
  <2>5. NoStepLeftBehind
    BY <2>3, <2>4 DEF NoStepLeftBehind
  <2>6. CeilingIsAsked
    BY <2>2 DEF CeilingsHold, Permits, CeilingIsAsked, Step, MaxPasses
  <2> QED BY <2>5, <2>6 DEF StepsAreLeftInOrder
<1> QED BY <1>1, OrderHolds, PTL

\* A persona has one process at a time, unless a session whose end is folded reports that
\* it started, and a slot that waits under a prepared tree waits for a process of its own
\* persona (persona_is_live, arm_ready): nobody waits for nobody.
THEOREM PersonasKeepTurns == Spec => []PersonasTakeTurns
<1>1. Order => PersonasTakeTurns
  <2>1. SUFFICES ASSUME Order PROVE PersonasTakeTurns
    OBVIOUS
  <2>2. OneEach(Settings[given], st) /\ Settled(st)
    BY <2>1, OrderFacts
  <2>3. OneProcessPerPersona
    BY <2>2 DEF OneEach, OneProcessPerPersona, May
  <2>4. WaitingSlotsWaitForSomeone
    BY <2>2 DEF Settled, Waiting, WaitingSlotsWaitForSomeone, TreePrepared, Over
  <2> QED BY <2>3, <2>4 DEF PersonasTakeTurns
<1> QED BY <1>1, OrderHolds, PTL


\* ------------------------------------------------------------------- remedies

LEMMA PendingIs ==
  ASSUME NEW s
  PROVE  /\ s.phase = "Created" /\ s.commissioned /\ ~s.root /\ s.condition = "none" => PendingEffects(s) # {}
         /\ s.phase = "Queued" => PendingEffects(s) # {}
         /\ s.phase = "Running" /\ s.cancel_owed => PendingEffects(s) # {}
         /\ s.phase = "Running" /\ s.tree = "Unprepared" /\ s.condition = "none" => PendingEffects(s) # {}
         /\ TreePrepared(s) /\ (\E i \in Slots(s) : StopOwed(s, i)) => PendingEffects(s) # {}
         /\ Finishing(s) /\ (\E i \in Slots(s) : StopOwed(s, i)) => PendingEffects(s) # {}
         /\ Finishing(s) /\ ~AnyLive(s) => PendingEffects(s) # {}
<1> DEFINE stops == {<<"StopSession", i>> : i \in {j \in Slots(s) : StopOwed(s, j)}}
           results == {<<"Deliver", 0>> : d \in OwedResults(s)}
           asks == {<<"Deliver", k>> : k \in OwedQuestions(s)}
           starts == {<<"StartSession", i>> : i \in {j \in Slots(s) : s.slots[j].at = "Starting"}}
           nudges == {<<"NudgeSession", i>> : i \in {j \in Slots(s) : s.slots[j].at = "Quiet"}}
           P == PendingEffects(s)
<1>1. P =
        CASE s.phase = "Created" ->
               IF s.commissioned /\ ~s.root /\ s.condition = "none" THEN {<<"OpenRoot", 0>>} ELSE {}
          [] s.phase = "Queued" -> {<<"TakeClaim", 0>>}
          [] s.phase = "Running" /\ s.cancel_owed -> {<<"CancelTree", 0>>}
          [] s.phase = "Running" /\ ~s.cancel_owed /\ s.tree = "Unprepared" ->
               IF s.condition = "none" THEN {<<"PrepareTree", 0>>} ELSE {}
          [] TreePrepared(s) /\ ~s.cancel_owed -> stops \cup asks \cup starts \cup nudges
          [] Finishing(s) ->
               IF AnyLive(s) THEN stops
               ELSE IF s.park = "none" THEN {<<"ParkTree", 0>>}
               ELSE IF results # {} THEN results ELSE {<<"ReleaseClaim", 0>>}
          [] OTHER -> {}
  BY DEF PendingEffects
<1>2. (\E i \in Slots(s) : StopOwed(s, i)) => stops # {}
  OBVIOUS
<1> HIDE DEF stops, results, asks, starts, nudges, P
<1>3. s.phase = "Created" /\ s.commissioned /\ ~s.root /\ s.condition = "none" => P # {}
  BY <1>1 DEF TreePrepared, Finishing
<1>4. s.phase = "Queued" => P # {}
  BY <1>1 DEF TreePrepared, Finishing
<1>5. s.phase = "Running" /\ s.cancel_owed => P # {}
  BY <1>1 DEF TreePrepared, Finishing
<1>6. s.phase = "Running" /\ ~s.cancel_owed /\ s.tree = "Unprepared" /\ s.condition = "none" => P # {}
  BY <1>1 DEF TreePrepared, Finishing
<1>7. TreePrepared(s) /\ ~s.cancel_owed /\ stops # {} => P # {}
  BY <1>1 DEF TreePrepared, Finishing
<1>8. Finishing(s) /\ AnyLive(s) => P = stops
  BY <1>1 DEF TreePrepared, Finishing
<1>9. Finishing(s) /\ ~AnyLive(s) => P # {}
  BY <1>1 DEF TreePrepared, Finishing
<1>10. TreePrepared(s) => s.phase = "Running"
  BY DEF TreePrepared
<1> QED BY <1>2, <1>3, <1>4, <1>5, <1>6, <1>7, <1>8, <1>9, <1>10 DEF P

LEMMA ViewTells ==
  ASSUME NEW s, s.phase \notin {"Finished", "Finishing", "Queued"},
         OpenQuestions(s) # {} \/ Conditioned(s) # {} \/ s.condition # "none"
  PROVE  View(s) \in {"NeedsDecision", "Held", "Parked"}
BY DEF View

\* A process that may be alive is its own remedy, while timers do what LiveSlotsAreWatched says.
LEMMA LiveIsARemedy ==
  ASSUME Order, LiveSlotsAreWatched, NEW i \in Slots(st), Live(st.slots[i])
  PROVE  \/ st.timers # {} \/ PendingEffects(st) # {}
         \/ st.slots[i].condition = "WouldNotStop" \/ st.slots[i].ladder.sent = 3
         \/ /\ Finishing(st) /\ st.slots[i].ladder.on /\ ~st.slots[i].ladder.forced
            /\ st.slots[i].ladder.sent = 2 /\ st.slots[i].ladder.fired = 2
<1> DEFINE g == Settings[given]
           r == st.slots[i]
           l == r.ladder
<1>1. Fine(g, st) /\ SlotFits(g, r, st.withdrawn, Over(st), Ready(st))
  BY OrderFacts, SlotKnown DEF SlotOK
<1>2. Finishing(st) \/ TreePrepared(st)
  <2>1. Ready(st) /\ st.phase # "Finished"
    BY <1>1, LiveIsUnfinished DEF SlotFits, Live, Talking
  <2> QED BY <2>1 DEF Ready, Over, Finishing
<1>3. \A p : Armed(st, p, i) => st.timers # {}
  BY DEF Armed
<1>4. CASE ~l.on
  <2>1. \/ r.at = "Starting" \/ r.at = "Running" \/ r.at \in {"Quiet", "Nudged"} \/ (r.at = "Replied" /\ r.live)
    BY <1>1, <1>4 DEF SlotFits, LadderFits, Live, Talking
  <2>2. \E p : Armed(st, p, i)
    BY <1>4, <2>1 DEF LiveSlotsAreWatched
  <2> QED BY <1>3, <2>2
<1>5. CASE l.on
  <2>1. \/ StopOwed(st, i) \/ l.sent = 3 \/ (~l.forced /\ l.sent = 2 /\ l.fired = 2)
        \/ \E p : Armed(st, p, i)
    BY <1>5 DEF LiveSlotsAreWatched
  <2>2. StopOwed(st, i) => PendingEffects(st) # {}
    BY <1>2, PendingIs
  <2>3. ~l.forced /\ l.sent = 2 /\ l.fired = 2 /\ ~Finishing(st) => r.condition = "WouldNotStop"
    BY <1>1, <1>2, <1>5 DEF SlotFits, Over, TreePrepared, Finishing
  <2> QED BY <1>3, <1>5, <2>1, <2>2, <2>3
<1> QED BY <1>4, <1>5

\* Under a prepared tree, where no person is asked and no seat is parked, someone works.
LEMMA SomeoneWorks ==
  ASSUME Order, TreePrepared(st), OpenQuestions(st) = {}, Conditioned(st) = {}
  PROVE  AnyLive(st)
<1> DEFINE g == Settings[given]
<1>1. Fine(g, st) /\ st \in StateSet(g) /\ Core(g, st) /\ Settled(st) /\ ~Over(st) /\ st.current # NoStep
  BY OrderFacts DEF TreePrepared, Over, Fine, RunOK, PhaseFits
<1>2. ~Clear(st, st.current, st.visits[st.current])
  BY <1>1 DEF Settled, AsksOn
<1>3. PICK i \in Slots(st) : Newest(st, i) /\ ~Voted(st.slots[i])
  BY <1>2 DEF Clear
<1>4. Accounted(st, i) /\ ~AsksAbout(st, i)
  BY <1>1 DEF Settled, AsksAbout
<1>5. ~(st.slots[i].condition \in {"Held", "Parked"})
  <2>1. ~Superseded(st, i)
    BY <1>1, <1>3, SupersededIs DEF Core
  <2> QED BY <2>1 DEF Conditioned
<1>6. Busy(st.slots[i])
  BY <1>3, <1>4, <1>5 DEF Accounted
<1>7. CASE st.slots[i].at = "Pending"
  BY <1>1, <1>7 DEF Settled, Waiting, PersonaLive, AnyLive
<1>8. CASE st.slots[i].at # "Pending"
  BY <1>6, <1>8 DEF Busy, Live, AnyLive
<1> QED BY <1>7, <1>8

\* No run is ever stuck: in every state that any order of facts, answers, signals and timers
\* leads to, an effect is owed, a timer runs, the view tells a person what to do, or a
\* session has had every signal there is (tests/enumeration.rs assert_has_a_remedy), as long
\* as the host that sampled a session can go on sampling it.
THEOREM EveryStateKeepsARemedy == Spec => []("sampler_fails" \notin May => EveryStateHasARemedy)
<1>1. Order /\ LiveSlotsAreWatched => EveryStateHasARemedy
  <2>1. SUFFICES ASSUME Order, LiveSlotsAreWatched, st.commissioned, st.phase # "Finished",
                        PendingEffects(st) = {}, st.timers = {},
                        ~(View(st) \in {"NeedsDecision", "Held", "Parked"})
                 PROVE  \E i \in Slots(st) :
                          LET l == st.slots[i].ladder
                          IN  \/ st.slots[i].condition = "WouldNotStop" \/ l.sent = 3
                              \/ Finishing(st) /\ l.on /\ ~l.forced /\ l.sent = 2 /\ l.fired = 2
    BY DEF EveryStateHasARemedy
  <2> DEFINE g == Settings[given]
  <2>2. Fine(g, st) /\ st \in StateSet(g)
    BY <2>1, OrderFacts
  <2>3. st.phase \in {"Created", "Queued", "Running", "Finishing"} /\ st.tree \in {"Unprepared", "Prepared"}
    BY <2>1, <2>2 DEF StateSet
  <2>4. st.phase \notin {"Finished", "Finishing", "Queued"} =>
          OpenQuestions(st) = {} /\ Conditioned(st) = {} /\ st.condition = "none"
    BY <2>1, ViewTells
  <2>5. AnyLive(st)
    <3>1. st.phase # "Created"
      <4>1. st.phase = "Created" => ~st.root /\ st.condition = "none"
        BY <2>2, <2>4 DEF Fine, RunOK, PhaseFits
      <4> QED BY <2>1, <4>1, PendingIs
    <3>2. st.phase # "Queued"
      BY <2>1, PendingIs
    <3>3. CASE st.phase = "Running"
      <4>1. TreePrepared(st)
        BY <2>1, <2>3, <2>4, <3>3, PendingIs DEF TreePrepared
      <4> QED BY <2>1, <2>4, <3>3, <4>1, SomeoneWorks
    <3>4. CASE st.phase = "Finishing"
      BY <2>1, <3>4, PendingIs DEF Finishing
    <3> QED BY <2>3, <3>1, <3>2, <3>3, <3>4
  <2>6. PICK i \in Slots(st) : Live(st.slots[i])
    BY <2>5 DEF AnyLive
  <2> QED BY <2>1, <2>6, LiveIsARemedy
<1> QED BY <1>1, OrderHolds, LiveSlotsStayWatched, PTL

\* ----------------------------------------------------------- a run that is over

\* What a step may do to a run that is over.
Final(s, t) ==
  /\ t.phase = s.phase \/ t.phase = "Finished"
  /\ t.outcome = s.outcome /\ Len(t.slots) = Len(s.slots)
  /\ \A i \in Slots(s) : t.slots[i].at \in {s.slots[i].at, "Stopping", "Ended"}

LEMMA FinalSame ==
  ASSUME NEW s, NEW t, t.phase = s.phase \/ t.phase = "Finished", t.outcome = s.outcome, t.slots = s.slots
  PROVE  Final(s, t)
BY DEF Final

LEMMA FinalTouch ==
  ASSUME NEW g, NEW s, NEW t, NEW i \in Slots(s), Touch(g, s, t, i),
         t.slots[i].at \in {s.slots[i].at, "Stopping", "Ended"}
  PROVE  Final(s, t)
<1>1. t.phase = s.phase /\ t.outcome = s.outcome /\ Len(t.slots) = Len(s.slots)
  BY DEF Touch, RunSame
<1>2. \A j \in Slots(s) : t.slots[j].at \in {s.slots[j].at, "Stopping", "Ended"}
  BY DEF Touch
<1> QED BY <1>1, <1>2 DEF Final

LEMMA OverSlots ==
  ASSUME NEW g, NEW s, Fine(g, s), Over(s), NEW i \in Slots(s)
  PROVE  s.slots[i].at \in {"Stopping", "Replied", "Ended"} /\ (Live(s.slots[i]) => Finishing(s))
<1>1. SlotOK(g, s, i)
  BY SlotKnown
<1> QED BY <1>1, LiveIsUnfinished DEF SlotOK, SlotFits, Over, Finishing

LEMMA FinalRunInput ==
  ASSUME Shape, Over(st), RunInput
  PROVE  Final(st, st')
<1> DEFINE g == Settings[given]
<1>1. Fine(g, st) /\ st \in StateSet(g) /\ st.commissioned /\ st.phase \in {"Finishing", "Finished"}
  BY DEF Shape, Fine, RunOK, PhaseFits, Over
<1>2. ASSUME NEW t, t \in {[st EXCEPT !.root = TRUE, !.condition = "none"]}
                        \cup {[st EXCEPT !.park = o] : o \in {"clean", "committed"}}
                        \cup {[st EXCEPT !.delivered = st.delivered \cup {d}] : d \in {"result", "notice"}}
                        \cup {[st EXCEPT !.phase = "Finished", !.timers = {}]}
      PROVE  Final(st, t)
  <2>1. (t.phase = st.phase \/ t.phase = "Finished") /\ t.outcome = st.outcome /\ t.slots = st.slots
    BY <1>1, <1>2, ZenonT(60) DEF StateSet
  <2> QED BY <2>1, FinalSame
<1>3. CASE RootOpened
  BY <1>1, <1>2, <1>3 DEF RootOpened, Become
<1>4. ASSUME NEW o \in {"clean", "committed"}, TreeParked(o) PROVE Final(st, st')
  BY <1>2, <1>4 DEF TreeParked, Become
<1>5. ASSUME NEW d \in {"result", "notice"}, DeliveredResult(d) PROVE Final(st, st')
  BY <1>2, <1>5 DEF DeliveredResult, Become
<1>6. CASE ClaimReleased
  BY <1>2, <1>6 DEF ClaimReleased, Become
<1>7. /\ ~Commissioned /\ ~ClaimTaken /\ ~TreePreparedInput /\ (\A h \in Holder : ~ClaimBusy(h))
      /\ (\A p \in BOOLEAN : ~TreeRefused(p)) /\ (\A k \in OpenQuestions(st) : ~DeliveredQuestion(k))
  BY <1>1 DEF Commissioned, ClaimTaken, TreePreparedInput, ClaimBusy, TreeRefused, DeliveredQuestion, OwedQuestions
<1> QED BY <1>3, <1>4, <1>5, <1>6, <1>7 DEF RunInput

LEMMA FinalReplyStop ==
  ASSUME NEW g, NEW s, Fine(g, s), NEW i \in Slots(s), NEW a, Touch(g, s, a, i), a.slots = s.slots
  PROVE  LET t == StartReplyStop(a, i) IN Touch(g, s, t, i) /\ t.slots[i].at = s.slots[i].at
<1> DEFINE t == StartReplyStop(a, i)
           r == [a.slots[i] EXCEPT !.ladder = NewLadder(a.withdrawn)]
<1>1. s.slots[i] \in SlotSet(g) /\ a.withdrawn \in BOOLEAN
  BY SlotKnown DEF Touch, RunSame
<1>2. r \in SlotSet(g) /\ r.at = s.slots[i].at
  BY <1>1, NewLadderFacts DEF SlotSet
<1>3. t = a \/ t = With(a, i, r)
  BY DEF StartReplyStop
<1> HIDE DEF r, t
<1>4. Touch(g, s, With(a, i, r), i) /\ With(a, i, r).slots[i] = r
  BY <1>2, TouchWith
<1>5. Touch(g, s, t, i) /\ t.slots[i].at = s.slots[i].at
  BY <1>2, <1>3, <1>4
<1> QED BY <1>5 DEF t

LEMMA FinalGraceOver ==
  ASSUME NEW g, NEW s, Fine(g, s), NEW i \in Slots(s), NEW a, Touch(g, s, a, i), a.slots = s.slots, NEW n \in {1, 2}
  PROVE  LET t == GraceOver(a, i, n) IN Touch(g, s, t, i) /\ t.slots[i].at = s.slots[i].at
<1> DEFINE t == GraceOver(a, i, n)
           l == a.slots[i].ladder
           f == IF l.on /\ l.fired < n THEN n ELSE l.fired
           m == [l EXCEPT !.fired = f]
           r == [a.slots[i] EXCEPT !.ladder = m]
           c == [r EXCEPT !.condition = "WouldNotStop"]
           b == With(a, i, r)
<1>1. s.slots[i] \in SlotSet(g) /\ s.slots[i].ladder \in LadderType
  BY SlotKnown
<1>2. m \in LadderType
  <2>1. l \in LadderType /\ f \in 0 .. 2
    BY <1>1 DEF LadderType
  <2> HIDE DEF l, f
  <2> QED BY <2>1 DEF LadderType
<1>3. t = b \/ t = SetCondition(b, i, "WouldNotStop")
  BY DEF GraceOver, With
<1> HIDE DEF m, t
<1>4. r \in SlotSet(g) /\ r.at = s.slots[i].at
  BY <1>1, <1>2 DEF SlotSet
<1> HIDE DEF r
<1>5. c \in SlotSet(g) /\ c.at = s.slots[i].at
  BY <1>4 DEF SlotSet
<1>6. Touch(g, s, b, i) /\ b.slots[i] = r
  BY <1>4, TouchWith
<1>7. SetCondition(b, i, "WouldNotStop") = With(b, i, c)
  BY <1>6, SetConditionIsWith
<1> HIDE DEF b, c
<1>8. Touch(g, s, With(b, i, c), i) /\ With(b, i, c).slots[i] = c
  BY <1>5, <1>6, TouchWith
<1>9. Touch(g, s, t, i) /\ t.slots[i].at = s.slots[i].at
  BY <1>3, <1>4, <1>5, <1>6, <1>7, <1>8
<1> QED BY <1>9 DEF t

LEMMA FinalSignal ==
  ASSUME NEW g, NEW s, Fine(g, s), NEW i \in Slots(s), StopOwed(s, i),
         NEW l, l = [s.slots[i].ladder EXCEPT !.sent = s.slots[i].ladder.sent + 1,
                                              !.total = s.slots[i].ladder.total + 1],
         NEW w, w = With(s, i, [s.slots[i] EXCEPT !.ladder = l, !.logged = l.total])
  PROVE  Final(s, IF l.sent = 1 THEN SetTimer(w, "stop_grace_1", i)
                  ELSE IF l.sent = 2 THEN SetTimer(w, "stop_grace_2", i) ELSE w)
<1> DEFINE o == s.slots[i].ladder
           r == [s.slots[i] EXCEPT !.ladder = l, !.logged = l.total]
<1>1. /\ s \in StateSet(g) /\ s.slots[i] \in SlotSet(g) /\ s.slots[i].ladder \in LadderType /\ i \in Nat
      /\ Touch(g, s, s, i)
  BY SlotKnown, TouchSelf
<1>2. l \in LadderType /\ l.total \in Nat
  <2>1. o \in LadderType /\ o.sent \in 0 .. 2 /\ o.total \in Nat
    BY <1>1 DEF StopOwed, StopSignal, LadderType
  <2>2. o.sent + 1 \in 0 .. 3 /\ o.total + 1 \in Nat
    BY <2>1
  <2>3. l = [o EXCEPT !.sent = o.sent + 1, !.total = o.total + 1]
    OBVIOUS
  <2> HIDE DEF o
  <2> QED BY <2>1, <2>2, <2>3 DEF LadderType
<1>3. w = With(s, i, r)
  OBVIOUS
<1>4. r \in SlotSet(g) /\ r.at = s.slots[i].at
  BY <1>1, <1>2 DEF SlotSet
<1> HIDE DEF r
<1>5. Touch(g, s, w, i) /\ w.slots[i] = r
  BY <1>1, <1>3, <1>4, TouchWith
<1>6. "stop_grace_1" \in SlotPurposes /\ "stop_grace_2" \in SlotPurposes
  BY Purposes, SMTT(30)
<1>7. ASSUME NEW q \in SlotPurposes PROVE Final(s, SetTimer(w, q, i))
  <2>1. Touch(g, s, SetTimer(w, q, i), i) /\ SetTimer(w, q, i).slots = w.slots
    BY <1>1, <1>5, TouchSet
  <2> QED BY <1>4, <1>5, <2>1, FinalTouch
<1>8. Final(s, w)
  BY <1>4, <1>5, FinalTouch
<1> QED BY <1>6, <1>7, <1>8

LEMMA FinalSlotInput ==
  ASSUME Shape, Over(st), NEW i \in Slots(st), SlotInput(i)
  PROVE  Final(st, st')
<1> DEFINE g == Settings[given]
           r == st.slots[i]
<1>1. /\ Fine(g, st) /\ st \in StateSet(g) /\ r \in SlotSet(g) /\ Touch(g, st, st, i) /\ g.causes \subseteq Causes
      /\ st.withdrawn \in BOOLEAN /\ i \in Nat
  BY SlotKnown, TouchSelf, Given DEF Shape
<1>2. r.at \in {"Stopping", "Replied", "Ended"} /\ (Live(r) => Finishing(st))
  BY <1>1, OverSlots, SMTT(30)
<1>3. CASE StopSignalled(i)
  <2> DEFINE l == [st.slots[i].ladder EXCEPT !.sent = st.slots[i].ladder.sent + 1,
                                             !.total = st.slots[i].ladder.total + 1]
             w == With(st, i, [st.slots[i] EXCEPT !.ladder = l, !.logged = l.total])
  <2>1. Final(st, IF l.sent = 1 THEN SetTimer(w, "stop_grace_1", i)
                  ELSE IF l.sent = 2 THEN SetTimer(w, "stop_grace_2", i) ELSE w)
    BY <1>1, <1>3, FinalSignal DEF StopSignalled
  <2> QED BY <1>3, <2>1, SMTT(30) DEF StopSignalled, Become
<1>4. CASE LateStarted(i)
  <2> DEFINE n == [st.slots[i] EXCEPT !.at = "Stopping", !.cause = "none", !.ladder = NewLadder(st.withdrawn)]
  <2>1. st' = With(st, i, n)
    BY <1>4 DEF LateStarted, Become
  <2>2. n \in SlotSet(g) /\ n.at = "Stopping"
    BY <1>1, NewLadderFacts DEF SlotSet, States
  <2> HIDE DEF n
  <2>3. Touch(g, st, With(st, i, n), i) /\ With(st, i, n).slots[i] = n
    BY <1>1, <2>2, TouchWith
  <2>4. Final(st, With(st, i, n))
    BY <2>2, <2>3, FinalTouch
  <2> QED BY <2>1, <2>4
<1>5. CASE GroupLingering(i)
  <2> DEFINE a == StartReplyStop(st, i)
             t == ClearTimers(a, {"wind_down"}, i)
  <2>1. st' = t
    BY <1>2, <1>5 DEF GroupLingering, Become, Live, Talking
  <2>2. Touch(g, st, a, i) /\ a.slots[i].at = r.at
    BY <1>1, FinalReplyStop
  <2> HIDE DEF a
  <2>3. Touch(g, st, t, i) /\ t.slots = a.slots
    BY <2>2, TouchClear
  <2> HIDE DEF t
  <2>4. Final(st, t)
    BY <2>2, <2>3, FinalTouch
  <2> QED BY <2>1, <2>4
<1>6. ASSUME NEW c \in Cause, EndedFact(i, c)
      PROVE  Final(st, st')
  <2> DEFINE t == FoldEnded(st, i, c)
  <2>1. c \in Causes /\ Finishing(st)
    BY <1>1, <1>2, <1>6 DEF Cause, EndedFact
  <2>2. Touch(g, st, t, i) /\ t.slots[i] = EndedSlot(r, c)
    BY <1>1, <2>1, FoldEndedFacts
  <2>3. t.slots[i].at \in {r.at, "Stopping", "Ended"}
    BY <1>1, <2>1, <2>2, EndedSlotFacts
  <2> HIDE DEF t
  <2>4. Final(st, t) /\ Finishing(t)
    BY <2>1, <2>2, <2>3, FinalTouch DEF Touch, RunSame, Finishing
  <2>5. st' = t
    BY <1>6, <2>4, SMTT(30) DEF EndedFact, Become, Ended, t
  <2> QED BY <2>4, <2>5
<1>7. /\ ~Nudged(i) /\ ~Started(i) /\ (\A b \in Beat : ~Heartbeat(i, b))
      /\ (\A e, w \in BOOLEAN : ~Reply(i, e, w))
  BY <1>2 DEF Nudged, Started, Heartbeat, Reply, Talking
<1> QED BY <1>3, <1>4, <1>5, <1>6, <1>7 DEF SlotInput

LEMMA FinalPersonInput ==
  ASSUME Shape, Over(st), PersonInput
  PROVE  Final(st, st')
<1> DEFINE g == Settings[given]
           t == Forcing(st)
<1>1. Fine(g, st) /\ st \in StateSet(g) /\ st.phase \in {"Finishing", "Finished"}
  BY DEF Shape, Fine, Over
<1>2. /\ (\A k \in OpenQuestions(st), d \in {"Continue", "Accept"} : ~Answer(k, d))
      /\ (\A i \in Slots(st) : ~Resume(i)) /\ ~ResumeRun
  BY <1>1 DEF Answer, Resume, ResumeRun
<1>3. Withdrawn
  BY <1>2 DEF PersonInput
<1>4. st' = t
  BY <1>1, <1>3 DEF Withdrawn, Finishing, Become, Forcing, ForcedSlot
<1>5. /\ t \in StateSet(g) /\ Len(t.slots) = Len(st.slots) /\ t.withdrawn = TRUE /\ t.timers = st.timers
      /\ RunSame([st EXCEPT !.withdrawn = TRUE], t)
      /\ \A i \in Slots(st) : t.slots[i] = ForcedSlot(st.slots[i])
  <2>1. st \in StateSet(g) /\ t = Forcing(st)
    BY <1>1
  <2> HIDE DEF g, t
  <2> QED BY <2>1, ForceFacts
<1> HIDE DEF t
<1>6. t.phase = st.phase /\ t.outcome = st.outcome
  BY <1>1, <1>5 DEF RunSame, StateSet
<1>7. \A i \in Slots(st) : t.slots[i].at = st.slots[i].at
  <2>1. SUFFICES ASSUME NEW i \in Slots(st) PROVE t.slots[i].at = st.slots[i].at
    OBVIOUS
  <2>2. st.slots[i] \in SlotSet(g)
    BY <1>1, SlotKnown
  <2> QED BY <1>5, <2>2 DEF ForcedSlot, SlotSet
<1> QED BY <1>4, <1>5, <1>6, <1>7 DEF Final

LEMMA FinalTimer ==
  ASSUME Shape, Over(st), NEW t \in st.timers, TimerFired(t)
  PROVE  Final(st, st')
<1> DEFINE g == Settings[given]
           q == t[1]
           i == t[2]
           a == Spent(st, q, i)
<1>1. Fine(g, st) /\ st \in StateSet(g)
  BY DEF Shape, Fine
<1>2. t = <<q, i>>
  BY <1>1 DEF StateSet
<1>3. Armed(st, q, i)
  BY <1>2 DEF Armed
<1>4. q \in StopPurposes /\ i \in Slots(st)
  <2>1. q \in StopPurposes
    BY <1>1, <1>3 DEF Fine, RunOK, OnlyStops
  <2>2. q \notin RunPurposes
    BY <2>1 DEF StopPurposes, RunPurposes
  <2> QED BY <1>1, <1>3, <2>1, <2>2 DEF Fine, RunOK, TimersTyped
<1>5. st' = Fired(a, q, i)
  BY <1>2 DEF TimerFired, Become, Spent
<1>6. Touch(g, st, a, i) /\ a.slots = st.slots
  BY <1>1, TouchSpent
<1> HIDE DEF a, q, i
<1>7. CASE q = "stop_grace_1"
  <2>1. Touch(g, st, GraceOver(a, i, 1), i) /\ GraceOver(a, i, 1).slots[i].at = st.slots[i].at
    BY <1>1, <1>4, <1>6, FinalGraceOver
  <2>2. Final(st, GraceOver(a, i, 1))
    BY <1>4, <2>1, FinalTouch
  <2> QED BY <1>5, <1>7, <2>2 DEF Fired
<1>8. CASE q = "stop_grace_2"
  <2>1. Touch(g, st, GraceOver(a, i, 2), i) /\ GraceOver(a, i, 2).slots[i].at = st.slots[i].at
    BY <1>1, <1>4, <1>6, FinalGraceOver
  <2>2. Final(st, GraceOver(a, i, 2))
    BY <1>4, <2>1, FinalTouch
  <2> QED BY <1>5, <1>8, <2>2 DEF Fired
<1>9. CASE q = "wind_down"
  <2>1. Touch(g, st, StartReplyStop(a, i), i) /\ StartReplyStop(a, i).slots[i].at = st.slots[i].at
    BY <1>1, <1>4, <1>6, FinalReplyStop
  <2>2. Final(st, StartReplyStop(a, i))
    BY <1>4, <2>1, FinalTouch
  <2> QED BY <1>5, <1>9, <2>2 DEF Fired
<1> QED BY <1>4, <1>7, <1>8, <1>9 DEF StopPurposes

\* Once a run finishes, its outcome is kept, no attempt is added, none starts again and it
\* never goes back (finish_run, apply_finishing), whatever late facts, timers and people bring.
THEOREM FinishingIsFinal == Spec => NothingStartsAfterFinishing
<1>1. ASSUME Shape, [Next]_vars
      PROVE  Over(st) /\ st' # st => Final(st, st')
  <2>1. SUFFICES ASSUME Over(st), st' # st PROVE Final(st, st')
    OBVIOUS
  <2>2. Next
    BY <1>1, <2>1 DEF vars
  <2>3. ASSUME PoisonParked PROVE Final(st, st')
    <3>1. st \in StateSet(Settings[given])
      BY <1>1 DEF Shape, Fine
    <3> DEFINE t == [st EXCEPT !.condition = "poison"]
    <3>2. t.phase = st.phase /\ t.outcome = st.outcome /\ t.slots = st.slots
      BY <3>1 DEF StateSet
    <3>3. Final(st, t)
      BY <3>2, FinalSame
    <3> QED BY <2>3, <3>3 DEF PoisonParked, Become
  <2> QED BY <1>1, <2>1, <2>2, <2>3, FinalRunInput, FinalSlotInput, FinalPersonInput, FinalTimer DEF Next
<1>2. Shape /\ [Next]_vars =>
        [st.phase \in {"Finishing", "Finished"} =>
           /\ st'.phase = st.phase \/ st'.phase = "Finished"
           /\ st'.outcome = st.outcome /\ Len(st'.slots) = Len(st.slots)
           /\ \A i \in Slots(st) : st'.slots[i].at \in {st.slots[i].at, "Stopping", "Ended"}]_st
  BY <1>1 DEF Over, Final
<1> QED BY <1>2, ShapeHolds, PTL DEF Spec, NothingStartsAfterFinishing
=============================================================================
