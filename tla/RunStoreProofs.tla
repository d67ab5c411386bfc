--------------------------- MODULE RunStoreProofs ---------------------------
(***************************************************************************)
(* Proofs about RunStore, for any number of hosts, inputs and timers, any  *)
(* lease expiry and any clock.  Nothing here reads the clock: what keeps   *)
(* two owners apart is the compare-and-set on the lease and the epoch that *)
(* fences append, never the time at which a lease is thought to expire.    *)
(***************************************************************************)
EXTENDS RunStore, TLAPS

-----------------------------------------------------------------------------
(* Types.                                                                  *)

\* What a host remembers between two calls has the fields its pc promises.
LEMMA StepPc ==
  ASSUME NEW s \in StepType
  PROVE  /\ s.pc = "lease" => s \in [pc : {"lease"}, from : Lease, to : Lease]
         /\ s.pc = "input" => s \in [pc : {"input"}, in : Input]
         /\ s.pc \in {"count", "consume"} => s \in [pc : {"count", "consume"}, in : Input, count : Nat]
BY DEF StepType, Idle

\* Deleting a row (append.rs delete_inbox_rows) leaves a sequence of the same kind.
LEMMA WithoutType ==
  ASSUME NEW S, NEW s \in Seq(S), NEW i
  PROVE  Without(s, i) \in Seq(S)
<1>1. CASE ~\E n \in 1 .. Len(s) : s[n] = i
  BY <1>1 DEF Without
<1>2. CASE \E n \in 1 .. Len(s) : s[n] = i
  <2> DEFINE n == CHOOSE n \in 1 .. Len(s) : s[n] = i
             w == [m \in 1 .. Len(s) - 1 |-> IF m < n THEN s[m] ELSE s[m + 1]]
  <2>1. n \in 1 .. Len(s)
    BY <1>2
  <2>2. Without(s, i) = w
    BY <1>2 DEF Without
  <2>3. Len(s) - 1 \in Nat
    BY <2>1
  <2> HIDE DEF n
  <2>4. \A m \in 1 .. Len(s) - 1 : w[m] \in S
    BY <2>1, <2>3
  <2>5. w \in [1 .. Len(s) - 1 -> S]
    BY <2>4
  <2> QED
    BY <2>2, <2>3, <2>5
<1> QED
  BY <1>1, <1>2

\* What one append carries: the input and its decisions, all of one host and one
\* epoch, the parts in order, every decision of the host's version.
Batch(evs, h, e, i) ==
  /\ evs \in Seq(Event)
  /\ Len(evs) > 0
  /\ \A n \in 1 .. Len(evs) :
       evs[n].epoch = e /\ evs[n].by = h /\ evs[n].in = i
  /\ \A n \in 2 .. Len(evs) : evs[n].v = Version[h]
  /\ \A m, n \in 1 .. Len(evs) : evs[m].part = evs[n].part => m = n
  /\ evs[1].part = "input" \/ (evs[1].part = "poison" /\ Len(evs) = 1)
  /\ \A n \in 2 .. Len(evs) : evs[n].part \in {"decision1", "decision2"}

\* Event::new makes an event.
LEMMA NewEventType ==
  ASSUME NEW h \in Host, NEW e \in Nat, NEW i \in Input, NEW part \in Part, NEW kind \in Kind,
         NEW t \in Timer \cup {NoTimer}, NEW at \in Nat
  PROVE  NewEvent(h, e, i, part, kind, t, at) \in Event
BY ConstantsAssumption DEF NewEvent, Event

\* What fold.rs commit_input appends is a batch of its host and epoch.
LEMMA CommitBatch ==
  ASSUME NEW h \in Host, NEW e \in Nat, NEW i \in Input, NEW final, NEW ds \in Decided(h, e, i, final),
         now \in Nat, stamp \in [Input -> Nat]
  PROVE  Batch(<<InputEvent(h, e, i)>> \o ds, h, e, i)
<1> DEFINE first == InputEvent(h, e, i)
           d1(kind, t, at) == NewEvent(h, e, i, "decision1", kind, t, at)
           d2(kind, t, at) == NewEvent(h, e, i, "decision2", kind, t, at)
           Mine(ev) == /\ ev \in Event /\ ev.epoch = e /\ ev.by = h /\ ev.in = i
<1>1. Mine(first) /\ first.part = "input"
  BY ConstantsAssumption DEF InputEvent, Event, Firing, Part, Kind
<1>2. \A kind \in Kind, t \in Timer \cup {NoTimer}, at \in Nat :
        /\ Mine(d1(kind, t, at)) /\ d1(kind, t, at).part = "decision1" /\ d1(kind, t, at).v = Version[h]
        /\ Mine(d2(kind, t, at)) /\ d2(kind, t, at).part = "decision2" /\ d2(kind, t, at).v = Version[h]
  BY ConstantsAssumption DEF NewEvent, Event, Part
<1>3. \/ ds = <<>>
      \/ \E kind \in Kind, t \in Timer \cup {NoTimer}, at \in Nat : ds = <<d1(kind, t, at)>>
      \/ \E t \in Timer : ds = <<d1("cleared", t, 0), d2("finished", NoTimer, 0)>>
  <2>1. \/ ds = <<>>
        \/ \E kind \in {"ignored", "finished"} : ds = <<d1(kind, NoTimer, 0)>>
        \/ \E t \in Timer : ds = <<d1("set", t, now + 1)>>
        \/ \E t \in Timer : ds = <<d1("cleared", t, 0)>>
        \/ \E t \in Timer : ds = <<d1("cleared", t, 0), d2("finished", NoTimer, 0)>>
    BY DEF Decided, Decision
  <2> HIDE DEF d1, d2
  <2>2. /\ {"ignored", "finished", "set", "cleared"} \subseteq Kind /\ 0 \in Nat /\ now + 1 \in Nat
        /\ NoTimer \in Timer \cup {NoTimer} /\ Timer \subseteq Timer \cup {NoTimer}
    BY DEF Kind
  <2> QED
    BY <2>1, <2>2
<1> HIDE DEF first, d1, d2
<1> DEFINE evs == <<first>> \o ds
<1>4. ds \in Seq(Event) /\ Len(ds) <= 2 =>
        /\ evs \in Seq(Event) /\ Len(evs) = Len(ds) + 1 /\ evs[1] = first /\ Len(evs) > 0 /\ Len(evs) <= 3
        /\ \A n \in 2 .. Len(evs) : evs[n] = ds[n - 1]
  BY <1>1
<1>5. ds = <<>> => ds \in Seq(Event) /\ Len(ds) = 0
  OBVIOUS
<1> HIDE DEF Mine
<1>6. ASSUME NEW kind \in Kind, NEW t \in Timer \cup {NoTimer}, NEW at \in Nat, ds = <<d1(kind, t, at)>>
      PROVE  /\ Mine(ds[1]) /\ ds[1].part = "decision1" /\ ds[1].v = Version[h]
             /\ Len(ds) = 1 /\ ds \in Seq(Event)
  BY <1>2, <1>6 DEF Mine
<1>7. ASSUME NEW t \in Timer, ds = <<d1("cleared", t, 0), d2("finished", NoTimer, 0)>>
      PROVE  /\ Mine(ds[1]) /\ ds[1].part = "decision1" /\ Mine(ds[2]) /\ ds[2].part = "decision2"
             /\ ds[1].v = Version[h] /\ ds[2].v = Version[h] /\ Len(ds) = 2 /\ ds \in Seq(Event)
  <2>1. "cleared" \in Kind /\ "finished" \in Kind /\ 0 \in Nat
    BY DEF Kind
  <2>2. Mine(d1("cleared", t, 0)) /\ d1("cleared", t, 0).part = "decision1" /\ d1("cleared", t, 0).v = Version[h]
    BY <1>2, <2>1
  <2>3. /\ Mine(d2("finished", NoTimer, 0)) /\ d2("finished", NoTimer, 0).part = "decision2"
        /\ d2("finished", NoTimer, 0).v = Version[h]
    BY <1>2, <2>1
  <2>4. d1("cleared", t, 0) \in Event /\ d2("finished", NoTimer, 0) \in Event
    BY <2>2, <2>3 DEF Mine
  <2> QED
    BY <1>7, <2>2, <2>3, <2>4
<1> DEFINE Good == /\ ds \in Seq(Event) /\ Len(ds) <= 2
                   /\ \A n \in 1 .. Len(ds) :
                        Mine(ds[n]) /\ ds[n].v = Version[h] /\ ds[n].part = (IF n = 1 THEN "decision1" ELSE "decision2")
<1>8. Good
  <2>1. ds = <<>> => Good
    BY <1>5
  <2>2. ASSUME NEW kind \in Kind, NEW t \in Timer \cup {NoTimer}, NEW at \in Nat, ds = <<d1(kind, t, at)>>
        PROVE  Good
    BY <1>6, <2>2
  <2>3. ASSUME NEW t \in Timer, ds = <<d1("cleared", t, 0), d2("finished", NoTimer, 0)>>
        PROVE  Good
    BY <1>7, <2>3
  <2> QED
    BY <1>3, <2>1, <2>2, <2>3
<1> HIDE DEF evs
<1>9. /\ evs \in Seq(Event) /\ Len(evs) > 0 /\ Len(evs) <= 3
      /\ \A n \in 1 .. Len(evs) :
           /\ Mine(evs[n])
           /\ n # 1 => evs[n].v = Version[h]
           /\ evs[n].part = (IF n = 1 THEN "input" ELSE IF n = 2 THEN "decision1" ELSE "decision2")
  <2>1. Len(evs) = Len(ds) + 1 /\ Len(ds) <= 2 /\ evs \in Seq(Event)
    BY <1>4, <1>8
  <2>2. ASSUME NEW n \in 1 .. Len(evs)
        PROVE  /\ Mine(evs[n])
               /\ n # 1 => evs[n].v = Version[h]
               /\ evs[n].part = (IF n = 1 THEN "input" ELSE IF n = 2 THEN "decision1" ELSE "decision2")
    <3>1. CASE n = 1
      BY <1>1, <1>4, <1>8, <3>1
    <3>2. CASE n # 1
      <4>1. n - 1 \in 1 .. Len(ds) /\ n \in 2 .. Len(evs)
        BY <2>1, <3>2
      <4> QED
        BY <1>4, <1>8, <3>2, <4>1
    <3> QED
      BY <3>1, <3>2
  <2>3. Len(evs) > 0 /\ Len(evs) <= 3
    BY <1>4, <1>8
  <2> QED
    BY <2>1, <2>2, <2>3
<1>10. Batch(evs, h, e, i)
  <2>1. \A n \in 1 .. Len(evs) :
          evs[n].epoch = e /\ evs[n].by = h /\ evs[n].in = i
    BY <1>9 DEF Mine
  <2>4. \A n \in 2 .. Len(evs) : evs[n].v = Version[h]
    BY <1>9
  <2>2. \A m, n \in 1 .. Len(evs) : evs[m].part = evs[n].part => m = n
    BY <1>9
  <2>3. evs[1].part = "input" /\ \A n \in 2 .. Len(evs) : evs[n].part \in {"decision1", "decision2"}
    BY <1>9
  <2> QED
    BY <1>9, <2>1, <2>2, <2>3, <2>4 DEF Batch
<1> QED
  BY <1>10 DEF evs, first

\* So is the single parked event of fold.rs consume_poison.
LEMMA PoisonBatch ==
  ASSUME NEW h \in Host, NEW e \in Nat, NEW i \in Input
  PROVE  Batch(<<NewEvent(h, e, i, "poison", "parked", NoTimer, 0)>>, h, e, i)
<1> DEFINE ev == NewEvent(h, e, i, "poison", "parked", NoTimer, 0)
<1>1. ev \in Event /\ ev.epoch = e /\ ev.by = h /\ ev.in = i /\ ev.part = "poison"
  BY ConstantsAssumption DEF NewEvent, Event, Part, Kind
<1> HIDE DEF ev
<1> QED
  BY <1>1 DEF Batch, ev

\* The kinds of event a final state still lets into the log.
Quiet == {"input", "fired", "ignored", "parked"}

\* What a batch says of the run: nothing new once the state it is decided on is final, and
\* `finished` only as its last word.
Says(evs, final) ==
  /\ Len(evs) <= 3
  /\ final => \A n \in 1 .. Len(evs) : evs[n].kind \in Quiet
  /\ \A m, n \in 1 .. Len(evs) : m < n => evs[m].kind # "finished"

\* What the reducer may answer (fold.rs commit_input) is such a batch.
LEMMA CommitSays ==
  ASSUME NEW h \in Host, NEW e \in Nat, NEW i \in Input, NEW final \in BOOLEAN,
         NEW ds \in Decided(h, e, i, final)
  PROVE  /\ Says(<<InputEvent(h, e, i)>> \o ds, final)
         /\ (<<InputEvent(h, e, i)>> \o ds)[1].part = "input"
<1> DEFINE first == InputEvent(h, e, i)
           d1(kind, t, at) == NewEvent(h, e, i, "decision1", kind, t, at)
           d2(kind, t, at) == NewEvent(h, e, i, "decision2", kind, t, at)
<1>1. first.kind \in {"input", "fired"} /\ first.part = "input"
  BY DEF InputEvent
<1>2. \A kind, t, at : d1(kind, t, at).kind = kind /\ d2(kind, t, at).kind = kind
  BY DEF NewEvent
<1>3. \/ ds = <<>>
      \/ \E kind, t, at : ds = <<d1(kind, t, at)>> /\ (final => kind = "ignored")
      \/ ~final /\ \E t \in Timer : ds = <<d1("cleared", t, 0), d2("finished", NoTimer, 0)>>
  BY DEF Decided, Decision
<1> HIDE DEF first, d1, d2
<1>4. CASE ds = <<>>
  BY <1>1, <1>4 DEF Says, Quiet, first
<1> DEFINE evs == <<first>> \o ds
<1>a. ASSUME NEW S, first \in S, ds \in Seq(S)
      PROVE  /\ Len(evs) = Len(ds) + 1 /\ Len(ds) \in Nat /\ evs[1] = first
             /\ \A n \in 2 .. Len(evs) : n - 1 \in 1 .. Len(ds) /\ evs[n] = ds[n - 1]
  BY <1>a
<1> HIDE DEF evs
<1>5. ASSUME NEW kind, NEW t, NEW at, ds = <<d1(kind, t, at)>>, final => kind = "ignored"
      PROVE  Says(evs, final) /\ evs[1].part = "input"
  <2>1. ds \in Seq({first, d1(kind, t, at)}) /\ first \in {first, d1(kind, t, at)}
    BY <1>5
  <2>2. Len(ds) = 1 /\ ds[1].kind = kind
    BY <1>2, <1>5
  <2>3. /\ Len(evs) = 2 /\ evs[1] = first
        /\ \A n \in 1 .. Len(evs) : evs[n] = first \/ evs[n].kind = kind
    BY <1>a, <2>1, <2>2
  <2>4. \A m, n \in 1 .. Len(evs) : m < n => m = 1
    BY <2>3
  <2> QED
    BY <1>1, <1>5, <2>3, <2>4 DEF Says, Quiet
<1>6. ASSUME NEW t \in Timer, ds = <<d1("cleared", t, 0), d2("finished", NoTimer, 0)>>, ~final
      PROVE  Says(evs, final) /\ evs[1].part = "input"
  <2> DEFINE S == {first, d1("cleared", t, 0), d2("finished", NoTimer, 0)}
  <2>1. ds \in Seq(S) /\ first \in S
    BY <1>6
  <2>2. Len(ds) = 2 /\ ds[1].kind = "cleared"
    BY <1>2, <1>6
  <2> HIDE DEF S
  <2>3. Len(evs) = 3 /\ evs[1] = first /\ evs[2].kind = "cleared"
    BY <1>a, <2>1, <2>2
  <2>4. \A m, n \in 1 .. Len(evs) : m < n => m = 1 \/ m = 2
    BY <2>3
  <2> QED
    BY <1>1, <1>6, <2>3, <2>4 DEF Says
<1>7. Says(evs, final) /\ evs[1].part = "input" => Says(<<first>> \o ds, final) /\ (<<first>> \o ds)[1].part = "input"
  BY DEF evs
<1> QED
  BY <1>3, <1>4, <1>5, <1>6, <1>7 DEF first

\* So is the single parked event of consume_poison.
LEMMA PoisonSays ==
  ASSUME NEW h \in Host, NEW e \in Nat, NEW i \in Input, NEW final
  PROVE  LET evs == <<NewEvent(h, e, i, "poison", "parked", NoTimer, 0)>>
         IN  Says(evs, final) /\ evs[1].part = "poison"
BY DEF Says, Quiet, NewEvent

\* The two actions that write the log, seen as one: h either is refused or appends
\* a batch of its own that the checks of append let through.
Appends(h, evs, i) ==
  /\ Batch(evs, h, held[h], i) /\ i \in Input /\ i = step[h].in
  /\ Says(evs, Final(h))
  /\ \/ step[h].pc = "input" /\ evs[1].part = "input" /\ i \notin Bad
     \/ step[h].pc = "consume" /\ evs[1].part = "poison"
  /\ AppendResult(cache[h], held[h], evs) = "appended"
  /\ ApplyAppend(evs, i)
  /\ poison' \in [Input -> Nat]
  /\ held' = held
  /\ step' = [step EXCEPT ![h] = Idle]
  /\ cache' \in [Host -> Int]

IsRefused(h, i) ==
  /\ i \in Input /\ i = step[h].in
  /\ held' = held \/ held' = [held EXCEPT ![h] = 0]
  /\ step' = [step EXCEPT ![h] = Idle]
  /\ cache' \in [Host -> Int]
  /\ inbox' = inbox \/ (inbox' = Without(inbox, i) /\ \E part \in Part : Logged(i, part))
  /\ UNCHANGED <<row, max_v, log, timers, poison>>

\* append_refused writes nothing but, for a duplicate, the deletion of the row.
LEMMA RefusedShape ==
  ASSUME TypeOK, NEW h \in Host, NEW error, NEW i \in Input, i = step[h].in, Refused(h, error, i),
         error = "duplicate_key" => \E part \in Part : Logged(i, part)
  PROVE  IsRefused(h, i)
<1>1. cache' \in [Host -> Int]
  BY DEF TypeOK, Refused, Forget, NoCache, ReadOnly
<1> QED
  BY <1>1 DEF Refused, IsRefused, Forget

\* append answers DuplicateKey to a batch only when the log has a key of the batch's input.
LEMMA DuplicateIsLogged ==
  ASSUME NEW h, NEW e, NEW i, NEW evs, NEW expected, Batch(evs, h, e, i),
         AppendResult(expected, e, evs) = "duplicate_key"
  PROVE  \E part \in Part : Logged(i, part)
<1>1. PICK n \in 1 .. Len(evs) : Logged(evs[n].in, evs[n].part)
  BY DEF AppendResult
<1>2. evs[n] \in Event
  BY DEF Batch
<1>3. evs[n].part \in Part
  BY <1>2 DEF Event
<1> QED
  BY <1>1, <1>3 DEF Batch

\* commit_input and consume_poison are refused or append one batch, nothing else.
LEMMA FoldStep ==
  ASSUME TypeOK, NEW h \in Host, CommitInput(h) \/ ConsumePoison(h)
  PROVE  /\ UNCHANGED <<now, lease, stamp, accepted>>
         /\ \/ \E i \in Input : IsRefused(h, i)
            \/ \E i \in Input : \E evs \in Seq(Event) : Appends(h, evs, i)
<1>1. CASE CommitInput(h)
  <2> DEFINE i == step[h].in
  <2>1. /\ i \in Input /\ held[h] \in Nat /\ now \in Nat /\ step[h] \in StepType
        /\ stamp \in [Input -> Nat]
    BY <1>1, StepPc DEF TypeOK, CommitInput
  <2>2. PICK ds \in Decided(h, held[h], i, Final(h)) :
          LET evs == <<InputEvent(h, held[h], i)>> \o ds
              result == AppendResult(cache[h], held[h], evs)
          IN  \/ Refused(h, result, i)
              \/ /\ result = "appended"
                 /\ ApplyAppend(evs, i)
                 /\ poison' = [poison EXCEPT ![i] = 0]
                 /\ cache' = [cache EXCEPT ![h] = @ + Len(evs)]
                 /\ step' = [step EXCEPT ![h] = Idle]
                 /\ UNCHANGED held
    BY <1>1 DEF CommitInput
  <2> DEFINE evs == <<InputEvent(h, held[h], i)>> \o ds
  <2>3. Batch(evs, h, held[h], i)
    BY <2>1, CommitBatch
  <2>c. /\ Says(evs, Final(h)) /\ evs[1].part = "input"
        /\ step[h].pc = "input" /\ i \notin Bad
    <3>1. Final(h) \in BOOLEAN
      BY DEF Final
    <3> QED
      BY <1>1, <2>1, <3>1, CommitSays DEF CommitInput
  <2> DEFINE result == AppendResult(cache[h], held[h], evs)
  <2>a. ~Refused(h, result, i) =>
          /\ result = "appended"
          /\ ApplyAppend(evs, i)
          /\ poison' = [poison EXCEPT ![i] = 0]
          /\ cache' = [cache EXCEPT ![h] = cache[h] + Len(evs)]
          /\ step' = [step EXCEPT ![h] = Idle]
          /\ held' = held
    BY <2>2
  <2>b. i = step[h].in
    OBVIOUS
  <2> HIDE DEF i, evs
  <2>4. Len(evs) \in Nat /\ evs \in Seq(Event)
    BY <2>3 DEF Batch
  <2>5. CASE Refused(h, AppendResult(cache[h], held[h], evs), i)
    <3>1. AppendResult(cache[h], held[h], evs) = "duplicate_key" => \E part \in Part : Logged(i, part)
      BY <2>3, DuplicateIsLogged
    <3>2. IsRefused(h, i)
      BY <2>1, <2>5, <2>b, <3>1, RefusedShape
    <3> QED
      BY <1>1, <2>1, <3>2 DEF CommitInput
  <2>6. CASE ~Refused(h, AppendResult(cache[h], held[h], evs), i)
    <3>1. cache' \in [Host -> Int]
      <4>2. cache[h] + Len(evs) \in Int
        BY <2>4 DEF TypeOK
      <4> QED
        BY <2>a, <2>6, <4>2 DEF TypeOK
    <3>2. poison' \in [Input -> Nat]
      <4>1. poison' = [poison EXCEPT ![i] = 0]
        BY <2>a, <2>6
      <4>2. poison \in [Input -> Nat]
        BY DEF TypeOK
      <4> QED
        BY <2>1, <4>1, <4>2
    <3> HIDE DEF result
    <3>3. Appends(h, evs, i)
      BY <2>1, <2>3, <2>a, <2>b, <2>c, <2>6, <3>1, <3>2 DEF Appends, result
    <3> QED
      BY <1>1, <2>1, <2>4, <3>3 DEF CommitInput
  <2> QED
    BY <2>5, <2>6
<1>2. CASE ConsumePoison(h)
  <2> DEFINE i == step[h].in
             evs == <<NewEvent(h, held[h], i, "poison", "parked", NoTimer, 0)>>
             checked == AppendResult(cache[h], held[h], evs)
             result == IF checked = "appended" /\ step[h].count # 0 /\ poison[i] # step[h].count
                       THEN "cas_failed" ELSE checked
  <2>1. i \in Input /\ held[h] \in Nat /\ step[h] \in StepType
    BY <1>2, StepPc DEF TypeOK, ConsumePoison
  <2>2. \/ Refused(h, result, i)
        \/ /\ result = "appended"
           /\ ApplyAppend(evs, i)
           /\ poison' = [poison EXCEPT ![i] = 0]
           /\ cache' = [cache EXCEPT ![h] = NoCache]
           /\ step' = [step EXCEPT ![h] = Idle]
           /\ UNCHANGED held
    BY <1>2 DEF ConsumePoison
  <2>3. Batch(evs, h, held[h], i)
    BY <2>1, PoisonBatch
  <2>b. Says(evs, Final(h)) /\ evs[1].part = "poison" /\ step[h].pc = "consume"
    BY <1>2, <2>1, PoisonSays DEF ConsumePoison
  <2>4. /\ result = "appended" => checked = "appended"
        /\ result = "duplicate_key" => checked = "duplicate_key"
    OBVIOUS
  <2>a. i = step[h].in
    OBVIOUS
  <2> HIDE DEF i, evs, result
  <2>5. evs \in Seq(Event)
    BY <2>3 DEF Batch
  <2>6. CASE Refused(h, result, i)
    <3>1. result = "duplicate_key" => \E part \in Part : Logged(i, part)
      BY <2>3, <2>4, DuplicateIsLogged DEF checked
    <3>2. IsRefused(h, i)
      BY <2>1, <2>6, <2>a, <3>1, RefusedShape
    <3> QED
      BY <1>2, <2>1, <3>2 DEF ConsumePoison
  <2>7. CASE ~Refused(h, result, i)
    <3>a. poison' = [poison EXCEPT ![i] = 0] /\ cache' = [cache EXCEPT ![h] = NoCache]
      BY <2>2, <2>7
    <3>1. cache' \in [Host -> Int] /\ poison' \in [Input -> Nat]
      <4>1. cache \in [Host -> Int] /\ poison \in [Input -> Nat] /\ NoCache \in Int
        BY DEF TypeOK, NoCache
      <4> QED
        BY <2>1, <3>a, <4>1
    <3>2. Appends(h, evs, i)
      <4>1. /\ checked = "appended" /\ ApplyAppend(evs, i) /\ held' = held
            /\ step' = [step EXCEPT ![h] = Idle]
        BY <2>2, <2>4, <2>7
      <4> HIDE DEF checked
      <4> QED
        BY <2>1, <2>3, <2>a, <2>b, <3>1, <4>1 DEF Appends, checked
    <3> QED
      BY <1>2, <2>1, <2>5, <3>2 DEF ConsumePoison
  <2> QED
    BY <2>6, <2>7
<1> QED
  BY <1>1, <1>2

\* One event keeps the type of the timer index (timers.rs apply).
LEMMA TimerAfterType ==
  ASSUME NEW tm \in [Timer -> Nat \cup {Off}], NEW ev \in Event
  PROVE  TimerAfter(tm, ev) \in [Timer -> Nat \cup {Off}]
BY DEF TimerAfter, Event, Off

\* So do all the events of one append.
LEMMA TimersAfterType ==
  ASSUME NEW tm \in [Timer -> Nat \cup {Off}], NEW evs \in Seq(Event), Len(evs) > 0
  PROVE  TimersAfter(tm, evs) \in [Timer -> Nat \cup {Off}]
<1> DEFINE one == TimerAfter(tm, evs[1])
           two == IF Len(evs) >= 2 THEN TimerAfter(one, evs[2]) ELSE one
<1>1. one \in [Timer -> Nat \cup {Off}]
  BY TimerAfterType
<1> HIDE DEF one
<1>2. two \in [Timer -> Nat \cup {Off}]
  BY <1>1, TimerAfterType
<1> HIDE DEF two
<1>3. (IF Len(evs) >= 3 THEN TimerAfter(two, evs[3]) ELSE two) \in [Timer -> Nat \cup {Off}]
  BY <1>2, TimerAfterType
<1> QED
  BY <1>3 DEF TimersAfter, one, two

\* An append that passed keeps the type of every table it writes (append.rs append).
LEMMA AppendsType ==
  ASSUME TypeOK, NEW h \in Host, NEW i \in Input, NEW evs \in Seq(Event), Appends(h, evs, i)
  PROVE  /\ log' \in Seq(Event) /\ inbox' \in Seq(Input) /\ timers' \in [Timer -> Nat \cup {Off}]
         /\ max_v' \in Nat /\ row' \in {"absent", "open", "finished"}
<1>1. Len(evs) > 0 /\ evs[1].v \in Nat /\ evs[Len(evs)].v \in Nat
  <2>1. Len(evs) > 0 /\ evs[1] \in Event /\ evs[Len(evs)] \in Event
    BY DEF Appends, Batch
  <2> QED
    BY <2>1 DEF Event
<1>2. log' \in Seq(Event)
  BY DEF Appends, ApplyAppend, TypeOK
<1>3. inbox' \in Seq(Input)
  BY WithoutType DEF Appends, ApplyAppend, TypeOK
<1>4. timers' \in [Timer -> Nat \cup {Off}]
  BY <1>1, TimersAfterType DEF Appends, ApplyAppend, TypeOK
<1>5. max_v' \in Nat
  BY <1>1 DEF Appends, ApplyAppend, TypeOK, MaxOf
<1>6. row' \in {"absent", "open", "finished"}
  BY DEF Appends, ApplyAppend, TypeOK
<1> QED
  BY <1>2, <1>3, <1>4, <1>5, <1>6

\* enqueue keeps every type.
LEMMA EnqueueType ==
  ASSUME TypeOK, NEW i \in Input, NEW v \in Nat, Enqueue(i, v)
  PROVE  TypeOK'
BY DEF TypeOK, Enqueue, hostVars

\* The two actions that write the log keep every type.
LEMMA FoldType ==
  ASSUME TypeOK, NEW h \in Host, CommitInput(h) \/ ConsumePoison(h)
  PROVE  TypeOK'
<1>1. UNCHANGED <<now, lease, stamp, accepted>>
  BY FoldStep
<1>2. ASSUME NEW i \in Input, IsRefused(h, i)
      PROVE  TypeOK'
  <2>1. inbox' \in Seq(Input)
    BY <1>2, WithoutType DEF IsRefused, TypeOK
  <2>2. step' \in [Host -> StepType] /\ held' \in [Host -> Nat]
    BY <1>2, SMTT(30) DEF IsRefused, TypeOK, StepType
  <2> QED
    BY <1>1, <1>2, <2>1, <2>2 DEF IsRefused, TypeOK
<1>3. ASSUME NEW i \in Input, NEW evs \in Seq(Event), Appends(h, evs, i)
      PROVE  TypeOK'
  <2>1. step' \in [Host -> StepType]
    BY <1>3 DEF Appends, TypeOK, StepType
  <2> QED
    BY <1>1, <1>3, <2>1, AppendsType DEF Appends, TypeOK
<1> QED
  BY <1>2, <1>3, FoldStep

\* What acquire_or_renew wants to write is a lease.
LEMMA LeaseTypes ==
  ASSUME NEW l \in Lease, NEW h \in Host, now \in Nat
  PROVE  NextLease(l, h) \in Lease
BY ConstantsAssumption DEF Lease, NextLease

\* An empty store is well typed.
LEMMA InitType == Init => TypeOK
<1> SUFFICES ASSUME Init PROVE TypeOK
  OBVIOUS
<1>1. lease \in Lease
  BY DEF Init, Lease, NoLease
<1>2. step \in [Host -> StepType]
  BY DEF Init, StepType
<1>3. log \in Seq(Event) /\ inbox \in Seq(Input) /\ accepted \in Seq(Input)
  BY DEF Init
<1> QED
  BY <1>1, <1>2, <1>3, ConstantsAssumption DEF Init, TypeOK, Off, NoCache

\* Every step of the store, the clock and the hosts keeps every type.
LEMMA NextType ==
  ASSUME TypeOK, [Next]_vars
  PROVE  TypeOK'
<1>1. CASE UNCHANGED vars
  BY <1>1 DEF TypeOK, vars
<1>2. CASE Tick
  BY <1>2, ConstantsAssumption DEF TypeOK, Tick, storeVars, hostVars
<1>3. CASE EnqueueFromOutside
  BY <1>3, EnqueueType, ConstantsAssumption DEF EnqueueFromOutside, Input
<1>4. ASSUME NEW h \in Host, HostStep(h)
      PROVE  TypeOK'
  <2>1. CASE FireDueTimer(h)
    <3>1. PICK t \in Timer : timers[t] # Off /\ timers[t] <= now /\ Enqueue([timer |-> t, at |-> timers[t]], Version[h])
      BY <2>1 DEF FireDueTimer
    <3>2. timers[t] \in 0 .. MaxTime + 1
      BY <3>1, ConstantsAssumption DEF TypeOK
    <3>3. [timer |-> t, at |-> timers[t]] \in Input
      BY <3>2 DEF Input, Firing
    <3> QED
      BY <3>1, <3>3, EnqueueType, ConstantsAssumption
  <2>2. CASE AcquireRead(h)
    <3>1. NextLease(lease, h) \in Lease /\ lease \in Lease
      BY LeaseTypes, ConstantsAssumption DEF TypeOK
    <3>2. step' \in [Host -> StepType]
      <4>1. [pc |-> "lease", from |-> lease, to |-> NextLease(lease, h)] \in StepType /\ Idle \in StepType
        BY <3>1 DEF StepType
      <4>2. step \in [Host -> StepType]
        BY DEF TypeOK
      <4> QED
        BY <2>2, <4>1, <4>2 DEF AcquireRead, Forget
    <3>3. held' \in [Host -> Nat]
      <4>1. lease.epoch \in Nat /\ held \in [Host -> Nat]
        BY <3>1 DEF Lease, TypeOK
      <4> QED
        BY <2>2, <4>1 DEF AcquireRead, Forget
    <3>4. cache' \in [Host -> Int]
      <4>1. cache \in [Host -> Int] /\ NoCache \in Int
        BY DEF TypeOK, NoCache
      <4> QED
        BY <2>2, <4>1 DEF AcquireRead, Forget
    <3> QED
      BY <2>2, <3>2, <3>3, <3>4 DEF AcquireRead, TypeOK, storeVars
  <2>3. CASE AcquireCas(h)
    <3>1. step[h].to \in Lease /\ step[h].to.epoch \in Nat
      BY <2>3, StepPc DEF AcquireCas, TypeOK, Lease
    <3>2. step' \in [Host -> StepType]
      BY <2>3 DEF AcquireCas, Forget, TypeOK, StepType
    <3>3. held' \in [Host -> Nat] /\ cache' \in [Host -> Int] /\ lease' \in Lease
      <4>1. cache \in [Host -> Int] /\ NoCache \in Int /\ held \in [Host -> Nat] /\ lease \in Lease
        BY DEF TypeOK, NoCache
      <4> QED
        BY <2>3, <3>1, <4>1 DEF AcquireCas, Forget
    <3> QED
      BY <2>3, <3>2, <3>3 DEF AcquireCas, TypeOK
  <2>4. CASE Load(h)
    BY <2>4 DEF Load, TypeOK, storeVars
  <2>5. CASE NextInput(h)
    <3>1. Head(inbox) \in Input
      BY <2>5 DEF NextInput, TypeOK
    <3>2. step' \in [Host -> StepType]
      BY <2>5, <3>1 DEF NextInput, TypeOK, StepType
    <3> QED
      BY <2>5, <3>2 DEF NextInput, TypeOK, storeVars
  <2>6. CASE CommitInput(h) \/ ConsumePoison(h)
    BY <2>6, FoldType
  <2>7. CASE CountPoisonRead(h) \/ ConsumePoisonRead(h)
    <3>1. step[h].in \in Input
      BY <2>7, StepPc DEF CountPoisonRead, ConsumePoisonRead, TypeOK
    <3>2. poison[step[h].in] \in Nat
      BY <3>1 DEF TypeOK
    <3>3. step' \in [Host -> StepType]
      <4>1. /\ [pc |-> "count", in |-> step[h].in, count |-> poison[step[h].in]] \in StepType
            /\ [pc |-> "consume", in |-> step[h].in, count |-> poison[step[h].in]] \in StepType
        BY <3>1, <3>2 DEF StepType
      <4>2. step \in [Host -> StepType]
        BY DEF TypeOK
      <4> QED
        BY <2>7, <4>1, <4>2 DEF CountPoisonRead, ConsumePoisonRead
    <3> QED
      BY <2>7, <3>3 DEF CountPoisonRead, ConsumePoisonRead, TypeOK, storeVars
  <2>8. CASE CountPoison(h)
    <3>1. step[h].in \in Input
      BY <2>8, StepPc DEF CountPoison, TypeOK
    <3>2. poison' \in [Input -> Nat]
      BY <2>8, <3>1 DEF CountPoison, TypeOK
    <3>3. step' \in [Host -> StepType]
      BY <2>8 DEF CountPoison, TypeOK, StepType
    <3> QED
      BY <2>8, <3>2, <3>3 DEF CountPoison, TypeOK
  <2> QED
    BY <1>4, <2>1, <2>2, <2>3, <2>4, <2>5, <2>6, <2>7, <2>8 DEF HostStep
<1> QED
  BY <1>1, <1>2, <1>3, <1>4 DEF Next

\* Every variable of the store and of its hosts keeps its type.
THEOREM TypeCorrect == Spec => []TypeOK
<1>1. Init => TypeOK
  BY InitType
<1>2. TypeOK /\ [Next]_vars => TypeOK'
  BY NextType
<1> QED
  BY <1>1, <1>2, PTL DEF Spec

-----------------------------------------------------------------------------
(* Ownership.                                                              *)

\* The lease, as its hosts and the writes they prepared see it.  NoSharedEpoch is
\* not inductive: a host is kept from another's epoch by what it is about to write
\* over, so the strengthening speaks of the prepared compare-and-set too.
LeaseInv ==
  /\ \A h \in Host : held[h] <= lease.epoch
  /\ \A h \in Host : held[h] > 0 /\ held[h] = lease.epoch => lease.owner = h
  /\ \A h \in Host : step[h].pc = "lease" =>
       /\ step[h].to.owner = h
       /\ \/ step[h].to.epoch = step[h].from.epoch + 1
          \/ step[h].to.epoch = step[h].from.epoch /\ step[h].from.owner = h
  /\ NoSharedEpoch

\* The log: no event is ahead of the lease, and those of its epoch are its owner's.
LogInv ==
  /\ \A n \in 1 .. Len(log) :
       log[n].epoch <= lease.epoch /\ (log[n].epoch = lease.epoch => log[n].by = lease.owner)
  /\ \A m, n \in 1 .. Len(log) :
       /\ m < n => log[m].epoch <= log[n].epoch
       /\ log[m].epoch = log[n].epoch => log[m].by = log[n].by

OwnerInv == TypeOK /\ LeaseInv /\ LogInv

\* The compare-and-set of acquire_or_renew, when it wins, keeps the ownership invariant:
\* an old epoch stays with its owner, and a new one is above all that were ever held.
LEMMA CasPreserves ==
  ASSUME OwnerInv, NEW h \in Host, AcquireCas(h), lease = step[h].from
  PROVE  LeaseInv' /\ LogInv'
<1>1. /\ lease' = step[h].to
      /\ held' = [held EXCEPT ![h] = step[h].to.epoch]
      /\ step' = [step EXCEPT ![h] = Idle]
      /\ log' = log
      /\ step[h].pc = "lease"
  BY DEF AcquireCas
<1>2. /\ lease.epoch \in Nat /\ lease'.epoch \in Nat /\ lease' \in Lease
      /\ held \in [Host -> Nat] /\ step \in [Host -> StepType]
  BY <1>1, StepPc DEF OwnerInv, TypeOK, Lease
<1>3. /\ lease'.owner = h
      /\ \/ lease'.epoch = lease.epoch + 1
         \/ lease'.epoch = lease.epoch /\ lease.owner = h
  BY <1>1 DEF OwnerInv, LeaseInv
<1>4. \A g \in Host : g # h => held'[g] = held[g] /\ step'[g] = step[g]
  BY <1>1
<1>5. held'[h] = lease'.epoch /\ step'[h] = Idle
  BY <1>1, <1>2
<1>6. \A g \in Host : g # h => held[g] < lease'.epoch \/ held[g] = 0
  BY <1>2, <1>3 DEF OwnerInv, LeaseInv
<1>7. \A g \in Host : held'[g] <= lease'.epoch /\ (held'[g] > 0 /\ held'[g] = lease'.epoch => lease'.owner = g)
  BY <1>2, <1>3, <1>4, <1>5, <1>6
<1>8. NoSharedEpoch'
  BY <1>2, <1>4, <1>5, <1>6 DEF NoSharedEpoch, OwnerInv, LeaseInv
<1>9. \A g \in Host : step'[g].pc = "lease" =>
        /\ step'[g].to.owner = g
        /\ \/ step'[g].to.epoch = step'[g].from.epoch + 1
           \/ step'[g].to.epoch = step'[g].from.epoch /\ step'[g].from.owner = g
  BY <1>4, <1>5 DEF OwnerInv, LeaseInv, Idle
<1>10. \A n \in 1 .. Len(log) : log[n].epoch \in Nat
  <2>1. log \in Seq(Event)
    BY DEF OwnerInv, TypeOK
  <2>2. \A n \in 1 .. Len(log) : log[n] \in Event
    BY <2>1
  <2> QED
    BY <2>2 DEF Event
<1>11. LogInv'
  BY <1>1, <1>2, <1>3, <1>10 DEF OwnerInv, LogInv
<1> QED
  BY <1>7, <1>8, <1>9, <1>11 DEF LeaseInv

\* A step that leaves the lease and the log alone, and takes no new epoch but the
\* lease's own.
LEMMA StaysOwned ==
  ASSUME OwnerInv, lease' = lease, log' = log,
         \A h \in Host : \/ held'[h] = held[h] \/ held'[h] = 0
                         \/ held'[h] = lease.epoch /\ lease.owner = h,
         \A h \in Host : \/ step'[h] = step[h] \/ step'[h].pc # "lease"
                         \/ step'[h] = [pc |-> "lease", from |-> lease, to |-> NextLease(lease, h)]
                            /\ ~HeldByOther(lease, h)
  PROVE  LeaseInv' /\ LogInv'
<1>1. lease.epoch \in Nat /\ held \in [Host -> Nat]
  BY DEF OwnerInv, TypeOK, Lease
<1>2. \A h \in Host : held'[h] <= lease'.epoch /\ (held'[h] > 0 /\ held'[h] = lease'.epoch => lease'.owner = h)
  BY <1>1 DEF OwnerInv, LeaseInv
<1>3. NoSharedEpoch'
  BY <1>1 DEF NoSharedEpoch, OwnerInv, LeaseInv
<1>4. ASSUME NEW h \in Host, step'[h].pc = "lease"
      PROVE  /\ step'[h].to.owner = h
             /\ \/ step'[h].to.epoch = step'[h].from.epoch + 1
                \/ step'[h].to.epoch = step'[h].from.epoch /\ step'[h].from.owner = h
  <2>1. CASE step'[h] = step[h]
    BY <1>4, <2>1 DEF OwnerInv, LeaseInv
  <2>2. CASE step'[h] # step[h]
    <3>1. step'[h].from = lease /\ step'[h].to = NextLease(lease, h) /\ ~HeldByOther(lease, h)
      <4>1. /\ step'[h] = [pc |-> "lease", from |-> lease, to |-> NextLease(lease, h)]
            /\ ~HeldByOther(lease, h)
        BY <1>4, <2>2
      <4> QED
        BY <4>1
    <3> QED
      <4>1. NextLease(lease, h).owner = h
        BY DEF NextLease
      <4>2. Expired(lease) => NextLease(lease, h).epoch = lease.epoch + 1
        BY DEF NextLease
      <4>3. ~Expired(lease) => NextLease(lease, h).epoch = lease.epoch /\ lease.owner = h
        BY <3>1 DEF NextLease, HeldByOther
      <4> QED
        BY <3>1, <4>1, <4>2, <4>3
  <2> QED
    BY <2>1, <2>2
<1> QED
  BY <1>2, <1>3, <1>4 DEF LeaseInv, LogInv, OwnerInv

\* The fence: an append that passed is its lease owner's, so the log stays the work of
\* one host per epoch.
LEMMA AppendPreserves ==
  ASSUME OwnerInv, NEW h \in Host, NEW i \in Input, NEW evs \in Seq(Event), Appends(h, evs, i), lease' = lease
  PROVE  LogInv'
<1>1. /\ log' = log \o evs
      /\ \A n \in 1 .. Len(evs) : evs[n].epoch = held[h] /\ evs[n].by = h
      /\ log \in Seq(Event)
  BY DEF Appends, ApplyAppend, Batch, OwnerInv, TypeOK
<1>2. lease.epoch = held[h] /\ lease.epoch > 0 /\ lease.owner = h /\ lease.epoch \in Nat
  <2>1. ~(lease.epoch = 0 \/ lease.epoch # held[h])
    BY DEF Appends, AppendResult
  <2>2. lease.epoch \in Nat
    BY DEF OwnerInv, TypeOK, Lease
  <2> QED
    BY <2>1, <2>2 DEF OwnerInv, LeaseInv
<1>3. \A n \in 1 .. Len(log') :
        \/ n \in 1 .. Len(log) /\ log'[n] = log[n]
        \/ n > Len(log) /\ log'[n].epoch = lease.epoch /\ log'[n].by = lease.owner
  <2> TAKE n \in 1 .. Len(log')
  <2>1. CASE n <= Len(log)
    BY <1>1, <2>1
  <2>2. CASE n > Len(log)
    <3>1. n - Len(log) \in 1 .. Len(evs) /\ log'[n] = evs[n - Len(log)]
      BY <1>1, <2>2
    <3> QED
      BY <1>1, <1>2, <2>2, <3>1
  <2> QED
    BY <1>1, <2>1, <2>2
<1>4. \A n \in 1 .. Len(log) : log[n].epoch <= lease.epoch /\ (log[n].epoch = lease.epoch => log[n].by = lease.owner)
  BY DEF OwnerInv, LogInv
<1>5. \A n \in 1 .. Len(log') :
        log'[n].epoch <= lease'.epoch /\ (log'[n].epoch = lease'.epoch => log'[n].by = lease'.owner)
  BY <1>2, <1>3, <1>4
<1>6. ASSUME NEW m \in 1 .. Len(log'), NEW n \in 1 .. Len(log')
      PROVE  /\ m < n => log'[m].epoch <= log'[n].epoch
             /\ log'[m].epoch = log'[n].epoch => log'[m].by = log'[n].by
  <2>1. CASE m \in 1 .. Len(log) /\ n \in 1 .. Len(log)
    <3>1. log'[m] = log[m] /\ log'[n] = log[n]
      BY <1>3, <2>1
    <3> QED
      BY <2>1, <3>1 DEF OwnerInv, LogInv
  <2>2. CASE ~(m \in 1 .. Len(log)) /\ n \in 1 .. Len(log)
    BY <1>2, <1>3, <1>4, <2>2
  <2>3. CASE m \in 1 .. Len(log) /\ ~(n \in 1 .. Len(log))
    BY <1>2, <1>3, <1>4, <2>3
  <2>4. CASE ~(m \in 1 .. Len(log)) /\ ~(n \in 1 .. Len(log))
    BY <1>2, <1>3, <2>4
  <2> QED
    BY <2>1, <2>2, <2>3, <2>4
<1> QED
  BY <1>5, <1>6 DEF LogInv

\* Every step keeps the ownership invariant.
LEMMA OwnerStep ==
  ASSUME OwnerInv, [Next]_vars
  PROVE  OwnerInv'
<1>1. TypeOK'
  BY NextType DEF OwnerInv
<1> DEFINE KeepsHeld == \A h \in Host : \/ held'[h] = held[h] \/ held'[h] = 0
                                        \/ held'[h] = lease.epoch /\ lease.owner = h
           KeepsStep == \A h \in Host : \/ step'[h] = step[h] \/ step'[h].pc # "lease"
                                        \/ step'[h] = [pc |-> "lease", from |-> lease, to |-> NextLease(lease, h)]
                                           /\ ~HeldByOther(lease, h)
<1>2. held \in [Host -> Nat] /\ step \in [Host -> StepType]
  BY DEF OwnerInv, TypeOK
<1>3. CASE UNCHANGED vars \/ Tick \/ EnqueueFromOutside
  <2>1. UNCHANGED <<lease, log, held, step>>
    BY <1>3 DEF vars, Tick, EnqueueFromOutside, Enqueue, storeVars, hostVars
  <2>2. KeepsHeld /\ KeepsStep
    BY <2>1
  <2> QED
    BY <1>1, <2>1, <2>2, StaysOwned DEF OwnerInv
<1>4. ASSUME NEW h \in Host, HostStep(h)
      PROVE  OwnerInv'
  <2>1. CASE FireDueTimer(h)
    <3>1. UNCHANGED <<lease, log, held, step>>
      BY <2>1 DEF FireDueTimer, Enqueue, hostVars
    <3>2. KeepsHeld /\ KeepsStep
      BY <3>1
    <3> QED
      BY <1>1, <3>1, <3>2, StaysOwned DEF OwnerInv
  <2>2. CASE AcquireRead(h)
    <3>1. UNCHANGED <<lease, log>>
      BY <2>2 DEF AcquireRead, storeVars
    <3>2. KeepsHeld
      BY <1>2, <2>2 DEF AcquireRead, Forget
    <3>3. KeepsStep
      BY <1>2, <2>2 DEF AcquireRead, Forget, Idle
    <3> QED
      BY <1>1, <3>1, <3>2, <3>3, StaysOwned DEF OwnerInv
  <2>3. CASE AcquireCas(h)
    <3>1. CASE lease = step[h].from
      BY <1>1, <2>3, <3>1, CasPreserves DEF OwnerInv
    <3>2. CASE lease # step[h].from
      <4>1. UNCHANGED <<lease, log>> /\ KeepsHeld /\ KeepsStep
        BY <1>2, <2>3, <3>2 DEF AcquireCas, Forget, Idle
      <4> QED
        BY <1>1, <4>1, StaysOwned DEF OwnerInv
    <3> QED
      BY <3>1, <3>2
  <2>4. CASE Load(h) \/ NextInput(h) \/ CountPoisonRead(h) \/ CountPoison(h) \/ ConsumePoisonRead(h)
    <3>1. UNCHANGED <<lease, log, held>>
      BY <2>4 DEF Load, NextInput, CountPoisonRead, CountPoison, ConsumePoisonRead, storeVars
    <3>2. KeepsStep
      BY <1>2, <2>4 DEF Load, NextInput, CountPoisonRead, CountPoison, ConsumePoisonRead, Idle
    <3>3. KeepsHeld
      BY <3>1
    <3> QED
      BY <1>1, <3>1, <3>2, <3>3, StaysOwned DEF OwnerInv
  <2>5. CASE CommitInput(h) \/ ConsumePoison(h)
    <3>1. lease' = lease
      BY <2>5, FoldStep DEF OwnerInv
    <3>2. ASSUME NEW i \in Input, IsRefused(h, i)
          PROVE  OwnerInv'
      <4>1. log' = log /\ KeepsHeld /\ KeepsStep
        BY <1>2, <3>2 DEF IsRefused, Idle
      <4> QED
        BY <1>1, <3>1, <4>1, StaysOwned DEF OwnerInv
    <3>3. ASSUME NEW i \in Input, NEW evs \in Seq(Event), Appends(h, evs, i)
          PROVE  OwnerInv'
      <4>1. LogInv'
        BY <3>1, <3>3, AppendPreserves
      <4>2. held' = held /\ step' = [step EXCEPT ![h] = Idle]
        BY <3>3 DEF Appends
      <4>3. LeaseInv'
        BY <1>2, <3>1, <4>2 DEF OwnerInv, LeaseInv, NoSharedEpoch, Idle
      <4> QED
        BY <1>1, <4>1, <4>3 DEF OwnerInv
    <3> QED
      BY <2>5, <3>2, <3>3, FoldStep DEF OwnerInv
  <2> QED
    BY <1>4, <2>1, <2>2, <2>3, <2>4, <2>5 DEF HostStep
<1> QED
  BY <1>3, <1>4 DEF Next

\* A store nobody holds satisfies it.
LEMMA OwnerInit == Init => OwnerInv
<1> SUFFICES ASSUME Init PROVE OwnerInv
  OBVIOUS
<1>1. TypeOK
  BY InitType
<1>2. LeaseInv
  BY DEF Init, LeaseInv, NoSharedEpoch, NoLease, Idle
<1>3. LogInv
  BY DEF Init, LogInv
<1> QED
  BY <1>1, <1>2, <1>3 DEF OwnerInv

\* The inductive invariant of ownership, from which the two theorems below follow: who
\* holds the lease, what its hosts believe and prepare, and who wrote the log (lease.rs,
\* append.rs).
THEOREM OwnerInvariant == Spec => []OwnerInv
<1>1. OwnerInv /\ [Next]_vars => OwnerInv'
  BY OwnerStep
<1> QED
  BY <1>1, OwnerInit, PTL DEF Spec

\* For any number of hosts that race for one run, whatever each one read before
\* its compare-and-set: no two ever hold it under one epoch (lease.rs).
THEOREM EpochsAreNotShared == Spec => []NoSharedEpoch
<1>1. OwnerInv => NoSharedEpoch
  BY DEF OwnerInv, LeaseInv
<1> QED
  BY <1>1, OwnerInvariant, PTL

\* The log is written by one host per epoch, in rising epochs, whatever a host
\* that lost its lease still sends (append.rs, the fence).
THEOREM LogHasOneWriterPerEpoch == Spec => []OneWriterPerEpoch
<1>1. OwnerInv => OneWriterPerEpoch
  BY DEF OwnerInv, LogInv, OneWriterPerEpoch
<1> QED
  BY <1>1, OwnerInvariant, PTL

-----------------------------------------------------------------------------
(* Versions.                                                               *)

\* Every event of a batch is at least as new as the row's max_v was (append.rs
\* VersionTooOld), and none is newer than what max_v becomes.
LEMMA BatchVersions ==
  ASSUME TypeOK, NEW h \in Host, NEW i \in Input, NEW evs \in Seq(Event), Appends(h, evs, i)
  PROVE  /\ max_v' \in Nat /\ max_v <= max_v'
         /\ \A n \in 1 .. Len(evs) : evs[n].v \in Nat /\ max_v <= evs[n].v /\ evs[n].v <= max_v'
<1>1. /\ Len(evs) > 0 /\ max_v' = MaxOf(max_v, MaxOf(evs[1].v, evs[Len(evs)].v)) /\ max_v \in Nat
      /\ \A n \in 2 .. Len(evs) : evs[n].v = Version[h]
  BY DEF Appends, ApplyAppend, Batch, TypeOK
<1>2. \A n \in 1 .. Len(evs) : evs[n].v \in Nat
  <2> TAKE n \in 1 .. Len(evs)
  <2>1. evs[n] \in Event
    OBVIOUS
  <2> QED
    BY <2>1 DEF Event
<1>3. \A n \in 1 .. Len(evs) : max_v <= evs[n].v
  <2>1. ~\E n \in 1 .. Len(evs) : evs[n].v < max_v
    BY DEF Appends, AppendResult
  <2> QED
    BY <1>1, <1>2, <2>1
<1>4. 1 \in 1 .. Len(evs) /\ Len(evs) \in 1 .. Len(evs)
  BY <1>1
<1>5. /\ max_v' \in Nat /\ max_v <= max_v' /\ evs[1].v <= max_v' /\ evs[Len(evs)].v <= max_v'
  BY <1>1, <1>2, <1>4 DEF MaxOf
<1>6. ASSUME NEW n \in 1 .. Len(evs)
      PROVE  evs[n].v <= max_v'
  <2>1. CASE n = 1
    BY <1>5, <2>1
  <2>2. CASE n # 1
    <3>1. n \in 2 .. Len(evs) /\ Len(evs) \in 2 .. Len(evs)
      BY <2>2
    <3>2. evs[n].v = evs[Len(evs)].v
      BY <1>1, <3>1
    <3> QED
      BY <1>5, <3>2
  <2> QED
    BY <2>1, <2>2
<1> QED
  BY <1>2, <1>3, <1>5, <1>6

\* An append that passed the version check (append.rs VersionTooOld) keeps max_v above the
\* log and the log in order.  The first part of VersionsRise is what makes it inductive:
\* append compares with the row's max_v and never with the log.
LEMMA AppendKeepsVersions ==
  ASSUME TypeOK, VersionsRise, NEW h \in Host, NEW i \in Input, NEW evs \in Seq(Event), Appends(h, evs, i)
  PROVE  VersionsRise'
<1>1. /\ log' = log \o evs /\ Len(evs) > 0 /\ log \in Seq(Event) /\ max_v \in Nat
      /\ \A n \in 1 .. Len(evs) : evs[n].in = i
      /\ \A n \in 2 .. Len(evs) : evs[n].v = Version[h]
      /\ evs[1].part = "input" \/ Len(evs) = 1
  BY DEF Appends, ApplyAppend, Batch, TypeOK
<1>2. /\ max_v' \in Nat /\ max_v <= max_v'
      /\ \A n \in 1 .. Len(evs) : evs[n].v \in Nat /\ max_v <= evs[n].v /\ evs[n].v <= max_v'
  BY BatchVersions
<1>3. \A n \in 1 .. Len(log') :
        \/ n \in 1 .. Len(log) /\ log'[n] = log[n]
        \/ n > Len(log) /\ n - Len(log) \in 1 .. Len(evs) /\ log'[n] = evs[n - Len(log)]
  BY <1>1
<1>4. \A n \in 1 .. Len(log) : log[n].v \in Nat /\ log[n].v <= max_v
  <2> TAKE n \in 1 .. Len(log)
  <2>1. log[n] \in Event
    BY <1>1
  <2>2. log[n].v \in Nat
    BY <2>1 DEF Event
  <2> QED
    BY <2>2 DEF VersionsRise
<1>5. \A n \in 1 .. Len(log') : log'[n].v <= max_v'
  <2> TAKE n \in 1 .. Len(log')
  <2>1. CASE n \in 1 .. Len(log) /\ log'[n] = log[n]
    BY <1>1, <1>2, <1>4, <2>1
  <2>2. CASE n - Len(log) \in 1 .. Len(evs) /\ log'[n] = evs[n - Len(log)]
    BY <1>2, <2>2
  <2> QED
    BY <1>3, <2>1, <2>2
<1>6. ASSUME NEW m \in 1 .. Len(log'), NEW n \in 1 .. Len(log'), m < n
      PROVE  log'[m].v <= log'[n].v \/ (log'[m].part = "input" /\ log'[n].in = log'[m].in)
  <2>1. CASE n \in 1 .. Len(log)
    <3>1. m \in 1 .. Len(log)
      BY <1>1, <1>6, <2>1
    <3>2. log'[m] = log[m] /\ log'[n] = log[n]
      BY <1>3, <2>1, <3>1
    <3> QED
      BY <1>6, <2>1, <3>1, <3>2 DEF VersionsRise
  <2>2. CASE ~(n \in 1 .. Len(log))
    <3> DEFINE b == n - Len(log)
    <3>1. b \in 1 .. Len(evs) /\ log'[n] = evs[b]
      BY <1>3, <2>2
    <3> HIDE DEF b
    <3>2. CASE m \in 1 .. Len(log)
      <4>1. log'[m] = log[m]
        BY <1>3, <3>2
      <4> QED
        BY <1>1, <1>2, <1>4, <3>1, <3>2, <4>1, SMTT(30)
    <3>3. CASE ~(m \in 1 .. Len(log))
      <4> DEFINE a == m - Len(log)
      <4>1. a \in 1 .. Len(evs) /\ log'[m] = evs[a]
        BY <1>3, <3>3
      <4>2. a < b
        BY <1>1, <1>6, <3>1 DEF b
      <4> HIDE DEF a
      <4>3. CASE a = 1
        BY <1>1, <3>1, <4>1, <4>2, <4>3
      <4>4. CASE a # 1
        <5>1. a \in 2 .. Len(evs) /\ b \in 2 .. Len(evs)
          BY <3>1, <4>1, <4>2, <4>4
        <5>2. evs[a].v = evs[b].v
          BY <1>1, <5>1
        <5> QED
          BY <1>2, <3>1, <4>1, <5>2
      <4> QED
        BY <4>3, <4>4
    <3> QED
      BY <3>2, <3>3
  <2> QED
    BY <2>1, <2>2
<1> QED
  BY <1>5, <1>6 DEF VersionsRise

\* Nothing but an append touches the log or max_v.
LEMMA VersionStep ==
  ASSUME TypeOK, VersionsRise, [Next]_vars
  PROVE  VersionsRise'
<1>1. UNCHANGED <<log, max_v>> => VersionsRise'
  BY DEF VersionsRise
<1>2. CASE UNCHANGED vars \/ Tick \/ EnqueueFromOutside
  BY <1>1, <1>2 DEF vars, Tick, EnqueueFromOutside, Enqueue, storeVars, hostVars
<1>3. ASSUME NEW h \in Host, HostStep(h)
      PROVE  VersionsRise'
  <2>1. CASE FireDueTimer(h) \/ AcquireRead(h) \/ AcquireCas(h)
    BY <1>1, <2>1 DEF FireDueTimer, Enqueue, AcquireRead, AcquireCas, Forget, storeVars
  <2>2. CASE Load(h) \/ NextInput(h) \/ CountPoisonRead(h) \/ CountPoison(h) \/ ConsumePoisonRead(h)
    BY <1>1, <2>2 DEF Load, NextInput, CountPoisonRead, CountPoison, ConsumePoisonRead, storeVars
  <2>3. CASE CommitInput(h) \/ ConsumePoison(h)
    <3>1. ASSUME NEW i \in Input, IsRefused(h, i)
          PROVE  VersionsRise'
      BY <1>1, <3>1 DEF IsRefused
    <3>2. ASSUME NEW i \in Input, NEW evs \in Seq(Event), Appends(h, evs, i)
          PROVE  VersionsRise'
      BY <3>2, AppendKeepsVersions
    <3> QED
      BY <2>3, <3>1, <3>2, FoldStep
  <2> QED
    BY <1>3, <2>1, <2>2, <2>3 DEF HostStep
<1> QED
  BY <1>2, <1>3 DEF Next

\* Whatever versions the enqueuers and the hosts run and however the run changes hands, no
\* append writes an event behind one of a newer contract version, and max_v bounds them all;
\* the one fall is from an input to its own decisions (append.rs VersionTooOld).
THEOREM VersionsNeverFall == Spec => []VersionsRise
<1>1. Init => VersionsRise
  BY DEF Init, VersionsRise
<1>2. TypeOK /\ VersionsRise /\ [Next]_vars => VersionsRise'
  BY VersionStep
<1> QED
  BY <1>1, <1>2, TypeCorrect, PTL DEF Spec

-----------------------------------------------------------------------------
(* Inputs: folded once and never lost.                                     *)

\* What DELETE leaves (append.rs delete_inbox_rows): rows that were there, all but i's,
\* and if no row was there twice, none of i.
LEMMA WithoutRows ==
  ASSUME NEW S, NEW s \in Seq(S), NEW i
  PROVE  LET w == Without(s, i)
         IN  /\ \A m \in 1 .. Len(w) : \E k \in 1 .. Len(s) : w[m] = s[k]
             /\ \A k \in 1 .. Len(s) : s[k] # i => \E m \in 1 .. Len(w) : w[m] = s[k]
             /\ (\A j, k \in 1 .. Len(s) : s[j] = s[k] => j = k) =>
                  /\ \A m \in 1 .. Len(w) : w[m] # i
                  /\ \A m, n \in 1 .. Len(w) : w[m] = w[n] => m = n
<1> DEFINE w == Without(s, i)
<1>1. CASE ~\E n \in 1 .. Len(s) : s[n] = i
  <2>1. w = s
    BY <1>1 DEF Without
  <2> QED
    BY <1>1, <2>1
<1>2. CASE \E n \in 1 .. Len(s) : s[n] = i
  <2> DEFINE c == CHOOSE n \in 1 .. Len(s) : s[n] = i
             at(m) == IF m < c THEN m ELSE m + 1
  <2>1. c \in 1 .. Len(s) /\ s[c] = i /\ Len(s) \in Nat
    BY <1>2
  <2>2. w = [m \in 1 .. Len(s) - 1 |-> IF m < c THEN s[m] ELSE s[m + 1]]
    BY <1>2 DEF Without
  <2> HIDE DEF c, w
  <2>3. w \in Seq(S)
    BY WithoutType DEF w
  <2>4. Len(w) = Len(s) - 1
    BY <2>1, <2>2, <2>3
  <2>5. \A m \in 1 .. Len(w) : at(m) \in 1 .. Len(s) /\ at(m) # c /\ w[m] = s[at(m)]
    BY <2>1, <2>2, <2>4
  <2>6. \A m, n \in 1 .. Len(w) : at(m) = at(n) => m = n
    BY <2>1, <2>4
  <2>7. ASSUME NEW k \in 1 .. Len(s), s[k] # i
        PROVE  \E m \in 1 .. Len(w) : w[m] = s[k]
    <3>1. k # c
      BY <2>1, <2>7
    <3>2. CASE k < c
      <4>1. k \in 1 .. Len(w) /\ at(k) = k
        BY <2>1, <2>4, <3>2
      <4> QED
        BY <2>5, <4>1
    <3>3. CASE k > c
      <4>1. k - 1 \in 1 .. Len(w) /\ at(k - 1) = k
        BY <2>1, <2>4, <3>3
      <4> QED
        BY <2>5, <4>1
    <3> QED
      BY <2>1, <3>1, <3>2, <3>3
  <2>8. ASSUME \A j, k \in 1 .. Len(s) : s[j] = s[k] => j = k
        PROVE  /\ \A m \in 1 .. Len(w) : w[m] # i
               /\ \A m, n \in 1 .. Len(w) : w[m] = w[n] => m = n
    BY <2>1, <2>5, <2>6, <2>8
  <2> QED
    BY <2>5, <2>7, <2>8 DEF w
<1> QED
  BY <1>1, <1>2

\* FoldedOnce and NothingLost hold together, and a decision is never without the input it
\* came from: a DuplicateKey met on a decision's key still means that the input was folded.
FoldInv ==
  /\ FoldedOnce
  /\ NothingLost
  /\ \A n \in 1 .. Len(log) : log[n].part \in {"decision1", "decision2"} => Logged(log[n].in, "input")

\* A step that leaves log, inbox and history alone.
LEMMA FoldStays ==
  ASSUME FoldInv, UNCHANGED <<log, inbox, accepted>>
  PROVE  FoldInv'
BY DEF FoldInv, FoldedOnce, NothingLost, Logged, Waiting

\* Logged and Waiting in the state after a step.
LoggedNext(j, part) == \E n \in 1 .. Len(log') : log'[n].in = j /\ log'[n].part = part
WaitingNext(j) == \E n \in 1 .. Len(inbox') : inbox'[n] = j

\* FoldInv after a step, its parts in those terms.
LEMMA FoldInvNext ==
  ASSUME \A m, n \in 1 .. Len(log') : log'[m].in = log'[n].in /\ log'[m].part = log'[n].part => m = n,
         \A n \in 1 .. Len(inbox') : ~LoggedNext(inbox'[n], "input"),
         \A m, n \in 1 .. Len(inbox') : inbox'[m] = inbox'[n] => m = n,
         \A n \in 1 .. Len(accepted') :
           \/ WaitingNext(accepted'[n]) \/ LoggedNext(accepted'[n], "input")
           \/ LoggedNext(accepted'[n], "poison"),
         \A n \in 1 .. Len(log') :
           log'[n].part \in {"decision1", "decision2"} => LoggedNext(log'[n].in, "input")
  PROVE  FoldInv'
<1>1. FoldedOnce'
  BY DEF FoldedOnce, Logged, LoggedNext
<1>2. NothingLost'
  BY DEF NothingLost, Logged, Waiting, LoggedNext, WaitingNext
<1>3. (\A n \in 1 .. Len(log) :
         log[n].part \in {"decision1", "decision2"} => Logged(log[n].in, "input"))'
  BY DEF Logged, LoggedNext
<1> QED
  BY <1>1, <1>2, <1>3 DEF FoldInv

\* enqueue takes a key that neither waits nor is in the log (append.rs enqueue).
LEMMA EnqueueKeepsFold ==
  ASSUME TypeOK, FoldInv, NEW i \in Input, NEW v \in Nat, Enqueue(i, v)
  PROVE  FoldInv'
<1>1. /\ log' = log /\ inbox' = Append(inbox, i) /\ accepted' = Append(accepted, i)
      /\ ~Waiting(i) /\ ~Logged(i, "input")
      /\ inbox \in Seq(Input) /\ accepted \in Seq(Input)
  BY DEF Enqueue, EnqueueAccepts, TypeOK
<1>2. /\ Len(inbox') = Len(inbox) + 1 /\ inbox'[Len(inbox) + 1] = i /\ Len(inbox) \in Nat
      /\ \A n \in 1 .. Len(inbox) : inbox'[n] = inbox[n]
  BY <1>1
<1>3. /\ Len(accepted') = Len(accepted) + 1 /\ accepted'[Len(accepted) + 1] = i /\ Len(accepted) \in Nat
      /\ \A n \in 1 .. Len(accepted) : accepted'[n] = accepted[n]
  BY <1>1
<1>4. \A j, part : LoggedNext(j, part) <=> Logged(j, part)
  BY <1>1 DEF Logged, LoggedNext
<1>5. \A j : Waiting(j) => WaitingNext(j)
  BY <1>2 DEF Waiting, WaitingNext
<1>6. WaitingNext(i)
  BY <1>2 DEF Waiting, WaitingNext
<1>7. /\ \A n \in 1 .. Len(inbox') : ~Logged(inbox'[n], "input")
      /\ \A m, n \in 1 .. Len(inbox') : inbox'[m] = inbox'[n] => m = n
  BY <1>1, <1>2 DEF FoldInv, FoldedOnce, Waiting
<1>8. ASSUME NEW n \in 1 .. Len(accepted')
      PROVE  \/ WaitingNext(accepted'[n]) \/ LoggedNext(accepted'[n], "input")
             \/ LoggedNext(accepted'[n], "poison")
  <2>1. CASE n = Len(accepted) + 1
    BY <1>3, <1>6, <2>1
  <2>2. CASE n # Len(accepted) + 1
    <3>1. n \in 1 .. Len(accepted) /\ accepted'[n] = accepted[n]
      BY <1>3, <2>2
    <3> QED
      BY <1>4, <1>5, <3>1 DEF FoldInv, NothingLost
  <2> QED
    BY <2>1, <2>2
<1>9. \A m, n \in 1 .. Len(log') : log'[m].in = log'[n].in /\ log'[m].part = log'[n].part => m = n
  BY <1>1 DEF FoldInv, FoldedOnce
<1>10. \A n \in 1 .. Len(log') :
         log'[n].part \in {"decision1", "decision2"} => LoggedNext(log'[n].in, "input")
  BY <1>1, <1>4 DEF FoldInv
<1> QED
  BY <1>4, <1>7, <1>8, <1>9, <1>10, FoldInvNext

\* A refusal as DuplicateKey deletes the row of an input the log accounts for.
LEMMA RefusedKeepsFold ==
  ASSUME TypeOK, FoldInv, NEW h \in Host, NEW i \in Input, IsRefused(h, i), accepted' = accepted
  PROVE  FoldInv'
<1>1. CASE inbox' = inbox
  BY <1>1, FoldStays DEF IsRefused
<1>2. CASE inbox' # inbox
  <2>1. log' = log /\ inbox' = Without(inbox, i) /\ inbox \in Seq(Input)
    BY <1>2 DEF IsRefused, TypeOK
  <2>2. Logged(i, "input") \/ Logged(i, "poison")
    <3>1. PICK part \in Part : Logged(i, part)
      BY <1>2 DEF IsRefused
    <3>2. part \in {"decision1", "decision2"} => Logged(i, "input")
      BY <3>1 DEF Logged, FoldInv
    <3> QED
      BY <3>1, <3>2 DEF Part
  <2>3. \A j, part : LoggedNext(j, part) <=> Logged(j, part)
    BY <2>1 DEF Logged, LoggedNext
  <2>4. /\ \A m \in 1 .. Len(inbox') : \E k \in 1 .. Len(inbox) : inbox'[m] = inbox[k]
        /\ \A k \in 1 .. Len(inbox) : inbox[k] # i => \E m \in 1 .. Len(inbox') : inbox'[m] = inbox[k]
        /\ (\A j, k \in 1 .. Len(inbox) : inbox[j] = inbox[k] => j = k) =>
             \A m, n \in 1 .. Len(inbox') : inbox'[m] = inbox'[n] => m = n
    BY <2>1, WithoutRows, SMTT(30)
  <2>5. /\ \A m, n \in 1 .. Len(log') : log'[m].in = log'[n].in /\ log'[m].part = log'[n].part => m = n
        /\ \A n \in 1 .. Len(inbox') : ~LoggedNext(inbox'[n], "input")
        /\ \A m, n \in 1 .. Len(inbox') : inbox'[m] = inbox'[n] => m = n
    BY <2>1, <2>3, <2>4 DEF FoldInv, FoldedOnce
  <2>6. \A j : Waiting(j) /\ j # i => WaitingNext(j)
    BY <2>4 DEF Waiting, WaitingNext
  <2>7. \A n \in 1 .. Len(accepted') :
          \/ WaitingNext(accepted'[n]) \/ LoggedNext(accepted'[n], "input")
          \/ LoggedNext(accepted'[n], "poison")
    BY <2>2, <2>3, <2>6 DEF FoldInv, NothingLost
  <2>8. \A n \in 1 .. Len(log') :
          log'[n].part \in {"decision1", "decision2"} => LoggedNext(log'[n].in, "input")
    BY <2>1, <2>3 DEF FoldInv
  <2> QED
    BY <2>5, <2>7, <2>8, FoldInvNext
<1> QED
  BY <1>1, <1>2

\* An append whose keys are new folds its input, and only it, out of the inbox.
LEMMA AppendKeepsFold ==
  ASSUME TypeOK, FoldInv, NEW h \in Host, NEW i \in Input, NEW evs \in Seq(Event), Appends(h, evs, i),
         accepted' = accepted
  PROVE  FoldInv'
<1>1. /\ log' = log \o evs /\ inbox' = Without(inbox, i)
      /\ log \in Seq(Event) /\ inbox \in Seq(Input) /\ Len(evs) > 0
  BY DEF Appends, ApplyAppend, Batch, TypeOK
<1>2. /\ \A n \in 1 .. Len(evs) : evs[n].in = i
      /\ \A m, n \in 1 .. Len(evs) : evs[m].part = evs[n].part => m = n
      /\ evs[1].part = "input" \/ (evs[1].part = "poison" /\ Len(evs) = 1)
  BY DEF Appends, Batch
<1>3. \A n \in 1 .. Len(evs) : ~Logged(i, evs[n].part)
  <2>1. ~\E n \in 1 .. Len(evs) : Logged(evs[n].in, evs[n].part)
    BY DEF Appends, AppendResult
  <2> QED
    BY <1>2, <2>1
<1>4. /\ Len(log') = Len(log) + Len(evs) /\ Len(log) \in Nat /\ Len(evs) \in Nat
      /\ \A n \in 1 .. Len(log) : n \in 1 .. Len(log') /\ log'[n] = log[n]
      /\ \A n \in 1 .. Len(evs) : Len(log) + n \in 1 .. Len(log') /\ log'[Len(log) + n] = evs[n]
  BY <1>1
<1>5. \A n \in 1 .. Len(log') :
        \/ n \in 1 .. Len(log) /\ log'[n] = log[n]
        \/ n - Len(log) \in 1 .. Len(evs) /\ log'[n] = evs[n - Len(log)]
  BY <1>1, <1>4
<1>6. \A j, part : Logged(j, part) => LoggedNext(j, part)
  BY <1>4 DEF Logged, LoggedNext
<1>7. \A j, part : LoggedNext(j, part) => Logged(j, part) \/ j = i
  BY <1>2, <1>5 DEF Logged, LoggedNext
<1>8. LoggedNext(i, evs[1].part)
  <2>1. 1 \in 1 .. Len(evs)
    BY <1>1, <1>4
  <2> QED
    BY <1>2, <1>4, <2>1 DEF Logged, LoggedNext
<1>9. /\ \A m \in 1 .. Len(inbox') : \E k \in 1 .. Len(inbox) : inbox'[m] = inbox[k]
      /\ \A k \in 1 .. Len(inbox) : inbox[k] # i => \E m \in 1 .. Len(inbox') : inbox'[m] = inbox[k]
      /\ \A m \in 1 .. Len(inbox') : inbox'[m] # i
      /\ \A m, n \in 1 .. Len(inbox') : inbox'[m] = inbox'[n] => m = n
  <2>1. \A j, k \in 1 .. Len(inbox) : inbox[j] = inbox[k] => j = k
    BY DEF FoldInv, FoldedOnce
  <2>2. inbox \in Seq(Input) /\ inbox' = Without(inbox, i)
    BY <1>1
  <2> DEFINE w == Without(inbox, i)
  <2>3. /\ \A m \in 1 .. Len(w) : \E k \in 1 .. Len(inbox) : w[m] = inbox[k]
        /\ \A k \in 1 .. Len(inbox) : inbox[k] # i => \E m \in 1 .. Len(w) : w[m] = inbox[k]
        /\ \A m \in 1 .. Len(w) : w[m] # i
        /\ \A m, n \in 1 .. Len(w) : w[m] = w[n] => m = n
    BY <2>1, <2>2, WithoutRows
  <2>4. inbox' = w
    BY <2>2
  <2> HIDE DEF w
  <2> QED
    BY <2>3, <2>4
<1>10. ASSUME NEW m \in 1 .. Len(log'), NEW n \in 1 .. Len(log'),
              log'[m].in = log'[n].in, log'[m].part = log'[n].part
       PROVE  m = n
  <2>1. CASE m \in 1 .. Len(log) /\ n \in 1 .. Len(log)
    <3>1. log'[m] = log[m] /\ log'[n] = log[n]
      BY <1>4, <2>1
    <3> QED
      BY <1>10, <2>1, <3>1 DEF FoldInv, FoldedOnce
  <2>2. CASE m \in 1 .. Len(log) /\ ~(n \in 1 .. Len(log))
    BY <1>2, <1>3, <1>4, <1>5, <1>10, <2>2 DEF Logged, LoggedNext
  <2>3. CASE ~(m \in 1 .. Len(log)) /\ n \in 1 .. Len(log)
    BY <1>2, <1>3, <1>4, <1>5, <1>10, <2>3 DEF Logged, LoggedNext
  <2>4. CASE ~(m \in 1 .. Len(log)) /\ ~(n \in 1 .. Len(log))
    <3>1. /\ m - Len(log) \in 1 .. Len(evs) /\ log'[m] = evs[m - Len(log)]
          /\ n - Len(log) \in 1 .. Len(evs) /\ log'[n] = evs[n - Len(log)]
      BY <1>5, <2>4
    <3>2. m - Len(log) = n - Len(log)
      BY <1>2, <1>10, <3>1
    <3> QED
      BY <1>4, <3>2
  <2> QED
    BY <2>1, <2>2, <2>3, <2>4
<1>11. \A m \in 1 .. Len(inbox') : ~LoggedNext(inbox'[m], "input")
  BY <1>7, <1>9 DEF FoldInv, FoldedOnce
<1>12. \A j : Waiting(j) /\ j # i => WaitingNext(j)
  BY <1>9 DEF Waiting, WaitingNext
<1>13. \A n \in 1 .. Len(accepted') :
         \/ WaitingNext(accepted'[n]) \/ LoggedNext(accepted'[n], "input")
         \/ LoggedNext(accepted'[n], "poison")
  BY <1>2, <1>6, <1>8, <1>12 DEF FoldInv, NothingLost
<1>14. ASSUME NEW n \in 1 .. Len(log'), log'[n].part \in {"decision1", "decision2"}
       PROVE  LoggedNext(log'[n].in, "input")
  <2>1. CASE n \in 1 .. Len(log)
    BY <1>4, <1>6, <1>14, <2>1 DEF FoldInv
  <2>2. CASE ~(n \in 1 .. Len(log))
    <3>1. n - Len(log) \in 1 .. Len(evs) /\ log'[n] = evs[n - Len(log)]
      BY <1>5, <2>2
    <3>2. evs[1].part = "input"
      <4>1. Len(evs) = 1 => n - Len(log) = 1
        BY <1>4, <3>1
      <4> QED
        BY <1>2, <1>14, <3>1, <4>1
    <3> QED
      BY <1>2, <1>8, <3>1, <3>2
  <2> QED
    BY <2>1, <2>2
<1> QED
  BY <1>9, <1>10, <1>11, <1>13, <1>14, FoldInvNext

\* Every step keeps it.
LEMMA FoldInvStep ==
  ASSUME TypeOK, FoldInv, [Next]_vars
  PROVE  FoldInv'
<1>1. CASE UNCHANGED vars \/ Tick
  BY <1>1, FoldStays DEF vars, Tick, storeVars
<1>2. CASE EnqueueFromOutside
  BY <1>2, EnqueueKeepsFold, ConstantsAssumption DEF EnqueueFromOutside, Input
<1>3. ASSUME NEW h \in Host, HostStep(h)
      PROVE  FoldInv'
  <2>1. CASE FireDueTimer(h)
    <3>1. PICK t \in Timer : timers[t] # Off /\ timers[t] <= now /\ Enqueue([timer |-> t, at |-> timers[t]], Version[h])
      BY <2>1 DEF FireDueTimer
    <3>2. timers[t] \in Nat /\ now \in 0 .. MaxTime
      BY <3>1 DEF TypeOK
    <3>3. [timer |-> t, at |-> timers[t]] \in Input
      BY <3>1, <3>2, ConstantsAssumption DEF Input, Firing
    <3> QED
      BY <3>1, <3>3, EnqueueKeepsFold, ConstantsAssumption
  <2>2. CASE AcquireRead(h) \/ AcquireCas(h)
    BY <2>2, FoldStays DEF AcquireRead, AcquireCas, Forget, storeVars
  <2>3. CASE Load(h) \/ NextInput(h) \/ CountPoisonRead(h) \/ CountPoison(h) \/ ConsumePoisonRead(h)
    BY <2>3, FoldStays DEF Load, NextInput, CountPoisonRead, CountPoison, ConsumePoisonRead, storeVars
  <2>4. CASE CommitInput(h) \/ ConsumePoison(h)
    <3>1. accepted' = accepted
      BY <2>4, FoldStep
    <3>2. ASSUME NEW i \in Input, IsRefused(h, i)
          PROVE  FoldInv'
      BY <3>1, <3>2, RefusedKeepsFold
    <3>3. ASSUME NEW i \in Input, NEW evs \in Seq(Event), Appends(h, evs, i)
          PROVE  FoldInv'
      BY <3>1, <3>3, AppendKeepsFold
    <3> QED
      BY <2>4, <3>2, <3>3, FoldStep
  <2> QED
    BY <1>3, <2>1, <2>2, <2>3, <2>4 DEF HostStep
<1> QED
  BY <1>1, <1>2, <1>3 DEF Next

\* The invariant the next two theorems share.
LEMMA FoldInvariant == Spec => []FoldInv
<1>1. Init => FoldInv
  BY DEF Init, FoldInv, FoldedOnce, NothingLost
<1>2. TypeOK /\ FoldInv /\ [Next]_vars => FoldInv'
  BY FoldInvStep
<1> QED
  BY <1>1, <1>2, TypeCorrect, PTL DEF Spec

\* For any number of hosts and any order of their calls an input is folded at most once,
\* and one that is in the log no longer waits (append.rs enqueue, append).
THEOREM InputsAreFoldedOnce == Spec => []FoldedOnce
<1>1. FoldInv => FoldedOnce
  BY DEF FoldInv
<1> QED
  BY <1>1, FoldInvariant, PTL

\* Every input that enqueue accepted waits, is in the log, or is accounted for there as
\* poison, through every refusal of an append (append.rs, fold.rs append_refused).
THEOREM AcceptedInputsAreKept == Spec => []NothingLost
<1>1. FoldInv => NothingLost
  BY DEF FoldInv
<1> QED
  BY <1>1, FoldInvariant, PTL

\* The run has one owner at a time, for any number of hosts: in what they believe and in what
\* the log says (lease.rs acquire_or_renew, append.rs, the fence).
THEOREM OneOwnerAtATime == Spec => []OneOwner
<1>1. NoSharedEpoch /\ OneWriterPerEpoch => OneOwner
  BY DEF OneOwner
<1> QED
  BY <1>1, EpochsAreNotShared, LogHasOneWriterPerEpoch, PTL

\* An accepted input is folded, or accounted for as poison, exactly once, whoever takes the run
\* from whom in between (append.rs enqueue, append; fold.rs append_refused, consume_poison).
THEOREM InputsAreFoldedExactlyOnce == Spec => []ExactlyOnce
<1>1. FoldedOnce /\ NothingLost => ExactlyOnce
  BY DEF ExactlyOnce
<1> QED
  BY <1>1, InputsAreFoldedOnce, AcceptedInputsAreKept, PTL

-----------------------------------------------------------------------------
(* The timer index.                                                        *)

\* ArmedByLog of the first k events of a log.
ArmedAt(l, k, t, at) ==
  \E n \in 1 .. k :
    /\ l[n].kind = "set" /\ l[n].timer = t /\ l[n].at = at
    /\ \A m \in n + 1 .. k : ~Undoes(l[m], t, at)

\* An index and those events agree on every timer and every instant.
IndexOf(l, k, tm) == \A t \in Timer : \A at \in Nat : ArmedAt(l, k, t, at) <=> tm[t] = at

\* What one more event does to the timers a log arms.
LEMMA ArmedByOneMore ==
  ASSUME NEW l, NEW k \in Nat, NEW t, NEW at
  PROVE  ArmedAt(l, k + 1, t, at) <=>
           \/ l[k + 1].kind = "set" /\ l[k + 1].timer = t /\ l[k + 1].at = at
           \/ ArmedAt(l, k, t, at) /\ ~Undoes(l[k + 1], t, at)
<1> DEFINE Arms(n) == l[n].kind = "set" /\ l[n].timer = t /\ l[n].at = at
           Off_(n) == Undoes(l[n], t, at)
<1>1. ArmedAt(l, k + 1, t, at) <=> \E n \in 1 .. k + 1 : Arms(n) /\ \A m \in n + 1 .. k + 1 : ~Off_(m)
  BY DEF ArmedAt
<1>2. ArmedAt(l, k, t, at) <=> \E n \in 1 .. k : Arms(n) /\ \A m \in n + 1 .. k : ~Off_(m)
  BY DEF ArmedAt
<1> HIDE DEF Arms, Off_
<1>3. (\E n \in 1 .. k + 1 : Arms(n) /\ \A m \in n + 1 .. k + 1 : ~Off_(m)) <=>
        \/ Arms(k + 1)
        \/ (\E n \in 1 .. k : Arms(n) /\ \A m \in n + 1 .. k : ~Off_(m)) /\ ~Off_(k + 1)
  <2>1. ASSUME Arms(k + 1)
        PROVE  \E n \in 1 .. k + 1 : Arms(n) /\ \A m \in n + 1 .. k + 1 : ~Off_(m)
    <3>1. k + 1 \in 1 .. k + 1 /\ \A m \in (k + 1) + 1 .. k + 1 : ~Off_(m)
      OBVIOUS
    <3> QED
      BY <2>1, <3>1
  <2>2. ASSUME NEW n \in 1 .. k, Arms(n), \A m \in n + 1 .. k : ~Off_(m), ~Off_(k + 1)
        PROVE  \E j \in 1 .. k + 1 : Arms(j) /\ \A m \in j + 1 .. k + 1 : ~Off_(m)
    <3>1. \A m \in n + 1 .. k + 1 : m \in n + 1 .. k \/ m = k + 1
      OBVIOUS
    <3>2. n \in 1 .. k + 1
      OBVIOUS
    <3> QED
      BY <2>2, <3>1, <3>2
  <2>3. ASSUME NEW n \in 1 .. k + 1, Arms(n), \A m \in n + 1 .. k + 1 : ~Off_(m), n # k + 1
        PROVE  n \in 1 .. k /\ (\A m \in n + 1 .. k : ~Off_(m)) /\ ~Off_(k + 1)
    <3>1. n \in 1 .. k /\ k + 1 \in n + 1 .. k + 1 /\ \A m \in n + 1 .. k : m \in n + 1 .. k + 1
      BY <2>3
    <3> QED
      BY <2>3, <3>1
  <2> QED
    BY <2>1, <2>2, <2>3
<1> QED
  BY <1>1, <1>2, <1>3 DEF Arms, Off_

\* timers.rs apply keeps the index and the log in step, one event at a time.
LEMMA IndexOneMore ==
  ASSUME NEW l, NEW k \in Nat, l[k + 1] \in Event, NEW tm \in [Timer -> Nat \cup {Off}],
         IndexOf(l, k, tm)
  PROVE  /\ IndexOf(l, k + 1, TimerAfter(tm, l[k + 1]))
         /\ TimerAfter(tm, l[k + 1]) \in [Timer -> Nat \cup {Off}]
<1> DEFINE ev == l[k + 1]
<1>1. ASSUME NEW t \in Timer, NEW at \in Nat
      PROVE  ArmedAt(l, k + 1, t, at) <=> TimerAfter(tm, ev)[t] = at
  <2>1. ArmedAt(l, k + 1, t, at) <=>
           \/ ev.kind = "set" /\ ev.timer = t /\ ev.at = at
           \/ ArmedAt(l, k, t, at) /\ ~Undoes(ev, t, at)
    BY ArmedByOneMore
  <2>2. ArmedAt(l, k, t, at) <=> tm[t] = at
    BY DEF IndexOf
  <2>3. TimerAfter(tm, ev)[t] =
          IF ev.kind = "finished" THEN Off
          ELSE IF ev.timer # t THEN tm[t]
          ELSE IF ev.kind = "set" THEN ev.at
          ELSE IF ev.kind = "cleared" THEN Off
          ELSE IF ev.kind = "fired" /\ tm[t] = ev.at THEN Off
          ELSE tm[t]
    BY DEF TimerAfter
  <2>4. ev.kind \in Kind /\ Off # at
    BY DEF Event, Off
  <2> HIDE DEF ev
  <2> QED
    BY <2>1, <2>2, <2>3, <2>4 DEF Undoes, Kind
<1> QED
  BY <1>1, TimerAfterType DEF IndexOf

\* So does a whole append, which carries an input and at most two decisions.
LEMMA IndexAfterAppend ==
  ASSUME NEW l, NEW k \in Nat, NEW j \in 1 .. 3, NEW evs, NEW tm \in [Timer -> Nat \cup {Off}],
         Len(evs) = j, \A n \in 1 .. j : evs[n] \in Event /\ l[k + n] = evs[n], IndexOf(l, k, tm)
  PROVE  IndexOf(l, k + j, TimersAfter(tm, evs))
<1> DEFINE one == TimerAfter(tm, evs[1])
           two == TimerAfter(one, evs[2])
           three == TimerAfter(two, evs[3])
<1>1. IndexOf(l, k + 1, one) /\ one \in [Timer -> Nat \cup {Off}]
  BY IndexOneMore
<1> HIDE DEF one
<1>2. j >= 2 => IndexOf(l, k + 2, two) /\ two \in [Timer -> Nat \cup {Off}]
  <2> SUFFICES ASSUME j >= 2 PROVE IndexOf(l, k + 2, two) /\ two \in [Timer -> Nat \cup {Off}]
    OBVIOUS
  <2>1. l[(k + 1) + 1] = evs[2] /\ l[(k + 1) + 1] \in Event /\ k + 1 \in Nat /\ (k + 1) + 1 = k + 2
    OBVIOUS
  <2> QED
    BY <1>1, <2>1, IndexOneMore
<1> HIDE DEF two
<1>3. j >= 3 => IndexOf(l, k + 3, three)
  <2> SUFFICES ASSUME j >= 3 PROVE IndexOf(l, k + 3, three)
    OBVIOUS
  <2>1. l[(k + 2) + 1] = evs[3] /\ l[(k + 2) + 1] \in Event /\ k + 2 \in Nat /\ (k + 2) + 1 = k + 3
    OBVIOUS
  <2> QED
    BY <1>2, <2>1, IndexOneMore
<1>4. TimersAfter(tm, evs) = IF j >= 3 THEN three ELSE IF j >= 2 THEN two ELSE one
  BY DEF TimersAfter, one, two, three
<1> HIDE DEF three
<1>5. j = 1 \/ j = 2 \/ j = 3
  OBVIOUS
<1> QED
  BY <1>1, <1>2, <1>3, <1>4, <1>5

\* An append that passed: where its events stand in the log after it.
LEMMA AppendedLog ==
  ASSUME TypeOK, NEW h \in Host, NEW i \in Input, NEW evs \in Seq(Event), Appends(h, evs, i)
  PROVE  /\ Len(log') = Len(log) + Len(evs) /\ Len(log) \in Nat /\ Len(evs) \in 1 .. 3
         /\ \A n \in 1 .. Len(log) : n \in 1 .. Len(log') /\ log'[n] = log[n]
         /\ \A n \in 1 .. Len(evs) : Len(log) + n \in 1 .. Len(log') /\ log'[Len(log) + n] = evs[n]
         /\ \A n \in 1 .. Len(log') :
              \/ n \in 1 .. Len(log) /\ log'[n] = log[n]
              \/ n > Len(log) /\ n - Len(log) \in 1 .. Len(evs) /\ log'[n] = evs[n - Len(log)]
<1>1. log' = log \o evs /\ log \in Seq(Event)
  BY DEF Appends, ApplyAppend, TypeOK
<1>2. Len(evs) > 0 /\ Len(evs) <= 3 /\ Len(evs) \in Nat
  BY DEF Appends, Batch, Says
<1>3. /\ Len(log') = Len(log) + Len(evs) /\ Len(log) \in Nat
      /\ \A n \in 1 .. Len(log) : log'[n] = log[n]
      /\ \A n \in 1 .. Len(evs) : log'[Len(log) + n] = evs[n]
  BY <1>1
<1>4. \A n \in 1 .. Len(log') :
        n \in 1 .. Len(log) \/ (n > Len(log) /\ n - Len(log) \in 1 .. Len(evs) /\ n = Len(log) + (n - Len(log)))
  BY <1>2, <1>3
<1>5. \A n \in 1 .. Len(evs) : Len(log) + n \in 1 .. Len(log')
  BY <1>2, <1>3
<1>6. \A n \in 1 .. Len(log) : n \in 1 .. Len(log')
  BY <1>2, <1>3
<1>7. ASSUME NEW n \in 1 .. Len(log'), ~(n \in 1 .. Len(log))
      PROVE  n > Len(log) /\ n - Len(log) \in 1 .. Len(evs) /\ log'[n] = evs[n - Len(log)]
  BY <1>3, <1>4, <1>7
<1>8. Len(evs) \in 1 .. 3
  <2>1. \A k \in Nat : k > 0 /\ k <= 3 => k \in 1 .. 3
    OBVIOUS
  <2> QED
    BY <1>2, <2>1
<1> QED
  BY <1>3, <1>5, <1>6, <1>7, <1>8

\* The index agrees with the whole log: the inductive form of TimerIndexAgrees, on every
\* instant and not only on those of the clock.
IndexInv == IndexOf(log, Len(log), timers)

\* The index of one log is the index of any log with the same events.
LEMMA IndexSame ==
  ASSUME NEW l, NEW g, NEW k \in Nat, NEW tm, \A n \in 1 .. k : g[n] = l[n], IndexOf(l, k, tm)
  PROVE  IndexOf(g, k, tm)
<1>1. ASSUME NEW t, NEW at
      PROVE  ArmedAt(g, k, t, at) <=> ArmedAt(l, k, t, at)
  <2>1. \A n \in 1 .. k : \A m \in n + 1 .. k : m \in 1 .. k
    OBVIOUS
  <2> QED
    BY <2>1 DEF ArmedAt
<1> QED
  BY <1>1 DEF IndexOf

\* Every step keeps it.
LEMMA IndexInvStep ==
  ASSUME TypeOK, IndexInv, [Next]_vars
  PROVE  IndexInv'
<1>1. ASSUME UNCHANGED <<log, timers>>
      PROVE  IndexInv'
  BY <1>1 DEF IndexInv, IndexOf, ArmedAt, Undoes
<1>2. CASE UNCHANGED vars \/ Tick \/ EnqueueFromOutside
  BY <1>1, <1>2 DEF vars, Tick, storeVars, EnqueueFromOutside, Enqueue
<1>3. ASSUME NEW h \in Host, HostStep(h)
      PROVE  IndexInv'
  <2>1. CASE FireDueTimer(h) \/ AcquireRead(h) \/ AcquireCas(h)
    BY <1>1, <2>1 DEF FireDueTimer, Enqueue, AcquireRead, AcquireCas, Forget, storeVars
  <2>2. CASE Load(h) \/ NextInput(h) \/ CountPoisonRead(h) \/ CountPoison(h) \/ ConsumePoisonRead(h)
    BY <1>1, <2>2 DEF Load, NextInput, CountPoisonRead, CountPoison, ConsumePoisonRead, storeVars
  <2>3. CASE CommitInput(h) \/ ConsumePoison(h)
    <3>1. ASSUME NEW i \in Input, IsRefused(h, i)
          PROVE  IndexInv'
      BY <1>1, <3>1 DEF IsRefused
    <3>2. ASSUME NEW i \in Input, NEW evs \in Seq(Event), Appends(h, evs, i)
          PROVE  IndexInv'
      <4>1. /\ Len(log') = Len(log) + Len(evs) /\ Len(log) \in Nat /\ Len(evs) \in 1 .. 3
            /\ \A n \in 1 .. Len(log) : log'[n] = log[n]
            /\ \A n \in 1 .. Len(evs) : log'[Len(log) + n] = evs[n]
        BY <3>2, AppendedLog
      <4>2. /\ timers' = TimersAfter(timers, evs) /\ timers \in [Timer -> Nat \cup {Off}]
            /\ \A n \in 1 .. Len(evs) : evs[n] \in Event
        BY <3>2, SMTT(30) DEF Appends, ApplyAppend, TypeOK
      <4>3. IndexOf(log', Len(log), timers)
        BY <4>1, IndexSame DEF IndexInv
      <4>4. PICK j \in 1 .. 3 : j = Len(evs)
        BY <4>1
      <4>5. IndexOf(log', Len(log) + j, TimersAfter(timers, evs))
        BY <4>1, <4>2, <4>3, <4>4, IndexAfterAppend
      <4>6. IndexOf(log', Len(log'), timers')
        BY <4>1, <4>2, <4>4, <4>5
      <4> QED
        BY <4>6 DEF IndexInv
    <3> QED
      BY <2>3, <3>1, <3>2, FoldStep
  <2> QED
    BY <1>3, <2>1, <2>2, <2>3 DEF HostStep
<1> QED
  BY <1>2, <1>3 DEF Next

\* For any log the incremental index says what the whole log implies: a timer is armed for
\* the instant of its last set that nothing undid, and for none otherwise (timers.rs apply).
THEOREM TimerIndexNeverDisagrees == Spec => []TimerIndexAgrees
<1>1. Init => IndexInv
  BY DEF Init, IndexInv, IndexOf, ArmedAt, Off
<1>2. TypeOK /\ IndexInv /\ [Next]_vars => IndexInv'
  BY IndexInvStep
<1>3. TypeOK /\ IndexInv => TimerIndexAgrees
  <2> SUFFICES ASSUME TypeOK, IndexInv PROVE TimerIndexAgrees
    OBVIOUS
  <2>1. \A t \in Timer : timers[t] # Off => timers[t] \in Nat
    BY DEF TypeOK
  <2>2. \A t \in Timer : \A at \in Nat : ArmedByLog(t, at) <=> timers[t] = at
    BY DEF IndexInv, IndexOf, ArmedAt, ArmedByLog
  <2>3. \A at \in 0 .. MaxTime + 1 : at \in Nat /\ at # Off
    BY DEF Off
  <2> QED
    BY <2>1, <2>2, <2>3 DEF TimerIndexAgrees
<1> QED
  BY <1>1, <1>2, <1>3, TypeCorrect, PTL DEF Spec

-----------------------------------------------------------------------------
(* The end of the run.                                                     *)

\* A step that leaves log and row alone keeps FinishedIsFinal.
LEMMA FinalStays ==
  ASSUME FinishedIsFinal, log' = log, row' = row \/ (row # "finished" /\ row' # "finished")
  PROVE  FinishedIsFinal'
BY DEF FinishedIsFinal

\* An append that passed its sequence check was decided on the whole log.
LEMMA AppendKeepsFinal ==
  ASSUME TypeOK, FinishedIsFinal, NEW h \in Host, NEW i \in Input, NEW evs \in Seq(Event),
         Appends(h, evs, i)
  PROVE  FinishedIsFinal'
<1> DEFINE Ended == \E n \in 1 .. Len(log) : log[n].kind = "finished"
<1>1. /\ Len(log') = Len(log) + Len(evs) /\ Len(log) \in Nat /\ Len(evs) \in 1 .. 3
      /\ \A n \in 1 .. Len(log) : n \in 1 .. Len(log') /\ log'[n] = log[n]
      /\ \A n \in 1 .. Len(evs) : Len(log) + n \in 1 .. Len(log') /\ log'[Len(log) + n] = evs[n]
      /\ \A n \in 1 .. Len(log') :
           \/ n \in 1 .. Len(log) /\ log'[n] = log[n]
           \/ n > Len(log) /\ n - Len(log) \in 1 .. Len(evs) /\ log'[n] = evs[n - Len(log)]
  BY AppendedLog
<1>2. cache[h] = Len(log)
  BY DEF Appends, AppendResult
<1>3. Ended <=> Final(h)
  BY <1>1, <1>2 DEF Final
<1>4. Says(evs, Ended)
  BY <1>3 DEF Appends, Says
<1>5. ASSUME NEW m \in 1 .. Len(log'), NEW n \in 1 .. Len(log'), m < n, log'[m].kind = "finished"
      PROVE  log'[n].kind \in Quiet
  <2>1. CASE m \in 1 .. Len(log) /\ n \in 1 .. Len(log)
    BY <1>1, <1>5, <2>1 DEF FinishedIsFinal, Quiet
  <2>2. CASE m \in 1 .. Len(log) /\ n > Len(log)
    <3>1. Ended
      BY <1>1, <1>5, <2>2
    <3> QED
      BY <1>1, <1>4, <2>2, <3>1 DEF Says
  <2>3. CASE m > Len(log) /\ n > Len(log)
    <3>1. /\ m - Len(log) \in 1 .. Len(evs) /\ log'[m] = evs[m - Len(log)]
          /\ n - Len(log) \in 1 .. Len(evs) /\ m - Len(log) < n - Len(log)
      BY <1>1, <1>5, <2>3
    <3> QED
      BY <1>4, <1>5, <3>1 DEF Says
  <2> QED
    BY <1>1, <1>5, <2>1, <2>2, <2>3
<1>6. (\E n \in 1 .. Len(log') : log'[n].kind = "finished") <=> Ended \/ Finishes(evs)
  <2>1. ASSUME NEW n \in 1 .. Len(log'), log'[n].kind = "finished" PROVE Ended \/ Finishes(evs)
    <3>1. \/ n \in 1 .. Len(log) /\ log'[n] = log[n]
          \/ n - Len(log) \in 1 .. Len(evs) /\ log'[n] = evs[n - Len(log)]
      BY <1>1
    <3> QED
      BY <2>1, <3>1 DEF Finishes
  <2>2. Ended => \E n \in 1 .. Len(log') : log'[n].kind = "finished"
    BY <1>1
  <2>3. ASSUME Finishes(evs) PROVE \E n \in 1 .. Len(log') : log'[n].kind = "finished"
    <3>1. PICK m \in 1 .. Len(evs) : evs[m].kind = "finished"
      BY <2>3 DEF Finishes
    <3>2. Len(log) + m \in 1 .. Len(log') /\ log'[Len(log) + m] = evs[m]
      BY <1>1
    <3> QED
      BY <3>1, <3>2
  <2> QED
    BY <2>1, <2>2, <2>3
<1>7. row' = "finished" <=> row = "finished" \/ Finishes(evs)
  BY DEF Appends, ApplyAppend
<1>8. row = "finished" <=> Ended
  BY DEF FinishedIsFinal
<1> QED
  BY <1>5, <1>6, <1>7, <1>8 DEF FinishedIsFinal, Quiet

\* Every step keeps it.
LEMMA FinalStep ==
  ASSUME TypeOK, FinishedIsFinal, [Next]_vars
  PROVE  FinishedIsFinal'
<1>1. CASE UNCHANGED vars \/ Tick \/ EnqueueFromOutside
  BY <1>1, FinalStays DEF vars, Tick, storeVars, EnqueueFromOutside, Enqueue
<1>2. ASSUME NEW h \in Host, HostStep(h)
      PROVE  FinishedIsFinal'
  <2>1. CASE FireDueTimer(h) \/ AcquireRead(h) \/ AcquireCas(h)
    BY <2>1, FinalStays DEF FireDueTimer, Enqueue, AcquireRead, AcquireCas, Forget, storeVars
  <2>2. CASE Load(h) \/ NextInput(h) \/ CountPoisonRead(h) \/ CountPoison(h) \/ ConsumePoisonRead(h)
    BY <2>2, FinalStays DEF Load, NextInput, CountPoisonRead, CountPoison, ConsumePoisonRead, storeVars
  <2>3. CASE CommitInput(h) \/ ConsumePoison(h)
    <3>1. ASSUME NEW i \in Input, IsRefused(h, i)
          PROVE  FinishedIsFinal'
      BY <3>1, FinalStays DEF IsRefused
    <3> QED
      BY <2>3, <3>1, FoldStep, AppendKeepsFinal
  <2> QED
    BY <1>2, <2>1, <2>2, <2>3 DEF HostStep
<1> QED
  BY <1>1, <1>2 DEF Next

-----------------------------------------------------------------------------
(* The order of the inputs.                                                *)

\* Input i was accepted before input j.
Before(acc, i, j) ==
  \A a, b \in 1 .. Len(acc) : acc[a] = i /\ acc[b] = j => a < b

\* An input that folds is accepted once; one that panics may come again once its parked
\* event has taken its row away, and is never logged as an input.
AcceptedOnce ==
  /\ \A n \in 1 .. Len(log) :
       /\ log[n].part = "input" => log[n].in \notin Bad
       /\ log[n].part = "poison" => log[n].in \in Bad
  /\ \A a, b \in 1 .. Len(accepted) : accepted[a] = accepted[b] /\ accepted[a] \notin Bad => a = b

\* The log, then the inbox, hold the inputs in the order of their acceptance.
InOrderOfAcceptance ==
  /\ \A m, n \in 1 .. Len(log) :
       m < n /\ log[m].part = "input" /\ log[n].part = "input" => Before(accepted, log[m].in, log[n].in)
  /\ \A m \in 1 .. Len(log), n \in 1 .. Len(inbox) :
       log[m].part = "input" /\ inbox[n] \notin Bad => Before(accepted, log[m].in, inbox[n])
  /\ \A m, n \in 1 .. Len(inbox) :
       m < n /\ inbox[m] \notin Bad /\ inbox[n] \notin Bad => Before(accepted, inbox[m], inbox[n])

\* The input a host read is still the oldest row, or another owner has folded it since.
HeadIsHead ==
  \A h \in Host :
    /\ step[h].pc = "input" /\ step[h].in \notin Bad =>
         Logged(step[h].in, "input") \/ (Len(inbox) > 0 /\ inbox[1] = step[h].in)
    /\ step[h].pc \in {"count", "consume"} => step[h].in \in Bad

\* LogInOrder made inductive.
OrderInv == AcceptedOnce /\ InOrderOfAcceptance /\ HeadIsHead /\ FinishedIsFinal

\* w has rows of s in their order, and the oldest one unless that is i.
RowsInOrder(s, w, i) ==
  /\ \A m, n \in 1 .. Len(w) :
       m < n => \E j, k \in 1 .. Len(s) : j < k /\ w[m] = s[j] /\ w[n] = s[k]
  /\ Len(s) > 0 /\ s[1] # i => Len(w) > 0 /\ w[1] = s[1]

\* Deleting a row keeps the order of the others, and the oldest one where it is.
LEMMA WithoutOrder ==
  ASSUME NEW S, NEW s \in Seq(S), NEW i
  PROVE  RowsInOrder(s, Without(s, i), i)
<1> DEFINE w == Without(s, i)
<1>1. CASE ~\E n \in 1 .. Len(s) : s[n] = i
  <2>1. w = s
    BY <1>1 DEF Without
  <2> QED
    BY <2>1 DEF RowsInOrder
<1>2. CASE \E n \in 1 .. Len(s) : s[n] = i
  <2> DEFINE n == CHOOSE n \in 1 .. Len(s) : s[n] = i
             at(m) == IF m < n THEN m ELSE m + 1
             v == [m \in 1 .. Len(s) - 1 |-> IF m < n THEN s[m] ELSE s[m + 1]]
  <2>1. n \in 1 .. Len(s) /\ s[n] = i
    BY <1>2
  <2>2. Without(s, i) = v
    BY <1>2 DEF Without
  <2> HIDE DEF n
  <2>3. Len(s) \in Nat /\ Len(s) - 1 \in Nat
    BY <2>1
  <2>4. v \in Seq(S) /\ Len(v) = Len(s) - 1
    <3>1. \A m \in 1 .. Len(s) - 1 : v[m] \in S
      BY <2>1, <2>3
    <3>2. v \in [1 .. Len(s) - 1 -> S]
      BY <3>1
    <3> QED
      BY <2>3, <3>2
  <2>5. \A m \in 1 .. Len(v) : at(m) \in 1 .. Len(s) /\ v[m] = s[at(m)]
    BY <2>1, <2>3, <2>4
  <2>6. \A m, k \in 1 .. Len(v) : m < k => at(m) < at(k)
    BY <2>1, <2>3, <2>4
  <2>7. ASSUME Len(s) > 0, s[1] # i
        PROVE  Len(v) > 0 /\ v[1] = s[1]
    <3>1. n # 1 /\ 1 < n /\ Len(s) - 1 >= 1
      BY <2>1, <2>3, <2>7
    <3>2. 1 \in 1 .. Len(v) /\ at(1) = 1
      BY <2>3, <2>4, <3>1
    <3> QED
      BY <2>4, <2>5, <3>1, <3>2
  <2> HIDE DEF v, at
  <2>8. \A m, k \in 1 .. Len(v) : m < k => \E a, b \in 1 .. Len(s) : a < b /\ v[m] = s[a] /\ v[k] = s[b]
    BY <2>5, <2>6
  <2> QED
    BY <2>2, <2>7, <2>8 DEF RowsInOrder
<1> QED
  BY <1>1, <1>2

\* Acceptance of a new input, and of nothing else, leaves the order of the earlier ones.
LEMMA BeforeGrows ==
  ASSUME NEW acc \in Seq(Input), NEW x \in Input, NEW i, NEW j, Before(acc, i, j), i # x,
         j # x \/ \A a \in 1 .. Len(acc) : acc[a] # x
  PROVE  Before(Append(acc, x), i, j)
<1> DEFINE g == Append(acc, x)
<1>1. /\ Len(g) = Len(acc) + 1 /\ Len(acc) \in Nat /\ g[Len(acc) + 1] = x
      /\ \A n \in 1 .. Len(acc) : g[n] = acc[n]
  OBVIOUS
<1> HIDE DEF g
<1>2. ASSUME NEW a \in 1 .. Len(g), NEW b \in 1 .. Len(g), g[a] = i, g[b] = j
      PROVE  a < b
  <2>1. a \in 1 .. Len(acc) /\ acc[a] = i
    BY <1>1, <1>2
  <2>2. b \in 1 .. Len(acc) => acc[b] = j
    BY <1>1, <1>2
  <2>3. b \in 1 .. Len(acc) \/ b = Len(acc) + 1
    BY <1>1
  <2>4. b = Len(acc) + 1 => a < b
    BY <1>1, <2>1
  <2> QED
    BY <2>1, <2>2, <2>3, <2>4 DEF Before
<1>3. Before(g, i, j)
  BY <1>2 DEF Before
<1> QED
  BY <1>3 DEF g

\* HeadIsHead after a step, host by host.
LEMMA HeadNext ==
  ASSUME \A g \in Host :
           /\ step'[g].pc = "input" /\ step'[g].in \notin Bad =>
                LoggedNext(step'[g].in, "input") \/ (Len(inbox') > 0 /\ inbox'[1] = step'[g].in)
           /\ step'[g].pc \in {"count", "consume"} => step'[g].in \in Bad
  PROVE  HeadIsHead'
BY DEF HeadIsHead, Logged, LoggedNext

\* A new input joins behind all the others (append.rs enqueue).
LEMMA EnqueueKeepsOrder ==
  ASSUME TypeOK, FoldInv, AcceptedOnce, InOrderOfAcceptance, HeadIsHead, NEW i \in Input, NEW v \in Nat, Enqueue(i, v)
  PROVE  AcceptedOnce' /\ InOrderOfAcceptance' /\ HeadIsHead'
<1>1. /\ log' = log /\ inbox' = Append(inbox, i) /\ accepted' = Append(accepted, i) /\ step' = step
      /\ ~Waiting(i) /\ ~Logged(i, "input")
      /\ inbox \in Seq(Input) /\ accepted \in Seq(Input)
  BY DEF Enqueue, EnqueueAccepts, TypeOK, hostVars
<1>2. /\ Len(inbox') = Len(inbox) + 1 /\ inbox'[Len(inbox) + 1] = i /\ Len(inbox) \in Nat
      /\ \A n \in 1 .. Len(inbox) : inbox'[n] = inbox[n]
  BY <1>1
<1>3. /\ Len(accepted') = Len(accepted) + 1 /\ accepted'[Len(accepted) + 1] = i /\ Len(accepted) \in Nat
      /\ \A n \in 1 .. Len(accepted) : accepted'[n] = accepted[n]
  BY <1>1
<1>4. i \notin Bad => \A a \in 1 .. Len(accepted) : accepted[a] # i
  <2> SUFFICES ASSUME i \notin Bad, NEW a \in 1 .. Len(accepted), accepted[a] = i PROVE FALSE
    OBVIOUS
  <2>1. Logged(i, "poison")
    BY <1>1 DEF FoldInv, NothingLost
  <2> QED
    BY <2>1 DEF Logged, AcceptedOnce
<1>5. AcceptedOnce'
  <2>1. ASSUME NEW a \in 1 .. Len(accepted'), NEW b \in 1 .. Len(accepted'),
               accepted'[a] = accepted'[b], accepted'[a] \notin Bad
        PROVE  a = b
    <3>1. /\ a \in 1 .. Len(accepted) \/ a = Len(accepted) + 1
          /\ b \in 1 .. Len(accepted) \/ b = Len(accepted) + 1
      BY <1>3
    <3> QED
      BY <1>3, <1>4, <2>1, <3>1 DEF AcceptedOnce
  <2> QED
    BY <1>1, <2>1 DEF AcceptedOnce
<1>6. \A j \in Input, k \in Input : Before(accepted, j, k) /\ j # i /\ (k # i \/ i \notin Bad) => Before(accepted', j, k)
  BY <1>1, <1>4, BeforeGrows
<1>7. \A j \in Input : j # i /\ i \notin Bad => Before(accepted', j, i)
  <2>1. i \notin Bad => \A j \in Input : Before(accepted, j, i)
    BY <1>4 DEF Before
  <2> QED
    BY <1>6, <2>1
<1>8. InOrderOfAcceptance'
  <2>0. /\ log \in Seq(Event)
        /\ \A n \in 1 .. Len(log) : log[n].in \in Input /\ (log[n].part = "input" => log[n].in # i)
    <3>1. log \in Seq(Event)
      BY DEF TypeOK
    <3>2. \A n \in 1 .. Len(log) : log[n] \in Event
      BY <3>1
    <3> QED
      BY <1>1, <3>1, <3>2 DEF Logged, Event
  <2>a. \A n \in 1 .. Len(inbox) : inbox[n] \in Input /\ inbox[n] # i
    BY <1>1 DEF Waiting
  <2>1. ASSUME NEW m \in 1 .. Len(log), NEW n \in 1 .. Len(log), m < n,
               log[m].part = "input", log[n].part = "input"
        PROVE  Before(accepted', log[m].in, log[n].in)
    BY <1>6, <2>0, <2>1 DEF InOrderOfAcceptance
  <2>2. ASSUME NEW m \in 1 .. Len(log), NEW n \in 1 .. Len(inbox'), log[m].part = "input", inbox'[n] \notin Bad
        PROVE  Before(accepted', log[m].in, inbox'[n])
    <3>1. CASE n \in 1 .. Len(inbox)
      BY <1>2, <1>6, <2>0, <2>a, <2>2, <3>1 DEF InOrderOfAcceptance
    <3>2. CASE n = Len(inbox) + 1
      BY <1>2, <1>7, <2>0, <2>2, <3>2
    <3> QED
      BY <1>2, <3>1, <3>2
  <2>3. ASSUME NEW m \in 1 .. Len(inbox'), NEW n \in 1 .. Len(inbox'), m < n,
               inbox'[m] \notin Bad, inbox'[n] \notin Bad
        PROVE  Before(accepted', inbox'[m], inbox'[n])
    <3>0. m \in 1 .. Len(inbox)
      BY <1>2, <2>3
    <3>1. CASE n \in 1 .. Len(inbox)
      BY <1>2, <1>6, <2>a, <2>3, <3>0, <3>1 DEF InOrderOfAcceptance
    <3>2. CASE n = Len(inbox) + 1
      BY <1>2, <1>7, <2>a, <2>3, <3>0, <3>2
    <3> QED
      BY <1>2, <3>1, <3>2
  <2> QED
    BY <1>1, <2>1, <2>2, <2>3 DEF InOrderOfAcceptance
<1>9. HeadIsHead'
  <2>1. \A j, part : LoggedNext(j, part) <=> Logged(j, part)
    BY <1>1 DEF Logged, LoggedNext
  <2>2. Len(inbox) > 0 => Len(inbox') > 0 /\ inbox'[1] = inbox[1]
    BY <1>2
  <2> QED
    BY <1>1, <2>1, <2>2, HeadNext DEF HeadIsHead
<1> QED
  BY <1>5, <1>8, <1>9

\* A refusal takes away at most the row of an input the log accounts for.
LEMMA RefusedKeepsOrder ==
  ASSUME TypeOK, FoldInv, AcceptedOnce, InOrderOfAcceptance, HeadIsHead, NEW h \in Host, NEW i \in Input,
         IsRefused(h, i), accepted' = accepted
  PROVE  AcceptedOnce' /\ InOrderOfAcceptance' /\ HeadIsHead'
<1>1. /\ log' = log /\ step' = [step EXCEPT ![h] = Idle] /\ inbox \in Seq(Input)
      /\ step \in [Host -> StepType]
      /\ inbox' = inbox \/ (inbox' = Without(inbox, i) /\ \E part \in Part : Logged(i, part))
  BY DEF IsRefused, TypeOK
<1>2. AcceptedOnce'
  BY <1>1 DEF AcceptedOnce
<1>3. \A j, part : LoggedNext(j, part) <=> Logged(j, part)
  BY <1>1 DEF Logged, LoggedNext
<1>4. inbox' = inbox \/ i \in Bad \/ Logged(i, "input")
  <2>1. \A part \in Part : Logged(i, part) => i \in Bad \/ Logged(i, "input")
    BY DEF FoldInv, Logged, AcceptedOnce, Part
  <2> QED
    BY <1>1, <2>1
<1>5. /\ \A m \in 1 .. Len(inbox') : \E k \in 1 .. Len(inbox) : inbox'[m] = inbox[k]
      /\ \A m, n \in 1 .. Len(inbox') :
           m < n => \E j, k \in 1 .. Len(inbox) : j < k /\ inbox'[m] = inbox[j] /\ inbox'[n] = inbox[k]
      /\ Len(inbox) > 0 /\ (inbox' = inbox \/ inbox[1] # i) => Len(inbox') > 0 /\ inbox'[1] = inbox[1]
  <2>1. CASE inbox' = inbox
    BY <2>1
  <2>2. CASE inbox' # inbox
    <3>1. inbox \in Seq(Input) /\ inbox' = Without(inbox, i)
      BY <1>1, <2>2
    <3>2. \A m \in 1 .. Len(inbox') : \E k \in 1 .. Len(inbox) : inbox'[m] = inbox[k]
      BY <3>1, WithoutRows
    <3>3. /\ \A m, n \in 1 .. Len(inbox') :
               m < n => \E j, k \in 1 .. Len(inbox) : j < k /\ inbox'[m] = inbox[j] /\ inbox'[n] = inbox[k]
          /\ Len(inbox) > 0 /\ inbox[1] # i => Len(inbox') > 0 /\ inbox'[1] = inbox[1]
      <4>1. RowsInOrder(inbox, inbox', i)
        BY <3>1, WithoutOrder
      <4> QED
        BY <4>1 DEF RowsInOrder
    <3> QED
      BY <2>2, <3>2, <3>3
  <2> QED
    BY <2>1, <2>2
<1>6. InOrderOfAcceptance'
  <2>1. ASSUME NEW m \in 1 .. Len(log), NEW n \in 1 .. Len(inbox'), log[m].part = "input", inbox'[n] \notin Bad
        PROVE  Before(accepted, log[m].in, inbox'[n])
    BY <1>5, <2>1 DEF InOrderOfAcceptance
  <2>2. ASSUME NEW m \in 1 .. Len(inbox'), NEW n \in 1 .. Len(inbox'), m < n,
               inbox'[m] \notin Bad, inbox'[n] \notin Bad
        PROVE  Before(accepted, inbox'[m], inbox'[n])
    BY <1>5, <2>2 DEF InOrderOfAcceptance
  <2> QED
    BY <1>1, <2>1, <2>2 DEF InOrderOfAcceptance
<1>7. ASSUME NEW g \in Host
      PROVE  /\ step'[g].pc = "input" /\ step'[g].in \notin Bad =>
                  LoggedNext(step'[g].in, "input") \/ (Len(inbox') > 0 /\ inbox'[1] = step'[g].in)
             /\ step'[g].pc \in {"count", "consume"} => step'[g].in \in Bad
  <2>1. CASE g = h
    BY <1>1, <2>1 DEF Idle
  <2>2. CASE g # h
    BY <1>1, <1>3, <1>4, <1>5, <2>2 DEF HeadIsHead
  <2> QED
    BY <2>1, <2>2
<1> QED
  BY <1>2, <1>6, <1>7, HeadNext

\* An append that passed folds the oldest row: had another owner folded it, its key would
\* have been refused as a duplicate.
LEMMA AppendKeepsOrder ==
  ASSUME TypeOK, FoldInv, AcceptedOnce, InOrderOfAcceptance, HeadIsHead, NEW h \in Host, NEW i \in Input,
         NEW evs \in Seq(Event), Appends(h, evs, i), accepted' = accepted
  PROVE  AcceptedOnce' /\ InOrderOfAcceptance' /\ HeadIsHead'
<1>1. /\ Len(log') = Len(log) + Len(evs) /\ Len(log) \in Nat /\ Len(evs) \in 1 .. 3
      /\ \A n \in 1 .. Len(log) : n \in 1 .. Len(log') /\ log'[n] = log[n]
      /\ \A n \in 1 .. Len(evs) : Len(log) + n \in 1 .. Len(log') /\ log'[Len(log) + n] = evs[n]
      /\ \A n \in 1 .. Len(log') :
           \/ n \in 1 .. Len(log) /\ log'[n] = log[n]
           \/ n > Len(log) /\ n - Len(log) \in 1 .. Len(evs) /\ log'[n] = evs[n - Len(log)]
  BY AppendedLog
<1>2. /\ inbox' = Without(inbox, i) /\ inbox \in Seq(Input) /\ step \in [Host -> StepType]
      /\ step' = [step EXCEPT ![h] = Idle] /\ i = step[h].in
      /\ \/ step[h].pc = "input" /\ evs[1].part = "input" /\ i \notin Bad
         \/ step[h].pc = "consume" /\ evs[1].part = "poison"
      /\ \A n \in 1 .. Len(evs) : evs[n].in = i
      /\ \A n \in 2 .. Len(evs) : evs[n].part \in {"decision1", "decision2"}
  BY DEF Appends, ApplyAppend, Batch, TypeOK
<1>3. evs[1].part = "poison" => i \in Bad
  BY <1>2 DEF HeadIsHead
<1>a. 1 \in 1 .. Len(evs)
  BY <1>1, SMTT(30)
<1>4. evs[1].part = "input" => i \notin Bad /\ Len(inbox) > 0 /\ inbox[1] = i /\ ~Logged(i, "input")
  <2>2. ~Logged(i, evs[1].part)
    BY <1>2, <1>a DEF Appends, AppendResult
  <2> QED
    BY <1>2, <2>2 DEF HeadIsHead
\* Only the first event of the batch is about the input itself.
<1>5. ASSUME NEW n \in 1 .. Len(log'), ~(n \in 1 .. Len(log)), log'[n].part \in {"input", "poison"}
      PROVE  n = Len(log) + 1 /\ log'[n].in = i /\ log'[n].part = evs[1].part
  <2>1. n - Len(log) \in 1 .. Len(evs) /\ log'[n] = evs[n - Len(log)] /\ n > Len(log)
    BY <1>1, <1>5
  <2>2. ~(n - Len(log) \in 2 .. Len(evs))
    BY <1>2, <1>5, <2>1
  <2>3. n - Len(log) = 1 /\ n = Len(log) + 1
    BY <1>1, <2>1, <2>2
  <2> QED
    BY <1>2, <2>1, <2>3
<1>6. AcceptedOnce'
  <2>1. ASSUME NEW n \in 1 .. Len(log')
        PROVE  /\ log'[n].part = "input" => log'[n].in \notin Bad
               /\ log'[n].part = "poison" => log'[n].in \in Bad
    <3>1. CASE n \in 1 .. Len(log)
      BY <1>1, <3>1 DEF AcceptedOnce
    <3>2. CASE ~(n \in 1 .. Len(log))
      BY <1>3, <1>4, <1>5, <3>2
    <3> QED
      BY <3>1, <3>2
  <2> QED
    BY <2>1 DEF AcceptedOnce
<1>7. /\ \A m \in 1 .. Len(inbox') : \E k \in 1 .. Len(inbox) : inbox'[m] = inbox[k] /\ inbox[k] # i
      /\ \A m, n \in 1 .. Len(inbox') :
           m < n => \E j, k \in 1 .. Len(inbox) : j < k /\ inbox'[m] = inbox[j] /\ inbox'[n] = inbox[k]
      /\ Len(inbox) > 0 /\ inbox[1] # i => Len(inbox') > 0 /\ inbox'[1] = inbox[1]
  <2>1. \A j, k \in 1 .. Len(inbox) : inbox[j] = inbox[k] => j = k
    BY DEF FoldInv, FoldedOnce
  <2>2. /\ \A m \in 1 .. Len(inbox') : \E k \in 1 .. Len(inbox) : inbox'[m] = inbox[k]
        /\ \A m \in 1 .. Len(inbox') : inbox'[m] # i
    <3>1. inbox \in Seq(Input) /\ inbox' = Without(inbox, i)
      BY <1>2
    <3> DEFINE w == Without(inbox, i)
    <3>2. \A m \in 1 .. Len(w) : \E k \in 1 .. Len(inbox) : w[m] = inbox[k]
      BY <3>1, WithoutRows
    <3>3. \A m \in 1 .. Len(w) : w[m] # i
      BY <2>1, <3>1, WithoutRows
    <3> QED
      BY <3>1, <3>2, <3>3
  <2>3. /\ \A m, n \in 1 .. Len(inbox') :
             m < n => \E j, k \in 1 .. Len(inbox) : j < k /\ inbox'[m] = inbox[j] /\ inbox'[n] = inbox[k]
        /\ Len(inbox) > 0 /\ inbox[1] # i => Len(inbox') > 0 /\ inbox'[1] = inbox[1]
    <3>1. inbox \in Seq(Input) /\ inbox' = Without(inbox, i)
      BY <1>2
    <3> QED
      <4>1. RowsInOrder(inbox, inbox', i)
        BY <3>1, WithoutOrder
      <4> QED
        BY <4>1 DEF RowsInOrder
  <2>4. \A m \in 1 .. Len(inbox') : \E k \in 1 .. Len(inbox) : inbox'[m] = inbox[k] /\ inbox[k] # i
    BY <2>2
  <2> QED
    BY <2>3, <2>4
<1>8. InOrderOfAcceptance'
  <2>1. ASSUME NEW m \in 1 .. Len(log'), NEW n \in 1 .. Len(log'), m < n,
               log'[m].part = "input", log'[n].part = "input"
        PROVE  Before(accepted, log'[m].in, log'[n].in)
    <3>1. CASE n \in 1 .. Len(log)
      <4>1. m \in 1 .. Len(log)
        BY <1>1, <2>1, <3>1
      <4> QED
        BY <1>1, <2>1, <3>1, <4>1 DEF InOrderOfAcceptance
    <3>2. CASE ~(n \in 1 .. Len(log))
      <4>1. n = Len(log) + 1 /\ log'[n].in = i /\ i \notin Bad /\ Len(inbox) > 0 /\ inbox[1] = i
        BY <1>4, <1>5, <2>1, <3>2
      <4>2. m \in 1 .. Len(log) /\ 1 \in 1 .. Len(inbox)
        BY <1>1, <1>2, <2>1, <4>1
      <4> QED
        BY <1>1, <2>1, <4>1, <4>2, SMTT(90) DEF InOrderOfAcceptance
    <3> QED
      BY <3>1, <3>2
  <2>2. ASSUME NEW m \in 1 .. Len(log'), NEW n \in 1 .. Len(inbox'), log'[m].part = "input", inbox'[n] \notin Bad
        PROVE  Before(accepted, log'[m].in, inbox'[n])
    <3>0. PICK k \in 1 .. Len(inbox) : inbox'[n] = inbox[k] /\ inbox[k] # i
      BY <1>7
    <3>1. CASE m \in 1 .. Len(log)
      BY <1>1, <2>2, <3>0, <3>1 DEF InOrderOfAcceptance
    <3>2. CASE ~(m \in 1 .. Len(log))
      <4>1. log'[m].in = i /\ i \notin Bad /\ Len(inbox) > 0 /\ inbox[1] = i
        BY <1>4, <1>5, <2>2, <3>2
      <4>2. 1 \in 1 .. Len(inbox) /\ 1 < k
        BY <1>2, <3>0, <4>1
      <4> QED
        BY <2>2, <3>0, <4>1, <4>2 DEF InOrderOfAcceptance
    <3> QED
      BY <3>1, <3>2
  <2>3. ASSUME NEW m \in 1 .. Len(inbox'), NEW n \in 1 .. Len(inbox'), m < n,
               inbox'[m] \notin Bad, inbox'[n] \notin Bad
        PROVE  Before(accepted, inbox'[m], inbox'[n])
    BY <1>7, <2>3, ZenonT(60) DEF InOrderOfAcceptance
  <2> QED
    BY <2>1, <2>2, <2>3 DEF InOrderOfAcceptance
<1>9. ASSUME NEW g \in Host
      PROVE  /\ step'[g].pc = "input" /\ step'[g].in \notin Bad =>
                  LoggedNext(step'[g].in, "input") \/ (Len(inbox') > 0 /\ inbox'[1] = step'[g].in)
             /\ step'[g].pc \in {"count", "consume"} => step'[g].in \in Bad
  <2>1. CASE g = h
    BY <1>2, <2>1 DEF Idle
  <2>2. CASE g # h
    <3>1. step'[g] = step[g]
      BY <1>2, <2>2
    <3>2. \A j, part : Logged(j, part) => LoggedNext(j, part)
      BY <1>1 DEF Logged, LoggedNext
    <3>3. evs[1].part = "input" => LoggedNext(i, "input")
      <4> QED
        BY <1>1, <1>2, <1>a, SMTT(30) DEF LoggedNext
    <3> QED
      BY <1>2, <1>3, <1>7, <3>1, <3>2, <3>3 DEF HeadIsHead
  <2> QED
    BY <2>1, <2>2
<1> QED
  BY <1>6, <1>8, <1>9, HeadNext

\* A step that leaves log, inbox and history alone, and reads nothing but the oldest row.
LEMMA OrderStays ==
  ASSUME AcceptedOnce, InOrderOfAcceptance, HeadIsHead, NEW h \in Host,
         UNCHANGED <<log, inbox, accepted>>, step \in [Host -> StepType], NEW s,
         step' = step \/ step' = [step EXCEPT ![h] = s],
         \/ s.pc \notin {"input", "count", "consume"}
         \/ s.pc = "input" /\ Len(inbox) > 0 /\ s.in = inbox[1]
         \/ s.pc \in {"count", "consume"} /\ s.in \in Bad
  PROVE  AcceptedOnce' /\ InOrderOfAcceptance' /\ HeadIsHead'
<1>1. AcceptedOnce' /\ InOrderOfAcceptance'
  BY DEF AcceptedOnce, InOrderOfAcceptance
<1>2. \A g \in Host : step'[g] = step[g] \/ step'[g] = s
  OBVIOUS
<1>3. \A j, part : LoggedNext(j, part) <=> Logged(j, part)
  BY DEF Logged, LoggedNext
<1>4. HeadIsHead'
  BY <1>2, <1>3, HeadNext DEF HeadIsHead
<1> QED
  BY <1>1, <1>4

\* Every step keeps LogInOrder's invariant.
LEMMA OrderStep ==
  ASSUME TypeOK, FoldInv, OrderInv, [Next]_vars
  PROVE  OrderInv'
<1> DEFINE Kept == AcceptedOnce' /\ InOrderOfAcceptance' /\ HeadIsHead'
<1>0. /\ FinishedIsFinal' /\ AcceptedOnce /\ InOrderOfAcceptance /\ HeadIsHead
      /\ step \in [Host -> StepType]
  BY FinalStep DEF OrderInv, TypeOK
<1>1. CASE UNCHANGED vars \/ Tick
  <2>1. UNCHANGED <<log, inbox, accepted, step>>
    BY <1>1 DEF vars, Tick, storeVars, hostVars
  <2>2. AcceptedOnce' /\ InOrderOfAcceptance'
    BY <1>0, <2>1 DEF AcceptedOnce, InOrderOfAcceptance
  <2>3. HeadIsHead'
    BY <1>0, <2>1 DEF HeadIsHead, Logged
  <2> QED
    BY <1>0, <2>2, <2>3 DEF OrderInv
<1>2. CASE EnqueueFromOutside
  <2>1. Kept
    BY <1>0, <1>2, EnqueueKeepsOrder, ConstantsAssumption DEF EnqueueFromOutside, Input
  <2> QED
    BY <1>0, <2>1 DEF OrderInv
<1>3. ASSUME NEW h \in Host, HostStep(h)
      PROVE  Kept
  <2> DEFINE Reads(s) ==
        /\ UNCHANGED <<log, inbox, accepted>> /\ (step' = step \/ step' = [step EXCEPT ![h] = s])
        /\ \/ s.pc \notin {"input", "count", "consume"}
           \/ s.pc = "input" /\ Len(inbox) > 0 /\ s.in = inbox[1]
           \/ s.pc \in {"count", "consume"} /\ s.in \in Bad
  <2>a. ASSUME NEW s, Reads(s) PROVE Kept
    BY <1>0, <2>a, OrderStays
  <2>b. step[h] \in StepType
    BY <1>0
  <2>1. CASE FireDueTimer(h)
    <3>1. PICK t \in Timer : timers[t] # Off /\ timers[t] <= now /\ Enqueue([timer |-> t, at |-> timers[t]], Version[h])
      BY <2>1 DEF FireDueTimer
    <3>2. timers[t] \in Nat /\ now \in 0 .. MaxTime
      BY <3>1 DEF TypeOK
    <3>3. [timer |-> t, at |-> timers[t]] \in Input
      BY <3>1, <3>2, ConstantsAssumption DEF Input, Firing
    <3> QED
      BY <1>0, <3>1, <3>3, EnqueueKeepsOrder, ConstantsAssumption
  <2>2. CASE AcquireRead(h)
    <3>1. Reads(Idle) \/ Reads([pc |-> "lease", from |-> lease, to |-> NextLease(lease, h)])
      BY <2>2 DEF AcquireRead, Forget, storeVars, Idle
    <3> HIDE DEF Reads
    <3> QED
      BY <2>a, <3>1
  <2>3. CASE AcquireCas(h) \/ Load(h) \/ CountPoison(h)
    <3>1. Reads(Idle)
      BY <2>3 DEF AcquireCas, Load, CountPoison, Forget, storeVars, Idle
    <3> QED
      BY <2>a, <3>1
  <2>4. CASE NextInput(h)
    <3>1. Reads([pc |-> "input", in |-> Head(inbox)])
      <4>1. Len(inbox) > 0 => Head(inbox) = inbox[1]
        BY DEF TypeOK
      <4> QED
        BY <2>4, <4>1 DEF NextInput, storeVars
    <3> QED
      BY <2>a, <3>1
  <2>5. CASE CountPoisonRead(h)
    <3>1. Reads([pc |-> "count", in |-> step[h].in, count |-> poison[step[h].in]])
      BY <2>5 DEF CountPoisonRead, storeVars
    <3> QED
      BY <2>a, <3>1
  <2>6. CASE ConsumePoisonRead(h)
    <3>1. step[h].in \in Bad
      BY <1>0, <2>6 DEF ConsumePoisonRead, HeadIsHead
    <3>2. Reads([pc |-> "consume", in |-> step[h].in, count |-> poison[step[h].in]])
      BY <2>6, <3>1 DEF ConsumePoisonRead, storeVars
    <3> QED
      BY <2>a, <3>2
  <2>7. CASE CommitInput(h) \/ ConsumePoison(h)
    <3>1. accepted' = accepted
      BY <2>7, FoldStep
    <3>2. ASSUME NEW i \in Input, IsRefused(h, i)
          PROVE  Kept
      BY <1>0, <3>1, <3>2, RefusedKeepsOrder
    <3>3. ASSUME NEW i \in Input, NEW evs \in Seq(Event), Appends(h, evs, i)
          PROVE  Kept
      BY <1>0, <3>1, <3>3, AppendKeepsOrder
    <3> QED
      BY <2>7, <3>2, <3>3, FoldStep
  <2> QED
    BY <1>3, <2>1, <2>2, <2>3, <2>4, <2>5, <2>6, <2>7 DEF HostStep
<1>4. Kept => OrderInv'
  BY <1>0 DEF OrderInv
<1> QED
  BY <1>1, <1>2, <1>3, <1>4 DEF Next

\* For any hosts, however they take the run from each other, the log tells the run in its order:
\* inputs as enqueue accepted them, and no decision behind the end (fold.rs fold_run, append.rs).
THEOREM LogStaysInOrder == Spec => []LogInOrder
<1>1. Init => OrderInv
  BY DEF Init, OrderInv, AcceptedOnce, InOrderOfAcceptance, HeadIsHead, FinishedIsFinal, Idle
<1>2. TypeOK /\ FoldInv /\ OrderInv /\ [Next]_vars => OrderInv'
  BY OrderStep
<1>3. OrderInv => LogInOrder
  BY DEF OrderInv, InOrderOfAcceptance, Before, LogInOrder, FoldedInOrder
<1> QED
  BY <1>1, <1>2, <1>3, TypeCorrect, FoldInvariant, PTL DEF Spec
=============================================================================
