------------------------------- MODULE Relay -------------------------------
(* The relay's DynamoDB op table for one stream (crates/server/src/          *)
(* store_ddb.rs): a push appends its ops one by one, each by rounds of ONE   *)
(* conditional transaction that moves the counter, puts the op's claim,      *)
(* checks the op below and puts the op; readers page through the stream by   *)
(* sequence number.                                                          *)
(*                                                                           *)
(* DynamoDB itself is external: transactions are serializable against each   *)
(* other, an item that one is still writing cancels another that names it,   *)
(* and a Query is only read-committed, so the items of a transaction that    *)
(* was accepted appear to it one at a time, in any order.                    *)
(*                                                                           *)
(* CONTENTION_ROUNDS and the push deadline both end a push from outside and  *)
(* are the one action CutShort.  ClaimVanished has no behaviour: nothing     *)
(* deletes a claim.  Only the sequence of a page is kept: read_since takes   *)
(* the next visible op, however the pages fall.                              *)
EXTENDS Integers, FiniteSets, Sequences, FiniteSetsExt, SequencesExt

CONSTANTS
    Relays,       \* processes that may serve pushes of this stream
    Ops,          \* the ops clients push
    Batches,      \* the pushes they make: sequences of ops
    Old,          \* the op of an earlier build, stored without a claim
    None,
    Settings      \* Settings[n]: the table a stream starts with, and what happens to it

VARIABLE given    \* the setting of this stream

Serving == Settings[given].relays            \* the relays that run
Pushed == Settings[given].batches            \* the pushes that are made
Collide == Settings[given].collide           \* ops whose ids hash to one claim key
Start == Settings[given].start               \* the table an earlier build left: counter, occupied, burned
MaxSeq == Settings[given].max_seq            \* i64::MAX
Attempts == Settings[given].attempts         \* APPEND_ATTEMPTS
MaxPushes == Settings[given].max_pushes      \* bound on pushes
MaxCuts == Settings[given].max_cuts          \* bound on pushes cut short
MaxRetries == Settings[given].max_retries    \* bound on answers lost and retried by the SDK
MaxThrottles == Settings[given].max_throttles  \* bound on throttled rounds

ASSUME SettingsAssumption ==
    \A n \in DOMAIN Settings :
        LET s == Settings[n]
        IN /\ s.relays \subseteq Relays /\ s.batches \subseteq Batches /\ s.collide \subseteq Ops
           /\ s.max_seq \in Nat /\ s.attempts \in Nat \ {0} /\ s.start.counter \in 0..s.max_seq
           /\ s.start.occupied \cup s.start.burned \subseteq 1..s.max_seq
ASSUME OpAssumption == Old \notin Ops /\ None \notin Ops \cup {Old}
ASSUME BatchAssumption == \A b \in Batches : b \in Seq(Ops) /\ Len(b) > 0

VARIABLES
    counter,  \* next_seq, 0 while the stream has none
    ops,      \* the op item at each sequence number
    claims,   \* the claim item at each claim key
    txs,      \* accepted transactions with the items a Query cannot see yet
    held,     \* numbers an earlier build's relay took and may still write
    relay,    \* each relay's push
    cursor,   \* the reader's cursor
    got,      \* the ops the reader was handed
    answered, \* <<op, seq>> the relays answered with
    spent     \* what the bounds above have used up

vars == <<counter, ops, claims, txs, held, relay, cursor, got, answered, spent, given>>

Seqs == 1..MaxSeq
Unknown == -1
Keys == Ops \cup {"shared"}
ClaimKey(o) == IF o \in Collide THEN "shared" ELSE o

\* Round::first
FirstRound(start) == [counter |-> start, floor |-> 0, claimed |-> TRUE, gap |-> 0]

IdlePush == [pc |-> "idle", batch |-> <<>>, start |-> Unknown, round |-> FirstRound(Unknown),
             expected |-> 0, seq |-> 0, stalls |-> 0]

Pushes == [pc : {"idle", "round", "send", "wait", "claim", "top"}, batch : Seq(Ops),
           start : Seqs \cup {Unknown},
           round : [counter : 0..MaxSeq \cup {Unknown}, floor : 0..MaxSeq, claimed : BOOLEAN,
                    gap : 0..MaxSeq],
           expected : 0..MaxSeq, seq : 0..MaxSeq, stalls : 0..Attempts - 1]

\* The table is well-typed and no relay counts past its bounds.
TypeOK ==
    /\ counter \in 0..MaxSeq
    /\ ops \in [Seqs -> Ops \cup {Old, None}]
    /\ \A k \in DOMAIN claims : k \in Keys /\ claims[k].op \in Ops /\ claims[k].seq \in Seqs
    /\ \A t \in txs : t.op \in Ops /\ t.seq \in Seqs /\ t.left # {}
    /\ held \subseteq Seqs
    /\ relay \in [Relays -> Pushes]
    /\ cursor \in 0..MaxSeq
    /\ answered \subseteq Ops \X Seqs

Init ==
    /\ given \in DOMAIN Settings
    /\ counter = Start.counter
    /\ ops = [n \in Seqs |-> IF n \in Start.occupied THEN Old ELSE None]
    /\ held = Start.burned
    /\ claims = <<>>
    /\ txs = {}
    /\ relay = [r \in Relays |-> IdlePush]
    /\ cursor = 0
    /\ got = <<>>
    /\ answered = {}
    /\ spent = [pushes |-> 0, cuts |-> 0, retries |-> 0, throttles |-> 0]

Spend(what, bound) == spent[what] < bound /\ spent' = [spent EXCEPT ![what] = @ + 1]

\* ------------------------------------------------------------------ DynamoDB

\* The items of the transaction that puts op o at seq.
CounterItem == <<"counter">>
ClaimItem(k) == <<"claim", k>>
OpItem(n) == <<"op", n>>

\* Another transaction is still writing the item: TransactionConflict.
Conflicts(item) == \E t \in txs : item \in t.left

\* A Query sees one more item of an accepted transaction.
Appear ==
    \E t \in txs : \E item \in t.left :
        /\ txs' = (txs \ {t}) \cup (IF t.left = {item} THEN {} ELSE {[t EXCEPT !.left = @ \ {item}]})
        /\ counter' = IF item = CounterItem THEN t.seq ELSE counter
        /\ ops' = IF item = OpItem(t.seq) THEN [ops EXCEPT ![t.seq] = t.op] ELSE ops
        /\ claims' = IF item = ClaimItem(ClaimKey(t.op))
                     THEN [k \in DOMAIN claims \cup {ClaimKey(t.op)} |->
                             IF k = ClaimKey(t.op) THEN [op |-> t.op, seq |-> t.seq] ELSE claims[k]]
                     ELSE claims
        /\ UNCHANGED <<held, relay, cursor, got, answered, spent, given>>

\* The relay of an earlier build writes the number it took with ADD.
LatePut ==
    \E n \in held :
        /\ ~Conflicts(OpItem(n))
        /\ held' = held \ {n}
        /\ ops' = IF ops[n] = None THEN [ops EXCEPT ![n] = Old] ELSE ops
        /\ UNCHANGED <<counter, claims, txs, relay, cursor, got, answered, spent, given>>

\* ------------------------------------------------------------------- a push

\* append_batch: a push arrives.
Push(r) ==
    /\ relay[r].pc = "idle"
    /\ \E b \in Pushed : relay' = [relay EXCEPT ![r] = [IdlePush EXCEPT !.pc = "round", !.batch = b]]
    /\ Spend("pushes", MaxPushes)
    /\ UNCHANGED <<counter, ops, claims, txs, held, cursor, got, answered, given>>

\* Slot::after
SlotAfter(count, floor) == 1 + IF count > floor THEN count ELSE floor

\* One round begins: the counter is read unless the last round knows it, and
\* a number past i64::MAX fails the push.
Decide(r) ==
    LET p == relay[r]
        count == IF p.round.counter = Unknown THEN counter ELSE p.round.counter
        seq == SlotAfter(count, p.round.floor)
    IN /\ p.pc = "round"
       /\ relay' = [relay EXCEPT ![r] =
                      IF seq > MaxSeq THEN IdlePush
                      ELSE [p EXCEPT !.pc = "send", !.expected = count, !.seq = seq]]
       /\ UNCHANGED <<counter, ops, claims, txs, held, cursor, got, answered, spent, given>>

\* Mutant of CheckOf: the op below is not looked at.
CheckOfNever(p) == "none"

\* Round::predecessor_check
CheckOf(p) == IF p.seq = 1 THEN "none" ELSE IF p.round.gap = p.seq THEN "absent" ELSE "exists"

\* The items the transaction names: all of them conflict with a writer.
ItemsOf(p) ==
    {CounterItem, OpItem(p.seq)}
        \cup (IF p.round.claimed THEN {ClaimItem(ClaimKey(Head(p.batch)))} ELSE {})
        \cup (IF CheckOf(p) = "none" THEN {} ELSE {OpItem(p.seq - 1)})

ClaimTaken(p) ==
    p.round.claimed /\ ClaimKey(Head(p.batch)) \in DOMAIN claims
CounterMoved(p) == ~Conflicts(CounterItem) /\ counter # p.expected
SeqTaken(p) == ~Conflicts(OpItem(p.seq)) /\ ops[p.seq] # None
PredecessorFails(p) ==
    /\ CheckOf(p) # "none"
    /\ ~Conflicts(OpItem(p.seq - 1))
    /\ (CheckOf(p) = "exists") # (ops[p.seq - 1] # None)

\* classify_append_cancellation
Classify(p) ==
    CASE ClaimTaken(p) -> "claimed"
      [] ~ClaimTaken(p) /\ CounterMoved(p) -> "moved"
      [] ~ClaimTaken(p) /\ ~CounterMoved(p) /\ SeqTaken(p) -> "taken"
      [] ~ClaimTaken(p) /\ ~CounterMoved(p) /\ ~SeqTaken(p) /\ PredecessorFails(p) -> "predecessor"
      [] OTHER -> IF \E item \in ItemsOf(p) : Conflicts(item) THEN "conflict" ELSE "written"

\* append_with_retry: a round that found no other append in its way counts
\* against the attempts; the last one fails the push.
Stalled(p, round) ==
    IF p.stalls + 1 >= Attempts THEN IdlePush
    ELSE [p EXCEPT !.pc = "round", !.round = round, !.stalls = @ + 1]

\* Mutant of Lost: the next round expects the counter the last one expected.
LostKeepsCounter(p, seen) == [p EXCEPT !.pc = "round", !.round.counter = p.expected, !.round.gap = 0]

\* A round lost to another append starts again from the counter it was shown.
Lost(p, seen) == [p EXCEPT !.pc = "round", !.round.counter = seen, !.round.gap = 0]

\* Mutant of PredecessorRound: the check is never flipped.
PredecessorRoundSame(p) == [p.round EXCEPT !.counter = p.expected, !.gap = 0]

\* The op below is not as the check expected: flip the check for this number,
\* or go back to checking that it exists.
PredecessorRound(p) ==
    [p.round EXCEPT !.counter = p.expected, !.gap = IF CheckOf(p) = "exists" THEN p.seq ELSE 0]

\* try_append_op: the transaction is sent and accepted, or cancelled for a
\* reason that settle_cancellation turns into the next step.
Send(r) ==
    LET p == relay[r]
        outcome == Classify(p)
    IN /\ p.pc = "send"
       /\ txs' = IF outcome # "written" THEN txs
                 ELSE txs \cup {[op |-> Head(p.batch), seq |-> p.seq,
                                 left |-> ItemsOf(p) \ {OpItem(p.seq - 1)}]}
       /\ relay' = [relay EXCEPT ![r] =
                      CASE outcome = "written" -> [p EXCEPT !.pc = "wait"]
                        [] outcome = "claimed" -> [p EXCEPT !.pc = "claim"]
                        [] outcome = "taken" -> [p EXCEPT !.pc = "top"]
                        [] outcome = "moved" -> Lost(p, counter)
                        [] outcome = "conflict" -> Lost(p, Unknown)
                        [] outcome = "predecessor" -> Stalled(p, PredecessorRound(p))]
       /\ UNCHANGED <<counter, ops, claims, held, cursor, got, answered, spent, given>>

\* The table is over its capacity: the round is repeated after a pause.
Throttled(r) ==
    LET p == relay[r]
    IN /\ p.pc = "send"
       /\ relay' = [relay EXCEPT ![r] = Stalled(p, [p.round EXCEPT !.counter = Unknown, !.gap = 0])]
       /\ Spend("throttles", MaxThrottles)
       /\ UNCHANGED <<counter, ops, claims, txs, held, cursor, got, answered, given>>

\* The op is settled at seq: append_batch goes on with the next one, carrying
\* the number a write took as the counter to expect.
Settled(p, seq, start) ==
    IF Len(p.batch) = 1 THEN IdlePush
    ELSE [IdlePush EXCEPT !.pc = "round", !.batch = Tail(p.batch), !.start = start,
                          !.round = FirstRound(start)]

\* The transaction's answer arrives: PutOutcome::Written.
Written(r) ==
    LET p == relay[r]
    IN /\ p.pc = "wait"
       /\ \A t \in txs : t.seq # p.seq
       /\ answered' = answered \cup {<<Head(p.batch), p.seq>>}
       /\ relay' = [relay EXCEPT ![r] = Settled(p, p.seq, p.seq)]
       /\ UNCHANGED <<counter, ops, claims, txs, held, cursor, got, spent, given>>

\* The answer is lost and the SDK sends the same request once more.
AnswerLost(r) ==
    /\ relay[r].pc = "wait"
    /\ \A t \in txs : t.seq # relay[r].seq
    /\ relay' = [relay EXCEPT ![r].pc = "send"]
    /\ Spend("retries", MaxRetries)
    /\ UNCHANGED <<counter, ops, claims, txs, held, cursor, got, answered, given>>

\* Mutant of SettleClaim: the answer is the number the push was about to take.
SettleClaimNewSeq(r) ==
    LET p == relay[r]
    IN /\ p.pc = "claim"
       /\ answered' = answered \cup {<<Head(p.batch), p.seq>>}
       /\ relay' = [relay EXCEPT ![r] = Settled(p, p.seq, p.start)]
       /\ UNCHANGED <<counter, ops, claims, txs, held, cursor, got, spent, given>>

\* read_claim and settle_claim: the op's own claim answers the push; the claim
\* of another id lets the op go in without one.
SettleClaim(r) ==
    LET p == relay[r]
        claim == claims[ClaimKey(Head(p.batch))]
    IN /\ p.pc = "claim"
       /\ IF claim.op = Head(p.batch)
          THEN /\ answered' = answered \cup {<<claim.op, claim.seq>>}
               /\ relay' = [relay EXCEPT ![r] = Settled(p, claim.seq, p.start)]
          ELSE /\ relay' = [relay EXCEPT ![r] =
                              Stalled(p, [p.round EXCEPT !.counter = Unknown, !.claimed = FALSE,
                                                         !.gap = 0])]
               /\ UNCHANGED answered
       /\ UNCHANGED <<counter, ops, claims, txs, held, cursor, got, spent, given>>

\* read_top_seq: step over every number that is occupied above the counter.
FindTop(r) ==
    LET p == relay[r]
        top == Max({n \in Seqs : n > p.expected /\ ops[n] # None} \cup {p.seq})
    IN /\ p.pc = "top"
       /\ relay' = [relay EXCEPT ![r] =
                      Stalled(p, [p.round EXCEPT !.counter = p.expected,
                                                 !.floor = Max({@, top}), !.gap = 0])]
       /\ UNCHANGED <<counter, ops, claims, txs, held, cursor, got, answered, spent, given>>

\* The push runs into its deadline, or lost too many rounds.  What it sent
\* may still be accepted.
CutShort(r) ==
    /\ relay[r].pc # "idle"
    /\ relay' = [relay EXCEPT ![r] = IdlePush]
    /\ Spend("cuts", MaxCuts)
    /\ UNCHANGED <<counter, ops, claims, txs, held, cursor, got, answered, given>>

\* read_since: the reader is handed the next op above its cursor.
ReadSince ==
    LET above == {n \in Seqs : n > cursor /\ ops[n] # None}
    IN /\ above # {}
       /\ cursor' = Min(above)
       /\ got' = Append(got, ops[Min(above)])
       /\ UNCHANGED <<counter, ops, claims, txs, held, relay, answered, spent, given>>

Step(r) == Decide(r) \/ Send(r) \/ Written(r) \/ SettleClaim(r) \/ FindTop(r)

Next ==
    \/ Appear
    \/ LatePut
    \/ ReadSince
    \/ \E r \in Serving :
        \/ Push(r) \/ Step(r)
        \/ Throttled(r) \/ AnswerLost(r) \/ CutShort(r)

Spec == Init /\ [][Next]_vars

\* A relay's task keeps running and DynamoDB finishes what it accepted, asked
\* of the streams on which no push is cut short.
FairSpec ==
    /\ Spec
    /\ WF_vars(MaxCuts = 0 /\ Appear)
    /\ \A r \in Relays : WF_vars(MaxCuts = 0 /\ r \in Serving /\ Step(r))

\* ----------------------------------------------------------------- properties

Stored == {n \in Seqs : ops[n] # None}

ByThisBuild(o) == o \notin {Old, None}

L == INSTANCE OrderedLog
       WITH log <- SelectSeq(ops, ByThisBuild),
            got <- SelectSeq(got, ByThisBuild),
            doubled <- Collide

\* The table implements the ordered log for every op this build stores: an op
\* becomes visible only behind all visible ones, so a reader that keeps the
\* last number it saw misses none; a repeated, retried or concurrent push of
\* an op stores it once.  (try_append_op, read_since)
InOrder == L!Spec

\* A push is answered with the number its op is stored at, or is bound to
\* appear at, also when another relay, an earlier push or the first try of a
\* lost answer stored it.
AnsweredWhereStored ==
    \A a \in answered :
        ops[a[2]] = a[1] \/ \E t \in txs : t.op = a[1] /\ t.seq = a[2] /\ OpItem(t.seq) \in t.left

\* A number is taken only together with its op: once nothing is being written,
\* no number up to the counter is missing but those an earlier build burned.
Dense ==
    txs = {} => \A n \in 1..counter :
        n \in Stored \/ (n <= Start.counter /\ n \notin Start.occupied)

\* Whatever an earlier build left behind (numbers burned, still to be written,
\* or occupied above the counter) and whatever ids share a claim key, a relay
\* that is alone on the stream gets past it before its attempts run out.
\* (append_with_retry)
NeverExhausted == Cardinality(Serving) = 1 => \A r \in Serving : relay[r].stalls < Attempts - 1

\* Every op of a push that is not cut short is stored in the end, however its
\* rounds collide with those of other relays.
EveryPushLands ==
    \A o \in Ops :
        (MaxCuts = 0 /\ \E r \in Relays : o \in ToSet(relay[r].batch)) ~> o \in ToSet(ops)

\* Numbers and ops belong together (try_append_op, resolve of a taken claim): no number without its op, and no answer
\* that names another number than the op's.
StoredInPlace == TypeOK /\ AnsweredWhereStored /\ Dense
============================================================================
