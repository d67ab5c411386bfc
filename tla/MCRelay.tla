------------------------------ MODULE MCRelay ------------------------------
(* What the streams of Relay start with and what happens to them. *)
EXTENDS Relay

CONSTANTS a, b, r1, r2

Fresh == [counter |-> 0, occupied |-> {}, burned |-> {}]
\* The number below the next one was burned by an earlier build.
Gap == [counter |-> 1, occupied |-> {}, burned |-> {}]
\* Ops of a time before the counter.
Uncounted == [counter |-> 0, occupied |-> {1, 2}, burned |-> {}]
\* An earlier build's relay took number 1 and has not written it yet.
Pending == [counter |-> 1, occupied |-> {}, burned |-> {1}]

MCBatches == {<<a, b>>, <<a>>, <<b>>}

\* Two relays, a push that may be cut short and an answer that may be lost,
\* close to the end of the numbers.
Racing(start) ==
    [relays |-> {r1, r2}, batches |-> {<<a, b>>, <<b>>}, collide |-> {}, start |-> start,
     max_seq |-> 5, attempts |-> 4, max_pushes |-> 2, max_cuts |-> 1, max_retries |-> 1,
     max_throttles |-> 0]
\* One relay, ids that share a claim key.
Alone(start) ==
    [relays |-> {r1}, batches |-> {<<a>>, <<b>>}, collide |-> {a, b}, start |-> start,
     max_seq |-> 6, attempts |-> 7, max_pushes |-> 3, max_cuts |-> 0, max_retries |-> 1,
     max_throttles |-> 1]
\* Two relays whose pushes run to their end.
Contending == [Racing(Fresh) EXCEPT !.max_seq = 4, !.attempts = 6, !.max_cuts = 0]

MCSettings ==
    [fresh |-> Racing(Fresh), gap |-> Racing(Gap), uncounted |-> Racing(Uncounted),
     alone_gap |-> Alone(Gap), alone_uncounted |-> Alone(Uncounted), alone_pending |-> Alone(Pending),
     contending |-> Contending]
============================================================================
