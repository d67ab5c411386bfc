---------------------------- MODULE OrderedLog ----------------------------
(* What the relay promises of one stream, whichever backend stores it: a    *)
(* log that only grows at its end, and a reader that is handed its entries  *)
(* in order without missing one.  An op is stored once, except one that     *)
(* doubled names.                                                           *)
EXTENDS Naturals, Sequences

CONSTANT Ops        \* what can be in the log

VARIABLES log,      \* the stream
          got,      \* what the reader was handed so far
          doubled   \* ops without a claim of their own: a second push stores them again

vars == <<log, got, doubled>>

Stored == {log[i] : i \in DOMAIN log}

Init ==
    /\ doubled \subseteq Ops
    /\ log = <<>>
    /\ got = <<>>

Store ==
    /\ \E o \in Ops : (o \in Stored => o \in doubled) /\ log' = Append(log, o)
    /\ UNCHANGED <<got, doubled>>

Deliver ==
    /\ Len(got) < Len(log)
    /\ got' = Append(got, log[Len(got) + 1])
    /\ UNCHANGED <<log, doubled>>

Next == Store \/ Deliver

Spec == Init /\ [][Next]_vars
============================================================================
