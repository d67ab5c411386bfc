-------------------------- MODULE MCSessionBackend --------------------------
(* What the sessions of SessionBackend are given: a host of their own; a    *)
(* host whose record of a spawn may fail; two hosts at once.                *)
EXTENDS SessionBackend

CONSTANTS h1, h2

MCSettings ==
  [alone |-> [hosts |-> {h1}, record_fails |-> FALSE, blind |-> TRUE, max_procs |-> 2, max_facts |-> 2],
   record |-> [hosts |-> {h1}, record_fails |-> TRUE, blind |-> FALSE, max_procs |-> 2, max_facts |-> 1],
   two |-> [hosts |-> {h1, h2}, record_fails |-> FALSE, blind |-> FALSE, max_procs |-> 2, max_facts |-> 0]]
=============================================================================
