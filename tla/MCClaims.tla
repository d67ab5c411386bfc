------------------------------ MODULE MCClaims ------------------------------
(* What may happen to the runs of Claims: one host and every tick short of  *)
(* its budget; a host that dies anywhere and one that takes over; two hosts *)
(* that also are suspended between their ticks.                             *)
EXTENDS Claims

CONSTANTS h1, h2

MCSettings ==
  [alone |-> [hosts |-> {h1}, stalls |-> "never", short |-> TRUE, unwanted |-> Run],
   crash |-> [hosts |-> {h1, h2}, stalls |-> "never", short |-> FALSE, unwanted |-> {1}],
   suspend |-> [hosts |-> {h1, h2}, stalls |-> "between", short |-> TRUE, unwanted |-> {1}]]
=============================================================================
