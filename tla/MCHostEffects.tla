--------------------------- MODULE MCHostEffects ---------------------------
(* What the runs of HostEffects are given: hosts that die at any boundary   *)
(* while the ports refuse; hosts that are suspended between their ticks     *)
(* too; hosts that stand still at any call, with two sessions to start.     *)
EXTENDS HostEffects

CONSTANTS h1, h2, h3

MCSettings ==
  [crash |-> [hosts |-> {h1, h2}, delivery |-> {"result"}, session |-> {"s1"}, signal |-> {"term"},
              stalls |-> "never", max_epoch |-> 3, max_faults |-> 2],
   suspend |-> [hosts |-> {h1, h2, h3}, delivery |-> {"result"}, session |-> {}, signal |-> {"term"},
                stalls |-> "between", max_epoch |-> 3, max_faults |-> 1],
   stall |-> [hosts |-> {h1, h2}, delivery |-> {}, session |-> {"s1", "s2"}, signal |-> {},
              stalls |-> "inside", max_epoch |-> 2, max_faults |-> 1]]
=============================================================================
