------------------------------- MODULE MCSync -------------------------------
(* Who takes part in the systems of Sync, and what goes wrong there. *)
EXTENDS Sync

CONSTANTS w1, w2, service, hand, other

\* The service and a pass by hand on one workspace, the service of another machine.
MCHome == [p \in Processes |-> IF p = other THEN w2 ELSE w1]

Quiet == [workspaces |-> {w1, w2}, processes |-> {service, other}, large |-> {}, mints |-> 1,
          trouble |-> 0, faults |-> 0, rebinds |-> 0]

\* Two passes on one workspace, every fault and a rebind; three passes of two
\* workspaces, first with trouble, then with a rebind; an op no relay takes.
MCSettings ==
    [push |-> [workspaces |-> {w1}, processes |-> {service, hand}, large |-> {}, mints |-> 2,
               trouble |-> 1, faults |-> 1, rebinds |-> 1],
     pull |-> [Quiet EXCEPT !.processes = {service, hand, other}, !.trouble = 1],
     rebind |-> [Quiet EXCEPT !.processes = {service, hand, other}, !.rebinds = 1],
     large |-> [Quiet EXCEPT !.large = {<<w2, 1>>}, !.mints = 2, !.trouble = 1]]

\* A database that fails once while a page is examined.
FaultSettings == [fault |-> [Quiet EXCEPT !.faults = 1]]
============================================================================
