----------------------------- MODULE MCPrefixes -----------------------------
(* Who writes on the streams of Prefixes, and which prefixes are offered. *)
EXTENDS Prefixes

CONSTANTS r1, r2, service, hand, other, x, y, z

MCHome == [p \in Processes |-> IF p = other THEN r2 ELSE r1]
\* Both minted the same prefix.
MCMinted == [r \in Replicas |-> x]

\* The first candidate of one is taken by the other; or it has no candidate left
\* once the other holds x, and processes write during the passes.
MCSettings ==
    [quiet |-> [writers |-> "quiet", max_ops |-> 2,
                candidates |-> [r \in Replicas |-> IF r = r1 THEN <<x, y>> ELSE <<y, z>>]],
     writing |-> [writers |-> "any", max_ops |-> 1,
                  candidates |-> [r \in Replicas |-> IF r = r1 THEN <<x>> ELSE <<y, z>>]]]
============================================================================
