---------------------------- MODULE MCServerFold ----------------------------
(* What happens to the streams of ServerFold. *)
EXTENDS ServerFold

\* Two ops on one row, the later of them with the lower coordinate, one on another, one nobody can hold.
MCTarget == <<"a", "a", "b", "b">>
MCRank == <<2, 1, 3, 4>>
MCRefused == {4}

\* Builds with other index rules, another chat reducer, another task reducer than the first.
MCBuilds ==
    {[red |-> 1, idx |-> 1, other |-> 1], [red |-> 1, idx |-> 2, other |-> 1],
     [red |-> 1, idx |-> 1, other |-> 2], [red |-> 2, idx |-> 2, other |-> 1]}

MCSettings ==
    [deploys |-> [crashes |-> 2, deploys |-> 2, exports |-> 0, careful |-> TRUE],
     snapshots |-> [crashes |-> 1, deploys |-> 1, exports |-> 1, careful |-> TRUE]]
=============================================================================
