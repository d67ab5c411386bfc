------------------------------- MODULE Claims -------------------------------
(***************************************************************************)
(* The runs of one workspace and the hosts that own them                   *)
(* (crates/run-host: host.rs tick, effects.rs take_claims and              *)
(* release_claim, tree_effects.rs park_tree).  The claim is one kv row;    *)
(* the runs are in different hands and at different phases of their log.   *)
(*                                                                         *)
(* A tick is: the leases, then the folds, then the effects of each run,    *)
(* each behind a look at its lease, and last take_claims, which works on   *)
(* the leases of the tick's beginning.  Each store call is an action.  Of  *)
(* a run's log only the phase is kept; what happens between claim_taken    *)
(* and the end of the work is left to the environment.                     *)
(***************************************************************************)
EXTENDS Integers, Sequences, FiniteSets

CONSTANTS
  NRuns,     \* runs 1..NRuns, the oldest first
  Host,
  Settings,  \* Settings[n]: what may happen in the workspace
  MaxEpoch   \* bound: epochs of a run's lease

VARIABLE given  \* the setting

Hosts == Settings[given].hosts          \* the hosts that run
Stalls == Settings[given].stalls        \* where a live host may outlast its leases: "never", "between" two ticks, or also "inside" one
Short == Settings[given].short          \* the tick's budget may be gone when take_claims begins
Unwanted == Settings[given].unwanted    \* the runs that may be withdrawn

ASSUME ConstantsAssumption == NRuns \in Nat \ {0} /\ MaxEpoch \in Nat \ {0}

ASSUME SettingsAssumption ==
  \A n \in DOMAIN Settings :
    /\ Settings[n].hosts \subseteq Host /\ Settings[n].short \in BOOLEAN
    /\ Settings[n].stalls \in {"never", "between", "inside"}

Run == 1..NRuns
Free == 0
Unknown == "unknown"
NoHost == "nobody"
Phase == {"absent", "queued", "running", "parking", "releasing", "finished"}
Input == {"claim_taken", "done", "withdrawn", "tree_parked", "claim_released"}

VARIABLES
  claim,   \* kv['claim/<workspace>']: a run or Free
  phase,   \* the fold of each run's log
  ran,     \* history: claim_taken was folded while the run was queued
  inbox,   \* waiting inputs of each run, in order
  keys,    \* input keys a run's inbox or log has
  lease,   \* kv['owner/<run>'] of each run
  host     \* each host's place in its tick

vars == <<claim, phase, ran, inbox, keys, lease, host, given>>

Fresh == [pc |-> "idle", epoch |-> [r \in Run |-> 0], view |-> [r \in Run |-> Unknown], todo |-> {}, run |-> 1,
          tried |-> FALSE, served |-> FALSE]

Init ==
  /\ given \in DOMAIN Settings
  /\ claim = Free
  /\ phase = [r \in Run |-> "absent"] /\ ran = [r \in Run |-> FALSE]
  /\ inbox = [r \in Run |-> <<>>] /\ keys = [r \in Run |-> {}]
  /\ lease = [r \in Run |-> [owner |-> NoHost, epoch |-> 0, expired |-> TRUE]]
  /\ host = [h \in Hosts |-> Fresh]

Open(r) == phase[r] \notin {"absent", "finished"}
Owned(h) == {r \in Run : host[h].epoch[r] > 0}
Fenced(h, r) == host[h].epoch[r] # lease[r].epoch
StillOurs(h, r) == lease[r].owner = h /\ ~Fenced(h, r) /\ ~lease[r].expired
\* The cached state, or a loaded one.
Loaded(h, r) == IF host[h].view[r] = Unknown THEN phase[r] ELSE host[h].view[r]

Goto(h, pc) == host' = [host EXCEPT ![h].pc = pc]
\* An enqueue of a key the run already has is a Duplicate.
Enqueue(r, input) ==
  /\ inbox' = [inbox EXCEPT ![r] = IF input \in keys[r] THEN @ ELSE Append(@, input)]
  /\ keys' = [keys EXCEPT ![r] = @ \cup {input}]

\* decide and evolve as far as the claim is concerned (RunEngine has the whole of it): anything out of place is
\* ignored.
Evolve(p, input) ==
  CASE p = "queued" /\ input = "claim_taken" -> "running"
    [] p = "running" /\ input = "done" -> "parking"
    [] p \in {"queued", "running"} /\ input = "withdrawn" -> "parking"
    [] p = "parking" /\ input = "tree_parked" -> "releasing"
    [] p = "releasing" /\ input = "claim_released" -> "finished"
    [] OTHER -> p

-----------------------------------------------------------------------------
(* A tick.                                                                 *)

Acquirable(h, r) == Open(r) /\ IF lease[r].expired THEN lease[r].epoch < MaxEpoch ELSE lease[r].owner = h

\* open_runs, then acquire_or_renew for each of them; runs that are finished, or in other hands, leave the cache.
Leases(h) ==
  /\ host[h].pc = "idle"
  /\ LET epoch == [r \in Run |-> IF ~Acquirable(h, r) THEN 0
                                 ELSE IF lease[r].expired THEN lease[r].epoch + 1 ELSE lease[r].epoch]
     IN  /\ lease' = [r \in Run |-> IF Acquirable(h, r) THEN [owner |-> h, epoch |-> epoch[r], expired |-> FALSE]
                                    ELSE lease[r]]
         /\ host' = [host EXCEPT ![h].pc = "fold", ![h].epoch = epoch, ![h].todo = {r \in Run : epoch[r] > 0},
                                 ![h].view = [r \in Run |-> IF epoch[r] > 0 THEN @[r] ELSE Unknown]]
  /\ UNCHANGED <<given, claim, phase, ran, inbox, keys>>

\* fold_run: one input per append. A cache older than the log is refused as SeqMismatch and read again.
Fold(h) ==
  /\ host[h].pc = "fold"
  /\ \/ /\ host[h].todo = {}
        /\ host' = [host EXCEPT ![h].pc = "execute", ![h].todo = Owned(h)]
        /\ UNCHANGED <<phase, ran, inbox>>
     \/ \E r \in host[h].todo :
          \/ /\ inbox[r] = <<>>
             /\ host' = [host EXCEPT ![h].todo = @ \ {r}, ![h].view[r] = Loaded(h, r)]
             /\ UNCHANGED <<phase, ran, inbox>>
          \/ /\ inbox[r] # <<>> /\ Fenced(h, r)
             /\ host' = [host EXCEPT ![h].todo = @ \ {r}, ![h].view[r] = Unknown]
             /\ UNCHANGED <<phase, ran, inbox>>
          \/ /\ inbox[r] # <<>> /\ ~Fenced(h, r) /\ Loaded(h, r) # phase[r]
             /\ host' = [host EXCEPT ![h].view[r] = Unknown]
             /\ UNCHANGED <<phase, ran, inbox>>
          \/ /\ inbox[r] # <<>> /\ ~Fenced(h, r) /\ Loaded(h, r) = phase[r]
             /\ phase' = [phase EXCEPT ![r] = Evolve(@, Head(inbox[r]))]
             /\ ran' = [ran EXCEPT ![r] = @ \/ phase'[r] = "running"]
             /\ inbox' = [inbox EXCEPT ![r] = Tail(@)]
             /\ host' = [host EXCEPT ![h].view[r] = phase'[r]]
  /\ UNCHANGED <<given, claim, keys, lease>>

\* execute_run of each owned run: the effect of its phase behind still_ours, or nothing.
Execute(h) ==
  /\ host[h].pc = "execute"
  /\ \/ /\ host[h].todo = {}
        /\ host' = [host EXCEPT ![h].pc = "take", ![h].todo = Owned(h), ![h].tried = FALSE, ![h].served = FALSE]
     \/ \E r \in host[h].todo :
          LET owed == Loaded(h, r) \in {"parking", "releasing"}
          IN  host' = [host EXCEPT ![h].todo = @ \ {r}, ![h].run = r,
                         ![h].view[r] = IF owed /\ ~StillOurs(h, r) THEN Unknown ELSE Loaded(h, r),
                         ![h].pc = IF owed /\ StillOurs(h, r) THEN Loaded(h, r) ELSE "execute"]
  /\ UNCHANGED <<given, claim, phase, ran, inbox, keys, lease>>

\* park_tree: a run that does not hold the claim has parked nothing (NotHeld); for one that holds it the worker parks
\* and its result is enqueued in the same or a later tick.
ParkTree(h) ==
  /\ host[h].pc = "parking"
  /\ \/ Enqueue(host[h].run, "tree_parked")
     \/ claim = host[h].run /\ UNCHANGED <<inbox, keys>>
  /\ Goto(h, "execute")
  /\ UNCHANGED <<given, claim, phase, ran, lease>>

\* Mutant: a release is recorded as done without a look.
LookBeforeReleaseNever(h) ==
  /\ host[h].pc = "releasing"
  /\ Goto(h, "released")
  /\ UNCHANGED <<given, claim, phase, ran, inbox, keys, lease>>

\* release_claim's get.
LookBeforeRelease(h) ==
  /\ host[h].pc = "releasing"
  /\ Goto(h, IF claim = host[h].run THEN "release" ELSE "released")
  /\ UNCHANGED <<given, claim, phase, ran, inbox, keys, lease>>

\* release_claim's compare-and-set; a failed one leaves the effect owed.
Release(h) ==
  /\ host[h].pc = "release"
  /\ IF claim = host[h].run
     THEN claim' = Free /\ Goto(h, "released")
     ELSE UNCHANGED claim /\ Goto(h, "execute")
  /\ UNCHANGED <<given, phase, ran, inbox, keys, lease>>

Released(h) ==
  /\ host[h].pc = "released"
  /\ Enqueue(host[h].run, "claim_released")
  /\ Goto(h, "execute")
  /\ UNCHANGED <<given, claim, phase, ran, lease>>

\* Mutant: the youngest run is tried first.
YoungestInQueue(runs) == CHOOSE r \in runs : \A q \in runs : r >= q

\* The run take_claims comes to next: open_runs is ordered by the commission.
NextInQueue(runs) == CHOOSE r \in runs : \A q \in runs : r <= q

\* Mutant: a claim that already names the run counts as somebody's.
TakeNextOnlyFree(h) ==
  /\ host[h].pc = "take"
  /\ \/ /\ host[h].todo = {} \/ (Short /\ host[h].served)
        /\ Goto(h, "idle")
     \/ /\ host[h].todo # {}
        /\ LET r == NextInQueue(host[h].todo)
               queued == Loaded(h, r) = "queued"
           IN  host' = [host EXCEPT ![h].todo = @ \ {r}, ![h].run = r, ![h].view[r] = Loaded(h, r),
                          ![h].served = @ \/ queued,
                          ![h].pc = IF queued /\ claim = Free /\ ~host[h].tried THEN "claim" ELSE "take"]
  /\ UNCHANGED <<given, claim, phase, ran, inbox, keys, lease>>

\* take_claims, the get of one run: oldest first, one attempt on a free claim per tick. The budget may end the loop
\* once the first queued run has been served.
TakeNext(h) ==
  /\ host[h].pc = "take"
  /\ \/ /\ host[h].todo = {} \/ (Short /\ host[h].served)
        /\ Goto(h, "idle")
     \/ /\ host[h].todo # {}
        /\ LET r == NextInQueue(host[h].todo)
               queued == Loaded(h, r) = "queued"
           IN  host' = [host EXCEPT ![h].todo = @ \ {r}, ![h].run = r, ![h].view[r] = Loaded(h, r),
                          ![h].served = @ \/ queued,
                          ![h].pc = CASE queued /\ claim = r -> "taken"
                                      [] queued /\ claim = Free /\ ~host[h].tried -> "claim"
                                      [] OTHER -> "take"]
  /\ UNCHANGED <<given, claim, phase, ran, inbox, keys, lease>>

\* Mutant: the claim is written whatever it holds by then.
TakeClaimBlind(h) ==
  /\ host[h].pc = "claim"
  /\ claim' = host[h].run /\ host' = [host EXCEPT ![h].pc = "taken", ![h].tried = TRUE]
  /\ UNCHANGED <<given, phase, ran, inbox, keys, lease>>

\* take_claims, the compare-and-set from absent: fenced by nothing but the value.
TakeClaim(h) ==
  /\ host[h].pc = "claim"
  /\ IF claim = Free
     THEN claim' = host[h].run /\ host' = [host EXCEPT ![h].pc = "taken", ![h].tried = TRUE]
     ELSE UNCHANGED claim /\ host' = [host EXCEPT ![h].pc = "take", ![h].tried = TRUE]
  /\ UNCHANGED <<given, phase, ran, inbox, keys, lease>>

Taken(h) ==
  /\ host[h].pc = "taken"
  /\ Enqueue(host[h].run, "claim_taken")
  /\ Goto(h, "take")
  /\ UNCHANGED <<given, claim, phase, ran, lease>>

-----------------------------------------------------------------------------
(* The rest of the world.                                                  *)

Commission(r) ==
  /\ phase[r] = "absent" /\ \A q \in 1..(r - 1) : phase[q] # "absent"
  /\ phase' = [phase EXCEPT ![r] = "queued"]
  /\ UNCHANGED <<given, claim, ran, inbox, keys, lease, host>>

\* The run's steps come to an end.
Work(r) ==
  /\ phase[r] = "running" /\ "done" \notin keys[r]
  /\ Enqueue(r, "done")
  /\ UNCHANGED <<given, claim, phase, ran, lease, host>>

Withdraw(r) ==
  /\ Open(r) /\ r \in Unwanted /\ "withdrawn" \notin keys[r]
  /\ Enqueue(r, "withdrawn")
  /\ UNCHANGED <<given, claim, phase, ran, lease, host>>

Expire(r) ==
  /\ ~lease[r].expired /\ lease[r].epoch < MaxEpoch
  /\ \/ host[lease[r].owner].pc = "dead"
     \/ Stalls # "never" /\ host[lease[r].owner].pc = "idle"
     \/ Stalls = "inside"
  /\ lease' = [lease EXCEPT ![r].expired = TRUE]
  /\ UNCHANGED <<given, claim, phase, ran, inbox, keys, host>>

\* A host dies; never the last one, and never one whose runs could not be taken over within the bound.
Crash(h) ==
  /\ host[h].pc # "dead"
  /\ \E other \in Hosts \ {h} : host[other].pc # "dead"
  /\ \A r \in Run : lease[r].epoch < MaxEpoch
  /\ host' = [host EXCEPT ![h] = [Fresh EXCEPT !.pc = "dead"]]
  /\ UNCHANGED <<given, claim, phase, ran, inbox, keys, lease>>

HostStep(h) ==
  \/ Leases(h) \/ Fold(h) \/ Execute(h) \/ ParkTree(h) \/ LookBeforeRelease(h) \/ Release(h) \/ Released(h)
  \/ TakeNext(h) \/ TakeClaim(h) \/ Taken(h)

Next ==
  \/ \E h \in Hosts : HostStep(h) \/ Crash(h)
  \/ \E r \in Run : Commission(r) \/ Work(r) \/ Withdraw(r) \/ Expire(r)

Spec == Init /\ [][Next]_vars

\* A live service ticks on, the lease of a dead one runs out, parking succeeds in the end, and work comes to an end.
FairSpec ==
  /\ Spec
  /\ \A h \in Host : WF_vars(h \in Hosts /\ HostStep(h)) /\ SF_vars(h \in Hosts /\ ParkTree(h) /\ inbox' # inbox)
  /\ \A r \in Run : WF_vars(Commission(r)) /\ WF_vars(Work(r)) /\ WF_vars(Expire(r))

-----------------------------------------------------------------------------
(* Properties.                                                             *)

TypeOK ==
  /\ claim \in Run \cup {Free}
  /\ phase \in [Run -> Phase] /\ ran \in [Run -> BOOLEAN]
  /\ inbox \in [Run -> Seq(Input)] /\ keys \in [Run -> SUBSET Input]
  /\ lease \in [Run -> [owner : Host \cup {NoHost}, epoch : 0..MaxEpoch, expired : BOOLEAN]]
  /\ \A h \in Hosts :
       /\ host[h].pc \in {"idle", "dead", "fold", "execute", "parking", "releasing", "release", "released",
                          "take", "claim", "taken"}
       /\ host[h].epoch \in [Run -> 0..MaxEpoch] /\ host[h].view \in [Run -> Phase \cup {Unknown}]
       /\ host[h].todo \subseteq Run /\ host[h].run \in Run
       /\ host[h].tried \in BOOLEAN /\ host[h].served \in BOOLEAN

\* The runs that work in the tree: from the fold of claim_taken to the fold of tree_parked.
InTree == {r \in Run : phase[r] = "running" \/ (phase[r] = "parking" /\ ran[r])}
W == INSTANCE Workspace WITH inside <- InTree, left <- {r \in Run : ran[r] /\ phase[r] \in {"releasing", "finished"}}

\* Whoever owns the runs, however stale a host's view is and wherever it stops: the runs use the workspace one at a
\* time, as Workspace says.
Exclusive == W!Spec

\* The claim is never left with a run that is over: nobody looks at a finished run again, so nobody would release it
\* (host.rs open_runs), and every later run of the workspace would stay queued. It holds as long as no host stands
\* still inside a tick for longer than its lease: take_claims does not look at the leases again.
ClaimHasAnOpenRun == Stalls # "inside" /\ claim # Free => phase[claim] # "finished"

\* "oldest queued run first" (effects.rs take_claims): where one host owns the runs, the claim passes over no run
\* that is queued.
OldestFirst ==
  [][(\E h \in Hosts : Hosts = {h}) /\ claim = Free /\ claim' # Free =>
       \A q \in 1..(claim' - 1) : phase[q] # "queued"]_vars

\* Every run of the workspace gets its turn and finishes, whichever host dies with the claim just taken, just
\* released or not yet recorded, as long as the budget of a tick reaches every queued run and no live host is suspended.
EveryRunFinishes ==
  Stalls = "never" /\ ~Short => \A r \in Run : <>(phase[r] = "finished")

\* The claim at any moment: a run's that is not over, in hands that know their epochs.
ClaimIsSound == TypeOK /\ ClaimHasAnOpenRun
=============================================================================
