---------------------------- MODULE ClaimsProofs ----------------------------
(***************************************************************************)
(* Proofs about Claims, for any number of runs, hosts, crashes and epochs. *)
(* That the runs use the workspace one at a time needs no lease at all: it *)
(* rests on the compare-and-sets of the claim and on the order in which a  *)
(* run's log and its claim change.  That the claim never stays with a run  *)
(* that is over does need the leases, and is proved where no host outlasts *)
(* one inside a tick.                                                      *)
(***************************************************************************)
EXTENDS Claims, FiniteSetTheorems, WellFoundedInduction, TLAPS

-----------------------------------------------------------------------------
(* Types.                                                                  *)

Pc == {"idle", "dead", "fold", "execute", "parking", "releasing", "release", "released", "take", "claim", "taken"}

HostType ==
  [pc : Pc, epoch : [Run -> 0..MaxEpoch], view : [Run -> Phase \cup {Unknown}], todo : SUBSET Run, run : Run,
   tried : BOOLEAN, served : BOOLEAN]

Types ==
  /\ given \in DOMAIN Settings
  /\ claim \in Run \cup {Free}
  /\ phase \in [Run -> Phase] /\ ran \in [Run -> BOOLEAN]
  /\ inbox \in [Run -> Seq(Input)] /\ keys \in [Run -> SUBSET Input]
  /\ lease \in [Run -> [owner : Hosts \cup {NoHost}, epoch : 0..MaxEpoch, expired : BOOLEAN]]
  /\ host \in [Hosts -> HostType]

-----------------------------------------------------------------------------
(* The invariant.                                                          *)

Waits(r, input) == \E i \in 1..Len(inbox[r]) : inbox[r][i] = input
Over(p) == p \in {"releasing", "finished"}

\* The runs: who is in the tree has the claim, and so has a run whose claim_taken is about to be folded.
RunsInv ==
  \A r \in Run :
    /\ phase[r] \in {"absent", "queued"} => ~ran[r]
    /\ phase[r] = "running" => ran[r]
    /\ r \in InTree => claim = r
    /\ Waits(r, "claim_taken") => phase[r] # "absent" /\ (phase[r] = "queued" => claim = r)

\* What host h knows of run r is not ahead of the log, however old it is.
ViewInv(h, r) ==
  /\ host[h].epoch[r] > 0 => phase[r] # "absent"
  /\ host[h].view[r] # Unknown =>
       /\ phase[r] # "absent"
       /\ Over(host[h].view[r]) => Over(phase[r])
       /\ phase[r] = "queued" => host[h].view[r] = "queued"

\* What host h is about to do to the claim.
StepInv(h) ==
  /\ host[h].todo \subseteq Owned(h)
  /\ host[h].pc \in {"parking", "releasing", "release", "released", "claim", "taken"} => host[h].epoch[host[h].run] > 0
  /\ host[h].pc \in {"releasing", "release", "released"} => Over(phase[host[h].run])
  /\ host[h].pc = "taken" => (phase[host[h].run] = "queued" => claim = host[h].run)

HostsInv == \A h \in Hosts : StepInv(h) /\ \A r \in Run : ViewInv(h, r)

Active(h) == host[h].pc \notin {"idle", "dead"}

\* Host h inside a tick is the only one that works on its run r: its lease stands, and behind the fold it knows
\* whether the run's release has been reported.
OwnedInv(h, r) ==
  Active(h) /\ host[h].epoch[r] > 0 =>
    /\ lease[r].owner = h /\ lease[r].epoch = host[h].epoch[r] /\ ~lease[r].expired
    /\ host[h].pc # "fold" \/ r \notin host[h].todo =>
         host[h].view[r] # Unknown /\ (host[h].view[r] # "releasing" => ~Waits(r, "claim_released"))
    /\ phase[r] = "finished" => host[h].view[r] = "finished"

\* What it is about to do rests on what it knows.
KnownInv(h) ==
  /\ host[h].pc = "claim" => host[h].view[host[h].run] = "queued"
  /\ host[h].pc \in {"releasing", "release", "released"} => host[h].view[host[h].run] = "releasing"
  /\ host[h].pc = "released" => claim # host[h].run

\* Where no host outlasts its lease inside a tick: a run whose release is reported does not have the claim.
LeaseInv ==
  Stalls # "inside" =>
    /\ \A h \in Hosts : KnownInv(h) /\ \A r \in Run : OwnedInv(h, r)
    /\ \A r \in Run : /\ Waits(r, "claim_released") => claim # r
                      /\ phase[r] = "finished" => claim # r

\* The leases of the runs, and the order in which they were commissioned.
QueueInv ==
  /\ \A r \in Run : /\ lease[r].expired => lease[r].epoch < MaxEpoch
                    /\ ~lease[r].expired => lease[r].owner \in Hosts /\ lease[r].epoch > 0
  /\ \A q, r \in Run : q < r /\ phase[r] # "absent" => phase[q] # "absent"

\* Host h alone: behind it in the queue is nobody that is queued, while the claim is free.
AloneInv(h) ==
  /\ Active(h) => \A q, r \in Run : q < r /\ host[h].epoch[r] > 0 /\ phase[q] = "queued" => host[h].epoch[q] > 0
  /\ host[h].pc = "take" /\ ~host[h].tried /\ claim = Free =>
       \A q \in Run : host[h].epoch[q] > 0 /\ q \notin host[h].todo => phase[q] # "queued"
  /\ host[h].pc = "claim" =>
       /\ ~host[h].tried /\ \A q \in host[h].todo : q > host[h].run
       /\ claim = Free => \A q \in Run : host[h].epoch[q] > 0 /\ q \notin host[h].todo /\ q # host[h].run =>
                            phase[q] # "queued"
  /\ host[h].pc = "taken" => claim # Free

OrderInv == \A h \in Hosts : Hosts = {h} => AloneInv(h)

IInv == Types /\ RunsInv /\ HostsInv /\ LeaseInv /\ QueueInv /\ OrderInv

-----------------------------------------------------------------------------
(* What each step of a host does to the hosts.                             *)

\* The other hosts are where they were, and the settings are what they are.
Alone(h) ==
  /\ given' = given /\ Hosts' = Hosts /\ Stalls' = Stalls
  /\ host' \in [Hosts -> HostType]
  /\ \A g \in Hosts \ {h} : host'[g] = host[g]

\* A host that only moves on.
Moves(h, pc) ==
  /\ Alone(h)
  /\ host'[h].pc = pc /\ host'[h].epoch = host[h].epoch /\ host'[h].view = host[h].view /\ host'[h].todo = host[h].todo
  /\ host'[h].run = host[h].run /\ host'[h].tried = host[h].tried /\ host'[h].served = host[h].served

\* A step that gives host h the state new.
LEMMA Updated ==
  ASSUME Types, NEW h \in Hosts, NEW new \in HostType, host' = [host EXCEPT ![h] = new], given' = given
  PROVE  Alone(h) /\ host'[h] = new
BY DEF Types, Alone, Hosts, Stalls

\* Goto changes the place and nothing else.
LEMMA GotoShape ==
  ASSUME Types, NEW h \in Hosts, NEW pc \in Pc, Goto(h, pc), given' = given
  PROVE  Moves(h, pc)
BY DEF Types, HostType, Goto, Moves, Alone, Hosts, Stalls

\* The epoch Leases(h) has for run r afterwards: 0 where another host owns it or it is over.
EpochOf(h, r) ==
  IF ~Acquirable(h, r) THEN 0 ELSE IF lease[r].expired THEN lease[r].epoch + 1 ELSE lease[r].epoch

\* Leases gives the host the runs it can have, drops what it knew of the others and writes its name into their rows.
LEMMA LeasesShape ==
  ASSUME Types, NEW h \in Hosts, Leases(h)
  PROVE  /\ Alone(h)
         /\ host'[h].pc = "fold" /\ host'[h].todo = {r \in Run : EpochOf(h, r) > 0}
         /\ host'[h].run = host[h].run /\ host'[h].tried = host[h].tried /\ host'[h].served = host[h].served
         /\ \A r \in Run : /\ EpochOf(h, r) \in 0..MaxEpoch
                           /\ host'[h].epoch[r] = EpochOf(h, r)
                           /\ host'[h].view[r] = IF EpochOf(h, r) > 0 THEN host[h].view[r] ELSE Unknown
                           /\ lease'[r] = IF Acquirable(h, r) THEN [owner |-> h, epoch |-> EpochOf(h, r), expired |-> FALSE]
                                          ELSE lease[r]
         /\ lease' \in [Run -> [owner : Hosts \cup {NoHost}, epoch : 0..MaxEpoch, expired : BOOLEAN]]
<1> DEFINE epoch == [r \in Run |-> EpochOf(h, r)]
           view == [r \in Run |-> IF epoch[r] > 0 THEN host[h].view[r] ELSE Unknown]
           todo == {r \in Run : epoch[r] > 0}
<1>1. \A r \in Run : EpochOf(h, r) \in 0..MaxEpoch
  BY ConstantsAssumption DEF EpochOf, Acquirable, Types
<1>2. /\ lease' = [r \in Run |-> IF Acquirable(h, r) THEN [owner |-> h, epoch |-> epoch[r], expired |-> FALSE]
                                 ELSE lease[r]]
      /\ host' = [host EXCEPT ![h].pc = "fold", ![h].epoch = epoch, ![h].todo = todo, ![h].view = view]
      /\ given' = given
  BY DEF Leases, EpochOf
<1>3. epoch \in [Run -> 0..MaxEpoch] /\ view \in [Run -> Phase \cup {Unknown}] /\ todo \in SUBSET Run
  BY <1>1 DEF Types, HostType
<1> HIDE DEF epoch, view, todo
<1> DEFINE new == [host[h] EXCEPT !.pc = "fold", !.epoch = epoch, !.todo = todo, !.view = view]
<1>a. host[h] \in HostType /\ host \in [Hosts -> HostType]
  BY DEF Types
<1>b. host' = [host EXCEPT ![h] = new]
  BY <1>2
<1>c. new \in HostType /\ new.pc = "fold" /\ new.epoch = epoch /\ new.todo = todo /\ new.view = view
  BY <1>a, <1>3 DEF HostType, Pc
<1>4. Alone(h) /\ host'[h].pc = "fold" /\ host'[h].epoch = epoch /\ host'[h].todo = todo /\ host'[h].view = view
  <2> HIDE DEF new
  <2> QED
    BY <1>b, <1>c, <1>2, Updated
<1>5. host'[h].run = host[h].run /\ host'[h].tried = host[h].tried /\ host'[h].served = host[h].served
  BY <1>2 DEF Types, HostType
<1>6. lease' \in [Run -> [owner : Hosts \cup {NoHost}, epoch : 0..MaxEpoch, expired : BOOLEAN]]
  BY <1>1, <1>2 DEF Types, epoch
<1>7. \A r \in Run : epoch[r] = EpochOf(h, r)
  BY DEF epoch
<1>8. todo = {r \in Run : EpochOf(h, r) > 0} /\ \A r \in Run : view[r] = IF EpochOf(h, r) > 0 THEN host[h].view[r] ELSE Unknown
  BY <1>7 DEF view, todo
<1>9. \A r \in Run : lease'[r] = IF Acquirable(h, r) THEN [owner |-> h, epoch |-> EpochOf(h, r), expired |-> FALSE] ELSE lease[r]
  BY <1>2, <1>7
<1> QED
  BY <1>1, <1>4, <1>5, <1>6, <1>7, <1>8, <1>9

\* A host that moves on within its list: what it knows of run r is v afterwards.
Works(h, pc, todo, r, v) ==
  /\ Alone(h)
  /\ host'[h].pc = pc /\ host'[h].epoch = host[h].epoch /\ host'[h].todo = todo
  /\ host'[h].view[r] = v /\ \A q \in Run \ {r} : host'[h].view[q] = host[h].view[q]

\* A host whose list is empty goes on to the next part of its tick.
Turns(h, pc) ==
  /\ Alone(h)
  /\ host'[h].pc = pc /\ host'[h].epoch = host[h].epoch /\ host'[h].view = host[h].view
  /\ host'[h].todo = Owned(h) /\ host'[h].run = host[h].run

\* The cached state or the loaded one is a state.
LEMMA LoadedType ==
  ASSUME Types, NEW h \in Hosts, NEW r \in Run
  PROVE  Loaded(h, r) \in Phase /\ host[h] \in HostType /\ host[h].view \in [Run -> Phase \cup {Unknown}]
BY DEF Types, HostType, Loaded

\* What becomes of a run whose input is folded.
LEMMA EvolveType ==
  ASSUME NEW p \in Phase, NEW input \in Input
  PROVE  /\ Evolve(p, input) \in Phase
         /\ Evolve(p, input) = "running" => p = "running" \/ (p = "queued" /\ input = "claim_taken")
         /\ Evolve(p, input) = "parking" => p \in {"queued", "running", "parking"}
         /\ Over(Evolve(p, input)) => Over(p) \/ p = "parking"
         /\ Over(p) => Over(Evolve(p, input))
         /\ p = "absent" <=> Evolve(p, input) = "absent"
         /\ Evolve(p, input) = "queued" => p = "queued"
         /\ Evolve(p, input) = "releasing" => p \in {"parking", "releasing"}
         /\ Evolve(p, input) = "finished" => p = "finished" \/ (p = "releasing" /\ input = "claim_released")
BY DEF Evolve, Phase, Input, Over

\* The fold of a host, case by case.
FoldEnds(h) ==
  /\ host[h].todo = {} /\ Turns(h, "execute")
  /\ UNCHANGED <<phase, ran, inbox>>

FoldNothing(h, r) ==
  /\ inbox[r] = <<>> /\ Works(h, "fold", host[h].todo \ {r}, r, Loaded(h, r))
  /\ UNCHANGED <<phase, ran, inbox>>

FoldRefused(h, r) ==
  /\ Fenced(h, r) /\ Works(h, "fold", host[h].todo \ {r}, r, Unknown)
  /\ UNCHANGED <<phase, ran, inbox>>

FoldReloads(h, r) ==
  /\ Loaded(h, r) # phase[r] /\ Works(h, "fold", host[h].todo, r, Unknown)
  /\ UNCHANGED <<phase, ran, inbox>>

FoldInput(h, r) ==
  /\ inbox[r] # <<>> /\ ~Fenced(h, r)
  /\ Works(h, "fold", host[h].todo, r, phase'[r])
  /\ phase' = [phase EXCEPT ![r] = Evolve(phase[r], Head(inbox[r]))]
  /\ ran' = [ran EXCEPT ![r] = ran[r] \/ Evolve(phase[r], Head(inbox[r])) = "running"]
  /\ inbox' = [inbox EXCEPT ![r] = Tail(inbox[r])]

\* Fold is one of these.
LEMMA FoldShape ==
  ASSUME Types, NEW h \in Hosts, Fold(h)
  PROVE  /\ UNCHANGED <<given, claim, keys, lease>> /\ host[h].pc = "fold"
         /\ \/ FoldEnds(h)
            \/ \E r \in host[h].todo :
                 FoldNothing(h, r) \/ FoldRefused(h, r) \/ FoldReloads(h, r) \/ FoldInput(h, r)
<1>1. UNCHANGED <<given, claim, keys, lease>> /\ host[h].pc = "fold"
  BY DEF Fold
<1>2. host[h] \in HostType /\ Owned(h) \in SUBSET Run
  BY DEF Types, Owned
<1>3. ASSUME host[h].todo = {}, host' = [host EXCEPT ![h].pc = "execute", ![h].todo = Owned(h)],
             UNCHANGED <<phase, ran, inbox>>
      PROVE  FoldEnds(h)
  <2> DEFINE new == [host[h] EXCEPT !.pc = "execute", !.todo = Owned(h)]
  <2>1. host' = [host EXCEPT ![h] = new]
    BY <1>3
  <2>2. /\ new \in HostType /\ new.pc = "execute" /\ new.epoch = host[h].epoch /\ new.view = host[h].view
        /\ new.todo = Owned(h) /\ new.run = host[h].run
    BY <1>2 DEF HostType, Pc
  <2> HIDE DEF new
  <2>3. Alone(h) /\ host'[h] = new
    BY <1>1, <2>1, <2>2, Updated
  <2> QED
    BY <1>3, <2>2, <2>3 DEF FoldEnds, Turns
<1>4. ASSUME NEW r \in host[h].todo, NEW todo \in SUBSET Run, NEW v \in Phase \cup {Unknown},
             host' = [host EXCEPT ![h].todo = todo, ![h].view[r] = v]
      PROVE  Works(h, "fold", todo, r, v)
  <2> DEFINE new == [host[h] EXCEPT !.todo = todo, !.view[r] = v]
  <2>1. host' = [host EXCEPT ![h] = new]
    BY <1>4
  <2>2. /\ new \in HostType /\ new.pc = "fold" /\ new.epoch = host[h].epoch /\ new.todo = todo
        /\ new.view = [host[h].view EXCEPT ![r] = v]
    BY <1>1, <1>2 DEF HostType, Pc
  <2>3. new.view[r] = v /\ \A q \in Run \ {r} : new.view[q] = host[h].view[q]
    BY <1>2, <2>2 DEF HostType
  <2> HIDE DEF new
  <2>4. Alone(h) /\ host'[h] = new
    BY <1>1, <2>1, <2>2, Updated
  <2> QED
    BY <2>2, <2>3, <2>4 DEF Works
<1>5. ASSUME NEW r \in host[h].todo, NEW v \in Phase \cup {Unknown}, host' = [host EXCEPT ![h].view[r] = v]
      PROVE  Works(h, "fold", host[h].todo, r, v)
  <2> DEFINE new == [host[h] EXCEPT !.view[r] = v]
  <2>1. host' = [host EXCEPT ![h] = new]
    BY <1>5
  <2>2. /\ new \in HostType /\ new.pc = "fold" /\ new.epoch = host[h].epoch /\ new.todo = host[h].todo
        /\ new.view = [host[h].view EXCEPT ![r] = v]
    BY <1>1, <1>2 DEF HostType, Pc
  <2>3. new.view[r] = v /\ \A q \in Run \ {r} : new.view[q] = host[h].view[q]
    BY <1>2, <2>2 DEF HostType
  <2> HIDE DEF new
  <2>4. Alone(h) /\ host'[h] = new
    BY <1>1, <2>1, <2>2, Updated
  <2> QED
    BY <2>2, <2>3, <2>4 DEF Works
<1>6. CASE host[h].todo = {} /\ host' = [host EXCEPT ![h].pc = "execute", ![h].todo = Owned(h)] /\ UNCHANGED <<phase, ran, inbox>>
  BY <1>1, <1>3, <1>6
<1>7. ASSUME NEW r \in host[h].todo, inbox[r] = <<>>, UNCHANGED <<phase, ran, inbox>>,
             host' = [host EXCEPT ![h].todo = @ \ {r}, ![h].view[r] = Loaded(h, r)]
      PROVE  FoldNothing(h, r)
  <2>1. Loaded(h, r) \in Phase /\ host[h].todo \ {r} \in SUBSET Run
    BY <1>2, LoadedType DEF HostType
  <2>2. Works(h, "fold", host[h].todo \ {r}, r, Loaded(h, r))
    BY <1>4, <1>7, <2>1
  <2> QED
    BY <1>7, <2>2 DEF FoldNothing
<1>8. ASSUME NEW r \in host[h].todo, Fenced(h, r), UNCHANGED <<phase, ran, inbox>>,
             host' = [host EXCEPT ![h].todo = @ \ {r}, ![h].view[r] = Unknown]
      PROVE  FoldRefused(h, r)
  <2>1. host[h].todo \ {r} \in SUBSET Run
    BY <1>2 DEF HostType
  <2>2. Works(h, "fold", host[h].todo \ {r}, r, Unknown)
    BY <1>4, <1>8, <2>1
  <2> QED
    BY <1>8, <2>2 DEF FoldRefused
<1>9. ASSUME NEW r \in host[h].todo, Loaded(h, r) # phase[r], UNCHANGED <<phase, ran, inbox>>, host' = [host EXCEPT ![h].view[r] = Unknown]
      PROVE  FoldReloads(h, r)
  BY <1>5, <1>9 DEF FoldReloads
<1>10. ASSUME NEW r \in host[h].todo, inbox[r] # <<>>, ~Fenced(h, r),
              phase' = [phase EXCEPT ![r] = Evolve(@, Head(inbox[r]))],
              ran' = [ran EXCEPT ![r] = @ \/ phase'[r] = "running"],
              inbox' = [inbox EXCEPT ![r] = Tail(@)],
              host' = [host EXCEPT ![h].view[r] = phase'[r]]
       PROVE  FoldInput(h, r)
  <2>1. r \in Run /\ phase[r] \in Phase /\ Head(inbox[r]) \in Input
    BY <1>2, <1>10 DEF HostType, Types
  <2>2. phase'[r] = Evolve(phase[r], Head(inbox[r])) /\ phase'[r] \in Phase
    BY <1>10, <2>1, EvolveType DEF Types
  <2>3. Works(h, "fold", host[h].todo, r, phase'[r])
    BY <1>5, <1>10, <2>2
  <2> QED
    BY <1>10, <2>2, <2>3 DEF FoldInput
<1> QED
  BY <1>1, <1>6, <1>7, <1>8, <1>9, <1>10 DEF Fold

\* The effects of a host's runs, case by case.
ExecEnds(h) == host[h].todo = {} /\ Turns(h, "take") /\ ~host'[h].tried

ExecRun(h, r) ==
  /\ host'[h].run = r
  /\ \/ Works(h, "execute", host[h].todo \ {r}, r, Loaded(h, r))
     \/ ~StillOurs(h, r) /\ Works(h, "execute", host[h].todo \ {r}, r, Unknown)
     \/ Loaded(h, r) \in {"parking", "releasing"} /\ Works(h, Loaded(h, r), host[h].todo \ {r}, r, Loaded(h, r))

\* Execute is one of these.
LEMMA ExecuteShape ==
  ASSUME Types, NEW h \in Hosts, Execute(h)
  PROVE  /\ UNCHANGED <<given, claim, phase, ran, inbox, keys, lease>> /\ host[h].pc = "execute"
         /\ ExecEnds(h) \/ \E r \in host[h].todo : ExecRun(h, r)
<1>1. UNCHANGED <<given, claim, phase, ran, inbox, keys, lease>> /\ host[h].pc = "execute"
  BY DEF Execute
<1>2. host[h] \in HostType /\ Owned(h) \in SUBSET Run
  BY DEF Types, Owned
<1>3. ASSUME host[h].todo = {},
             host' = [host EXCEPT ![h].pc = "take", ![h].todo = Owned(h), ![h].tried = FALSE, ![h].served = FALSE]
      PROVE  ExecEnds(h)
  <2> DEFINE new == [host[h] EXCEPT !.pc = "take", !.todo = Owned(h), !.tried = FALSE, !.served = FALSE]
  <2>1. host' = [host EXCEPT ![h] = new]
    BY <1>3
  <2>2. /\ new \in HostType /\ new.pc = "take" /\ new.epoch = host[h].epoch /\ new.view = host[h].view
        /\ new.todo = Owned(h) /\ new.run = host[h].run /\ new.tried = FALSE
    BY <1>2 DEF HostType, Pc
  <2> HIDE DEF new
  <2>3. Alone(h) /\ host'[h] = new
    BY <1>1, <2>1, <2>2, Updated
  <2> QED
    BY <1>3, <2>2, <2>3 DEF ExecEnds, Turns
<1>4. ASSUME NEW r \in host[h].todo, NEW v \in Phase \cup {Unknown}, NEW pc \in Pc,
             host' = [host EXCEPT ![h].todo = @ \ {r}, ![h].run = r, ![h].view[r] = v, ![h].pc = pc]
      PROVE  Works(h, pc, host[h].todo \ {r}, r, v) /\ host'[h].run = r
  <2> DEFINE new == [host[h] EXCEPT !.todo = host[h].todo \ {r}, !.run = r, !.view[r] = v, !.pc = pc]
  <2>1. host' = [host EXCEPT ![h] = new]
    BY <1>4
  <2>2. /\ new \in HostType /\ new.pc = pc /\ new.epoch = host[h].epoch /\ new.todo = host[h].todo \ {r} /\ new.run = r
        /\ new.view = [host[h].view EXCEPT ![r] = v]
    BY <1>1, <1>2 DEF HostType
  <2>3. new.view[r] = v /\ \A q \in Run \ {r} : new.view[q] = host[h].view[q]
    BY <1>2, <2>2 DEF HostType
  <2> HIDE DEF new
  <2>4. Alone(h) /\ host'[h] = new
    BY <1>1, <2>1, <2>2, Updated
  <2> QED
    BY <2>2, <2>3, <2>4 DEF Works
<1>5. ASSUME NEW r \in host[h].todo, NEW owed \in BOOLEAN, owed <=> Loaded(h, r) \in {"parking", "releasing"},
             host' = [host EXCEPT ![h].todo = @ \ {r}, ![h].run = r,
                         ![h].view[r] = IF owed /\ ~StillOurs(h, r) THEN Unknown ELSE Loaded(h, r),
                         ![h].pc = IF owed /\ StillOurs(h, r) THEN Loaded(h, r) ELSE "execute"]
      PROVE  ExecRun(h, r)
  <2>1. r \in Run /\ Loaded(h, r) \in Phase
    BY <1>2, LoadedType DEF HostType
  <2>2. CASE owed /\ ~StillOurs(h, r)
    <3>1. host' = [host EXCEPT ![h].todo = @ \ {r}, ![h].run = r, ![h].view[r] = Unknown, ![h].pc = "execute"]
      BY <1>5, <2>2
    <3>2. "execute" \in Pc
      BY DEF Pc
    <3> QED
      BY <1>4, <2>2, <3>1, <3>2 DEF ExecRun
  <2>3. CASE owed /\ StillOurs(h, r)
    <3>1. host' = [host EXCEPT ![h].todo = @ \ {r}, ![h].run = r, ![h].view[r] = Loaded(h, r), ![h].pc = Loaded(h, r)]
      BY <1>5, <2>3
    <3>2. Loaded(h, r) \in Pc
      BY <1>5, <2>3 DEF Pc
    <3> QED
      BY <1>4, <1>5, <2>1, <2>3, <3>1, <3>2 DEF ExecRun
  <2>4. CASE ~owed
    <3>1. host' = [host EXCEPT ![h].todo = @ \ {r}, ![h].run = r, ![h].view[r] = Loaded(h, r), ![h].pc = "execute"]
      BY <1>5, <2>4
    <3>2. "execute" \in Pc
      BY DEF Pc
    <3> QED
      BY <1>4, <2>1, <3>1, <3>2 DEF ExecRun
  <2> QED
    BY <2>2, <2>3, <2>4
<1> QED
  BY <1>1, <1>3, <1>5 DEF Execute

\* A set of runs that is not empty has an oldest one, and that is the next.
LEMMA NextIsOldest ==
  ASSUME NEW runs \in SUBSET Run, runs # {}
  PROVE  NextInQueue(runs) \in runs /\ \A q \in runs : NextInQueue(runs) <= q
<1>1. runs \in SUBSET Nat
  BY ConstantsAssumption DEF Run
<1>2. PICK r \in runs : \A q \in runs : ~(<<q, r>> \in OpToRel(<, Nat))
  BY <1>1, NatLessThanWellFounded, WFMin
<1>3. \A q \in runs : ~(q < r)
  BY <1>1, <1>2, Zenon DEF OpToRel
<1>4. \A q \in runs : r <= q
  BY <1>1, <1>3
<1> QED
  BY <1>4 DEF NextInQueue

\* The claims a host takes, case by case.
TakeRun(h, r) ==
  /\ r \in host[h].todo /\ \A q \in host[h].todo : r <= q
  /\ host'[h].run = r /\ host'[h].tried = host[h].tried
  /\ \/ Loaded(h, r) = "queued" /\ claim = r /\ Works(h, "taken", host[h].todo \ {r}, r, Loaded(h, r))
     \/ /\ Loaded(h, r) = "queued" /\ claim = Free /\ ~host[h].tried
        /\ Works(h, "claim", host[h].todo \ {r}, r, Loaded(h, r))
     \/ /\ ~(Loaded(h, r) = "queued" /\ claim = Free /\ ~host[h].tried)
        /\ Works(h, "take", host[h].todo \ {r}, r, Loaded(h, r))

\* TakeNext is the end of the tick or one of these.
LEMMA TakeNextShape ==
  ASSUME Types, NEW h \in Hosts, TakeNext(h)
  PROVE  /\ UNCHANGED <<given, claim, phase, ran, inbox, keys, lease>> /\ host[h].pc = "take"
         /\ Moves(h, "idle") \/ \E r \in Run : TakeRun(h, r)
<1>1. UNCHANGED <<given, claim, phase, ran, inbox, keys, lease>> /\ host[h].pc = "take"
  BY DEF TakeNext
<1>2. host[h] \in HostType
  BY DEF Types
<1>3. CASE Goto(h, "idle")
  <2>1. "idle" \in Pc
    BY DEF Pc
  <2> QED
    BY <1>1, <1>3, <2>1, GotoShape
<1>4. CASE host[h].todo # {} /\ ~Goto(h, "idle")
  <2> DEFINE r == NextInQueue(host[h].todo)
             queued == Loaded(h, r) = "queued"
             pc == CASE queued /\ claim = r -> "taken"
                     [] queued /\ claim = Free /\ ~host[h].tried -> "claim"
                     [] OTHER -> "take"
             served == host[h].served \/ queued
             v == Loaded(h, r)
             new == [host[h] EXCEPT !.todo = host[h].todo \ {r}, !.run = r, !.view[r] = v, !.served = served, !.pc = pc]
  <2>1. host' = [host EXCEPT ![h] = new]
    BY <1>4 DEF TakeNext
  <2>2. r \in host[h].todo /\ r \in Run /\ \A q \in host[h].todo : r <= q
    BY <1>2, <1>4, NextIsOldest DEF HostType
  <2>3. v \in Phase /\ served \in BOOLEAN
    BY <1>2, <2>2, LoadedType DEF HostType
  <2>4. r # Free /\ r \in Int
    BY <2>2 DEF Free, Run
  <2>5. \/ queued /\ claim = r /\ pc = "taken"
        \/ queued /\ claim = Free /\ ~host[h].tried /\ pc = "claim"
        \/ ~(queued /\ claim = Free /\ ~host[h].tried) /\ pc = "take"
    <3> HIDE DEF r
    <3> QED
      BY <2>4
  <2>6. pc \in Pc
    BY <2>5 DEF Pc
  <2> HIDE DEF r, pc, served, v
  <2>7. /\ new \in HostType /\ new.pc = pc /\ new.epoch = host[h].epoch /\ new.todo = host[h].todo \ {r} /\ new.run = r
        /\ new.view = [host[h].view EXCEPT ![r] = v] /\ new.tried = host[h].tried
    BY <1>2, <2>2, <2>3, <2>6 DEF HostType
  <2>8. new.view[r] = v /\ \A q \in Run \ {r} : new.view[q] = host[h].view[q]
    BY <1>2, <2>2, <2>7 DEF HostType
  <2> HIDE DEF new
  <2>9. Alone(h) /\ host'[h] = new
    BY <1>1, <2>1, <2>7, Updated
  <2>10. Works(h, pc, host[h].todo \ {r}, r, v) /\ host'[h].run = r /\ host'[h].tried = host[h].tried
    BY <2>7, <2>8, <2>9 DEF Works
  <2>11. v = Loaded(h, r)
    BY DEF v
  <2>12. TakeRun(h, r)
    BY <2>2, <2>5, <2>10, <2>11 DEF TakeRun
  <2> QED
    BY <1>1, <2>2, <2>12
<1> QED
  BY <1>1, <1>3, <1>4 DEF TakeNext

\* The compare-and-set of the claim: the host goes on, having tried.
LEMMA TakeClaimShape ==
  ASSUME Types, NEW h \in Hosts, TakeClaim(h)
  PROVE  /\ UNCHANGED <<given, phase, ran, inbox, keys, lease>> /\ host[h].pc = "claim"
         /\ Alone(h) /\ host'[h].tried
         /\ host'[h].epoch = host[h].epoch /\ host'[h].view = host[h].view /\ host'[h].todo = host[h].todo
         /\ host'[h].run = host[h].run
         /\ \/ claim = Free /\ claim' = host[h].run /\ host'[h].pc = "taken"
            \/ claim # Free /\ claim' = claim /\ host'[h].pc = "take"
<1>1. UNCHANGED <<given, phase, ran, inbox, keys, lease>> /\ host[h].pc = "claim"
  BY DEF TakeClaim
<1>2. host[h] \in HostType
  BY DEF Types
<1>3. ASSUME NEW pc \in Pc, host' = [host EXCEPT ![h].pc = pc, ![h].tried = TRUE]
      PROVE  /\ Alone(h) /\ host'[h].tried /\ host'[h].pc = pc
             /\ host'[h].epoch = host[h].epoch /\ host'[h].view = host[h].view /\ host'[h].todo = host[h].todo
             /\ host'[h].run = host[h].run
  <2> DEFINE new == [host[h] EXCEPT !.pc = pc, !.tried = TRUE]
  <2>1. host' = [host EXCEPT ![h] = new]
    BY <1>3
  <2>2. /\ new \in HostType /\ new.pc = pc /\ new.epoch = host[h].epoch /\ new.todo = host[h].todo
        /\ new.run = host[h].run /\ new.view = host[h].view /\ new.tried = TRUE
    BY <1>2 DEF HostType
  <2> HIDE DEF new
  <2>3. Alone(h) /\ host'[h] = new
    BY <1>1, <2>1, <2>2, Updated
  <2> QED
    BY <2>2, <2>3
<1>4. "taken" \in Pc /\ "take" \in Pc
  BY DEF Pc
<1>5. CASE claim = Free
  BY <1>1, <1>3, <1>4, <1>5 DEF TakeClaim
<1>6. CASE claim # Free
  BY <1>1, <1>3, <1>4, <1>6 DEF TakeClaim
<1> QED
  BY <1>5, <1>6

\* A host that dies forgets everything.
LEMMA CrashShape ==
  ASSUME Types, NEW h \in Hosts, Crash(h)
  PROVE  /\ UNCHANGED <<given, claim, phase, ran, inbox, keys, lease>>
         /\ Alone(h) /\ host'[h].pc = "dead" /\ host'[h].todo = {}
         /\ \A r \in Run : host'[h].epoch[r] = 0 /\ host'[h].view[r] = Unknown
<1> DEFINE new == [Fresh EXCEPT !.pc = "dead"]
<1>1. UNCHANGED <<given, claim, phase, ran, inbox, keys, lease>> /\ host' = [host EXCEPT ![h] = new]
  BY DEF Crash
<1>2. 1 \in Run /\ 0 \in 0..MaxEpoch
  BY ConstantsAssumption DEF Run
<1>3. /\ new \in HostType /\ new.pc = "dead" /\ new.todo = {}
      /\ \A r \in Run : new.epoch[r] = 0 /\ new.view[r] = Unknown
  BY <1>2 DEF Fresh, HostType, Pc
<1> HIDE DEF new
<1>4. Alone(h) /\ host'[h] = new
  BY <1>1, <1>3, Updated
<1> QED
  BY <1>1, <1>3, <1>4

-----------------------------------------------------------------------------
(* The inbox.                                                              *)

\* An enqueue adds its input, if anything, at the end.
LEMMA Enqueued ==
  ASSUME Types, NEW r \in Run, NEW input \in Input, Enqueue(r, input)
  PROVE  /\ inbox' \in [Run -> Seq(Input)] /\ keys' \in [Run -> SUBSET Input]
         /\ \A q \in Run \ {r} : inbox'[q] = inbox[q]
         /\ \A q \in Run, x \in Input : Waits(q, x)' => Waits(q, x) \/ (q = r /\ x = input)
<1>1. inbox' \in [Run -> Seq(Input)] /\ keys' \in [Run -> SUBSET Input] /\ \A q \in Run \ {r} : inbox'[q] = inbox[q]
  BY DEF Types, Enqueue
<1>2. inbox'[r] = inbox[r] \/ inbox'[r] = Append(inbox[r], input)
  BY DEF Types, Enqueue
<1>3. ASSUME NEW q \in Run, NEW x \in Input, Waits(q, x)', ~Waits(q, x)
      PROVE  q = r /\ x = input
  <2>1. PICK i \in 1..Len(inbox'[q]) : inbox'[q][i] = x
    BY <1>3 DEF Waits
  <2>2. inbox[q] \in Seq(Input)
    BY DEF Types
  <2>3. q = r /\ inbox'[r] = Append(inbox[r], input)
    BY <1>1, <1>2, <1>3, <2>1 DEF Waits
  <2>4. i = Len(inbox[r]) + 1
    BY <1>3, <2>1, <2>2, <2>3 DEF Waits
  <2> QED
    BY <2>1, <2>2, <2>3, <2>4
<1> QED
  BY <1>1, <1>3

\* A fold takes the first input; what waits behind it waited before.
LEMMA Folded ==
  ASSUME Types, NEW r \in Run, inbox[r] # <<>>, inbox' = [inbox EXCEPT ![r] = Tail(inbox[r])]
  PROVE  /\ inbox' \in [Run -> Seq(Input)]
         /\ Head(inbox[r]) \in Input /\ Waits(r, Head(inbox[r]))
         /\ \A q \in Run, x \in Input : Waits(q, x)' => Waits(q, x)
<1>1. inbox[r] \in Seq(Input)
  BY DEF Types
<1>2. inbox' \in [Run -> Seq(Input)] /\ inbox'[r] = Tail(inbox[r]) /\ \A q \in Run \ {r} : inbox'[q] = inbox[q]
  BY <1>1 DEF Types
<1>3. Head(inbox[r]) \in Input /\ Waits(r, Head(inbox[r]))
  BY <1>1 DEF Waits
<1>4. ASSUME NEW q \in Run, NEW x \in Input, Waits(q, x)'
      PROVE  Waits(q, x)
  <2>1. PICK i \in 1..Len(inbox'[q]) : inbox'[q][i] = x
    BY <1>4 DEF Waits
  <2>2. CASE q = r
    <3>1. i + 1 \in 1..Len(inbox[r]) /\ inbox[r][i + 1] = x
      BY <1>1, <1>2, <2>1, <2>2
    <3> QED
      BY <2>2, <3>1 DEF Waits
  <2>3. CASE q # r
    BY <1>2, <2>1, <2>3 DEF Waits
  <2> QED
    BY <2>2, <2>3
<1> QED
  BY <1>2, <1>3, <1>4

-----------------------------------------------------------------------------
(* Every step keeps the invariant.                                         *)

\* What host h must be after its step.
HostInv(h) ==
  /\ StepInv(h) /\ \A r \in Run : ViewInv(h, r)
  /\ Stalls # "inside" => KnownInv(h) /\ \A r \in Run : OwnedInv(h, r)
  /\ Hosts = {h} => AloneInv(h)

\* A step that changes host h and nothing else.
LEMMA HostOnly ==
  ASSUME IInv, NEW h \in Hosts, Alone(h), UNCHANGED <<claim, phase, ran, inbox, keys, lease>>, HostInv(h)'
  PROVE  IInv'
<1>1. Types'
  BY DEF IInv, Types, Alone
<1>2. RunsInv' /\ QueueInv'
  BY DEF IInv, RunsInv, QueueInv, InTree, Waits, Alone
<1>3. Hosts' = Hosts /\ Stalls' = Stalls /\ \A g \in Hosts \ {h} : host'[g] = host[g]
  BY DEF Alone
<1>4. ASSUME NEW g \in Hosts \ {h}
      PROVE  /\ (StepInv(g)' <=> StepInv(g)) /\ (KnownInv(g)' <=> KnownInv(g))
             /\ \A r \in Run : (ViewInv(g, r)' <=> ViewInv(g, r)) /\ (OwnedInv(g, r)' <=> OwnedInv(g, r))
  <2>1. host'[g] = host[g]
    BY <1>3
  <2>2. \A r \in Run : \A x : Waits(r, x)' <=> Waits(r, x)
    BY DEF Waits
  <2> QED
    BY <2>1, <2>2 DEF StepInv, ViewInv, KnownInv, OwnedInv, Owned, Active
<1>5. HostsInv'
  BY <1>3, <1>4 DEF IInv, HostsInv, HostInv
<1>6. LeaseInv'
  <2>1. \A r \in Run : Waits(r, "claim_released")' <=> Waits(r, "claim_released")
    BY DEF Waits
  <2> QED
    BY <1>3, <1>4, <2>1 DEF IInv, LeaseInv, HostInv
<1>7. OrderInv'
  BY <1>3 DEF IInv, OrderInv, HostInv
<1> QED
  BY <1>1, <1>2, <1>5, <1>6, <1>7 DEF IInv

\* The invariant, of one host.
LEMMA HostNow ==
  ASSUME IInv, NEW h \in Hosts
  PROVE  HostInv(h) /\ Types /\ host[h] \in HostType /\ host[h].epoch \in [Run -> 0..MaxEpoch] /\ host[h].run \in Run
BY DEF IInv, HostInv, HostsInv, LeaseInv, OrderInv, Types, HostType

\* The folds that append nothing: the cache is filled, dropped, or the list is done.
LEMMA FoldKeepsQuiet ==
  ASSUME IInv, NEW h \in Hosts, host[h].pc = "fold", UNCHANGED <<given, claim, phase, ran, inbox, keys, lease>>,
         \/ FoldEnds(h)
         \/ \E r \in host[h].todo : FoldNothing(h, r) \/ FoldRefused(h, r) \/ FoldReloads(h, r)
  PROVE  IInv'
<1>1. HostInv(h) /\ host[h] \in HostType
  BY HostNow
<1>2. CASE FoldEnds(h)
  <2>1. Alone(h) /\ host'[h].pc = "execute" /\ host'[h].epoch = host[h].epoch /\ host'[h].view = host[h].view
        /\ host'[h].todo = Owned(h) /\ host[h].todo = {} /\ Stalls' = Stalls /\ Hosts' = Hosts
    BY <1>2 DEF FoldEnds, Turns, Alone
  <2>2. StepInv(h)' /\ \A r \in Run : ViewInv(h, r)'
    BY <1>1, <2>1 DEF HostInv, StepInv, ViewInv, Owned
  <2>3. Stalls # "inside" => KnownInv(h)' /\ \A r \in Run : OwnedInv(h, r)'
    BY <1>1, <2>1 DEF HostInv, KnownInv, OwnedInv, Active, Waits
  <2>4. Hosts = {h} => AloneInv(h)'
    BY <1>1, <2>1 DEF HostInv, AloneInv, Active
  <2> QED
    BY <2>1, <2>2, <2>3, <2>4, HostOnly DEF HostInv
<1>3. ASSUME NEW r \in host[h].todo, FoldNothing(h, r) \/ FoldRefused(h, r) \/ FoldReloads(h, r)
      PROVE  IInv'
  <2>0. r \in Run /\ host[h].epoch[r] > 0 /\ phase[r] # "absent" /\ phase[r] \in Phase
    BY <1>1 DEF HostType, HostInv, StepInv, Owned, ViewInv, IInv, Types
  <2>1. PICK todo, v : /\ Works(h, "fold", todo, r, v) /\ v \in {Unknown, Loaded(h, r)}
                       /\ \/ todo = host[h].todo \ {r} /\ v = Loaded(h, r) /\ inbox[r] = <<>>
                          \/ todo = host[h].todo \ {r} /\ Fenced(h, r)
                          \/ todo = host[h].todo /\ v = Unknown /\ Loaded(h, r) # phase[r]
    BY <1>3 DEF FoldNothing, FoldRefused, FoldReloads
  <2>2. Alone(h) /\ host'[h].pc = "fold" /\ host'[h].epoch = host[h].epoch /\ host'[h].todo = todo
        /\ host'[h].view[r] = v /\ (\A q \in Run \ {r} : host'[h].view[q] = host[h].view[q])
        /\ Stalls' = Stalls /\ Hosts' = Hosts
    BY <2>1 DEF Works, Alone
  <2>3. StepInv(h)'
    BY <1>1, <2>1, <2>2 DEF HostInv, StepInv, Owned
  <2>4. \A q \in Run : ViewInv(h, q)'
    <3>1. ViewInv(h, r)'
      BY <1>1, <2>0, <2>1, <2>2 DEF HostInv, ViewInv, Loaded
    <3>2. \A q \in Run \ {r} : ViewInv(h, q)'
      BY <1>1, <2>2 DEF HostInv, ViewInv
    <3> QED
      BY <3>1, <3>2
  <2>5. ASSUME Stalls # "inside"
        PROVE  KnownInv(h)' /\ \A q \in Run : OwnedInv(h, q)'
    <3>1. KnownInv(h)'
      BY <2>2 DEF KnownInv
    <3>2. OwnedInv(h, r) /\ Active(h) /\ Active(h)'
      BY <1>1, <2>0, <2>2, <2>5 DEF HostInv, Active
    <3>3. ~Fenced(h, r)
      BY <2>0, <3>2 DEF OwnedInv, Fenced
    <3>4. phase[r] = "finished" => host[h].view[r] = "finished" /\ Loaded(h, r) = "finished"
      BY <2>0, <3>2 DEF OwnedInv, Loaded, Unknown
    <3>5. phase[r] = "finished" => v = "finished"
      BY <2>1, <3>3, <3>4
    <3>6. r \notin todo => v = Loaded(h, r) /\ inbox[r] = <<>> /\ v # Unknown
      BY <1>1, <2>0, <2>1, <3>3, LoadedType, HostNow DEF Phase, Unknown
    <3>7. inbox[r] = <<>> => ~Waits(r, "claim_released")'
      BY DEF Waits
    <3>8. OwnedInv(h, r)'
      BY <2>0, <2>2, <3>2, <3>5, <3>6, <3>7 DEF OwnedInv
    <3>9. \A q \in Run \ {r} : OwnedInv(h, q)'
      BY <1>1, <2>1, <2>2, <2>5, <3>2 DEF HostInv, OwnedInv, Waits
    <3> QED
      BY <3>1, <3>8, <3>9
  <2>6. Hosts = {h} => AloneInv(h)'
    BY <1>1, <2>2 DEF HostInv, AloneInv, Active
  <2> QED
    BY <2>2, <2>3, <2>4, <2>5, <2>6, HostOnly DEF HostInv
<1> QED
  BY <1>2, <1>3

\* execute_run: the effect of what the host knows, or nothing.
LEMMA ExecuteKeeps ==
  ASSUME IInv, NEW h \in Hosts, Execute(h)
  PROVE  IInv'
<1>1. HostInv(h) /\ host[h] \in HostType /\ Types
  BY HostNow
<1>0. /\ UNCHANGED <<given, claim, phase, ran, inbox, keys, lease>> /\ host[h].pc = "execute"
      /\ ExecEnds(h) \/ \E r \in host[h].todo : ExecRun(h, r)
  BY <1>1, ExecuteShape
<1>2. CASE ExecEnds(h)
  <2>1. Alone(h) /\ host'[h].pc = "take" /\ host'[h].epoch = host[h].epoch /\ host'[h].view = host[h].view
        /\ host'[h].todo = Owned(h) /\ host[h].todo = {} /\ Stalls' = Stalls /\ Hosts' = Hosts
    BY <1>2 DEF ExecEnds, Turns, Alone
  <2>2. StepInv(h)' /\ \A r \in Run : ViewInv(h, r)'
    BY <1>0, <1>1, <2>1 DEF HostInv, StepInv, ViewInv, Owned
  <2>3. Stalls # "inside" => KnownInv(h)' /\ \A r \in Run : OwnedInv(h, r)'
    BY <1>0, <1>1, <2>1 DEF HostInv, KnownInv, OwnedInv, Active, Waits
  <2>4. Hosts = {h} => AloneInv(h)'
    BY <1>0, <1>1, <2>1 DEF HostInv, AloneInv, Active, Owned
  <2> QED
    BY <1>0, <2>1, <2>2, <2>3, <2>4, HostOnly DEF HostInv
<1>3. ASSUME NEW r \in host[h].todo, ExecRun(h, r)
      PROVE  IInv'
  <2>0. r \in Run /\ host[h].epoch[r] > 0 /\ phase[r] # "absent" /\ phase[r] \in Phase
    BY <1>1 DEF HostType, HostInv, StepInv, Owned, ViewInv, IInv, Types
  <2>1. PICK pc, v : /\ Works(h, pc, host[h].todo \ {r}, r, v) /\ v \in {Unknown, Loaded(h, r)}
                     /\ v = Loaded(h, r) \/ ~StillOurs(h, r)
                     /\ pc = "execute" \/ (pc = v /\ pc \in {"parking", "releasing"})
    BY <1>3 DEF ExecRun
  <2>2. Alone(h) /\ host'[h].pc = pc /\ host'[h].epoch = host[h].epoch /\ host'[h].todo = host[h].todo \ {r}
        /\ host'[h].view[r] = v /\ (\A q \in Run \ {r} : host'[h].view[q] = host[h].view[q]) /\ host'[h].run = r
        /\ Stalls' = Stalls /\ Hosts' = Hosts
    BY <1>3, <2>1 DEF Works, Alone, ExecRun
  <2>3. v # Unknown => v = Loaded(h, r) /\ (Over(v) => Over(phase[r])) /\ (phase[r] = "queued" => v = "queued")
    BY <1>1, <2>0, <2>1 DEF HostInv, ViewInv, Loaded
  <2>4. \A q \in Run : ViewInv(h, q)'
    <3>1. ViewInv(h, r)'
      BY <1>0, <2>0, <2>2, <2>3 DEF ViewInv
    <3>2. \A q \in Run \ {r} : ViewInv(h, q)'
      BY <1>0, <1>1, <2>2 DEF HostInv, ViewInv
    <3> QED
      BY <3>1, <3>2
  <2>5. StepInv(h)'
    <3>1. pc = "releasing" => Over(phase[r])
      BY <2>1, <2>3 DEF Over, Unknown
    <3> QED
      BY <1>0, <1>1, <2>0, <2>1, <2>2, <3>1 DEF HostInv, StepInv, Owned
  <2>6. ASSUME Stalls # "inside"
        PROVE  KnownInv(h)' /\ \A q \in Run : OwnedInv(h, q)'
    <3>1. OwnedInv(h, r) /\ Active(h) /\ Active(h)'
      BY <1>0, <1>1, <2>0, <2>1, <2>2, <2>6 DEF HostInv, Active
    <3>2. StillOurs(h, r) /\ host[h].view[r] # Unknown
      BY <1>0, <2>0, <3>1 DEF OwnedInv, Fenced, StillOurs
    <3>3. v = host[h].view[r]
      BY <2>1, <3>2 DEF Loaded
    <3>4. KnownInv(h)'
      BY <2>1, <2>2 DEF KnownInv
    <3>5. OwnedInv(h, r)'
      BY <1>0, <2>1, <2>2, <3>1, <3>3 DEF OwnedInv, Waits
    <3>6. \A q \in Run \ {r} : OwnedInv(h, q)'
      BY <1>0, <1>1, <2>1, <2>2, <2>6, <3>1 DEF HostInv, OwnedInv, Waits
    <3> QED
      BY <3>4, <3>5, <3>6
  <2>7. Hosts = {h} => AloneInv(h)'
    BY <1>0, <1>1, <2>1, <2>2 DEF HostInv, AloneInv, Active
  <2> QED
    BY <1>0, <2>2, <2>4, <2>5, <2>6, <2>7, HostOnly DEF HostInv
<1> QED
  BY <1>0, <1>2, <1>3

\* take_claims comes to a run, or to its end.
LEMMA TakeNextKeeps ==
  ASSUME IInv, NEW h \in Hosts, TakeNext(h)
  PROVE  IInv'
<1>1. HostInv(h) /\ host[h] \in HostType /\ Types
  BY HostNow
<1>0. /\ UNCHANGED <<given, claim, phase, ran, inbox, keys, lease>> /\ host[h].pc = "take"
      /\ Moves(h, "idle") \/ \E r \in Run : TakeRun(h, r)
  BY <1>1, TakeNextShape
<1>2. CASE Moves(h, "idle")
  <2>1. Alone(h) /\ host'[h].pc = "idle" /\ host'[h].epoch = host[h].epoch /\ host'[h].view = host[h].view
        /\ host'[h].todo = host[h].todo /\ Stalls' = Stalls /\ Hosts' = Hosts
    BY <1>2 DEF Moves, Alone
  <2>2. HostInv(h)'
    BY <1>0, <1>1, <2>1 DEF HostInv, StepInv, ViewInv, Owned, KnownInv, OwnedInv, AloneInv, Active
  <2> QED
    BY <1>0, <2>1, <2>2, HostOnly
<1>3. ASSUME NEW r \in Run, TakeRun(h, r)
      PROVE  IInv'
  <2>0. r \in host[h].todo /\ host[h].epoch[r] > 0 /\ phase[r] # "absent" /\ phase[r] \in Phase
        /\ \A q \in host[h].todo : r <= q
    BY <1>1, <1>3 DEF HostType, HostInv, StepInv, Owned, ViewInv, IInv, Types, TakeRun
  <2>1. PICK pc : /\ Works(h, pc, host[h].todo \ {r}, r, Loaded(h, r))
                  /\ \/ pc = "taken" /\ Loaded(h, r) = "queued" /\ claim = r
                     \/ pc = "claim" /\ Loaded(h, r) = "queued" /\ claim = Free /\ ~host[h].tried
                     \/ pc = "take" /\ ~(Loaded(h, r) = "queued" /\ claim = Free /\ ~host[h].tried)
    BY <1>3 DEF TakeRun
  <2> DEFINE v == Loaded(h, r)
  <2>2. Alone(h) /\ host'[h].pc = pc /\ host'[h].epoch = host[h].epoch /\ host'[h].todo = host[h].todo \ {r}
        /\ host'[h].view[r] = v /\ (\A q \in Run \ {r} : host'[h].view[q] = host[h].view[q]) /\ host'[h].run = r
        /\ host'[h].tried = host[h].tried /\ Stalls' = Stalls /\ Hosts' = Hosts
    BY <1>3, <2>1 DEF Works, Alone, TakeRun
  <2>3. (Over(v) => Over(phase[r])) /\ (phase[r] = "queued" => v = "queued")
    BY <1>1, <2>0 DEF HostInv, ViewInv, Loaded
  <2>4. \A q \in Run : ViewInv(h, q)'
    <3>1. ViewInv(h, r)'
      BY <1>0, <2>0, <2>2, <2>3 DEF ViewInv
    <3>2. \A q \in Run \ {r} : ViewInv(h, q)'
      BY <1>0, <1>1, <2>2 DEF HostInv, ViewInv
    <3> QED
      BY <3>1, <3>2
  <2>5. StepInv(h)'
    BY <1>0, <1>1, <2>0, <2>1, <2>2 DEF HostInv, StepInv, Owned
  <2>6. ASSUME Stalls # "inside"
        PROVE  KnownInv(h)' /\ \A q \in Run : OwnedInv(h, q)'
    <3>1. OwnedInv(h, r) /\ Active(h) /\ Active(h)'
      BY <1>0, <1>1, <2>0, <2>1, <2>2, <2>6 DEF HostInv, Active
    <3>2. host[h].view[r] # Unknown
      BY <1>0, <2>0, <3>1 DEF OwnedInv
    <3>3. v = host[h].view[r]
      BY <3>2 DEF Loaded
    <3>4. KnownInv(h)'
      BY <2>1, <2>2 DEF KnownInv
    <3>5. OwnedInv(h, r)'
      BY <1>0, <2>1, <2>2, <3>1, <3>3 DEF OwnedInv, Waits
    <3>6. \A q \in Run \ {r} : OwnedInv(h, q)'
      BY <1>0, <1>1, <2>1, <2>2, <2>6, <3>1 DEF HostInv, OwnedInv, Waits
    <3> QED
      BY <3>4, <3>5, <3>6
  <2>7. ASSUME Hosts = {h}
        PROVE  AloneInv(h)'
    <3>1. AloneInv(h)
      BY <1>1, <2>7 DEF HostInv
    <3>2. host[h].todo \in SUBSET Run /\ \A q \in host[h].todo \ {r} : q > r
      BY <1>1, <2>0 DEF HostType, Run
    <3>3. \A q, p \in Run : q < p /\ host[h].epoch[p] > 0 /\ phase[q] = "queued" => host[h].epoch[q] > 0
      BY <1>0, <3>1 DEF AloneInv, Active
    <3>4. ~host[h].tried /\ claim = Free =>
            \A q \in Run : host[h].epoch[q] > 0 /\ q \notin host[h].todo => phase[q] # "queued"
      BY <1>0, <3>1 DEF AloneInv
    <3>5. CASE pc = "taken"
      <4>1. claim # Free
        BY <2>1, <3>5 DEF Free, Run
      <4> QED
        BY <1>0, <2>2, <3>3, <3>5, <4>1 DEF AloneInv
    <3>6. CASE pc = "claim"
      BY <1>0, <2>1, <2>2, <3>2, <3>3, <3>4, <3>6 DEF AloneInv
    <3>7. CASE pc = "take"
      <4>1. ~host[h].tried /\ claim = Free => phase[r] # "queued"
        BY <2>1, <2>3, <3>7
      <4> QED
        BY <1>0, <2>2, <3>3, <3>4, <3>7, <4>1 DEF AloneInv
    <3> QED
      BY <2>1, <3>5, <3>6, <3>7
  <2> QED
    BY <1>0, <2>2, <2>4, <2>5, <2>6, <2>7, HostOnly DEF HostInv
<1> QED
  BY <1>0, <1>2, <1>3

\* release_claim's get.
LEMMA LookBeforeReleaseKeeps ==
  ASSUME IInv, NEW h \in Hosts, LookBeforeRelease(h)
  PROVE  IInv'
<1>1. HostInv(h) /\ host[h] \in HostType /\ Types
  BY HostNow
<1>2. PICK pc \in Pc : Goto(h, pc) /\ pc \in {"release", "released"} /\ (pc = "released" => claim # host[h].run)
  BY DEF LookBeforeRelease, Pc
<1>3. UNCHANGED <<given, claim, phase, ran, inbox, keys, lease>> /\ host[h].pc = "releasing"
  BY DEF LookBeforeRelease
<1>4. Moves(h, pc)
  BY <1>1, <1>2, <1>3, GotoShape
<1>5. Alone(h) /\ host'[h].pc = pc /\ host'[h].epoch = host[h].epoch /\ host'[h].view = host[h].view
      /\ host'[h].todo = host[h].todo /\ host'[h].run = host[h].run /\ Stalls' = Stalls /\ Hosts' = Hosts
  BY <1>4 DEF Moves, Alone
<1>6. StepInv(h)' /\ \A r \in Run : ViewInv(h, r)'
  BY <1>1, <1>2, <1>3, <1>5 DEF HostInv, StepInv, ViewInv, Owned
<1>7. Stalls # "inside" => KnownInv(h)' /\ \A r \in Run : OwnedInv(h, r)'
  BY <1>1, <1>2, <1>3, <1>5 DEF HostInv, KnownInv, OwnedInv, Active, Waits
<1>8. Hosts = {h} => AloneInv(h)'
  BY <1>1, <1>2, <1>3, <1>5 DEF HostInv, AloneInv, Active
<1> QED
  BY <1>3, <1>5, <1>6, <1>7, <1>8, HostOnly DEF HostInv

\* A dead host does nothing.
LEMMA CrashKeeps ==
  ASSUME IInv, NEW h \in Hosts, Crash(h)
  PROVE  IInv'
<1>1. Types
  BY DEF IInv
<1>2. /\ UNCHANGED <<given, claim, phase, ran, inbox, keys, lease>>
      /\ Alone(h) /\ host'[h].pc = "dead" /\ host'[h].todo = {}
      /\ \A r \in Run : host'[h].epoch[r] = 0 /\ host'[h].view[r] = Unknown
  BY <1>1, CrashShape
<1>3. HostInv(h)'
  BY <1>2 DEF HostInv, StepInv, ViewInv, Owned, KnownInv, OwnedInv, AloneInv, Active
<1> QED
  BY <1>2, <1>3, HostOnly

\* Two hosts inside their ticks do not own the same run.
LEMMA OneOwner ==
  ASSUME IInv, Stalls # "inside", NEW g \in Hosts, NEW h \in Hosts, NEW r \in Run,
         Active(g), Active(h), host[g].epoch[r] > 0, host[h].epoch[r] > 0
  PROVE  g = h
BY DEF IInv, LeaseInv, OwnedInv

\* The leases of a tick.
LEMMA LeasesKeeps ==
  ASSUME IInv, NEW h \in Hosts, Leases(h)
  PROVE  IInv'
<1>1. HostInv(h) /\ host[h] \in HostType /\ Types /\ RunsInv /\ QueueInv
  BY HostNow DEF IInv
<1>2. UNCHANGED <<given, claim, phase, ran, inbox, keys>> /\ host[h].pc = "idle"
  BY DEF Leases
<1>3. /\ Alone(h) /\ Hosts' = Hosts /\ Stalls' = Stalls /\ \A g \in Hosts \ {h} : host'[g] = host[g]
      /\ host'[h].pc = "fold" /\ host'[h].todo = {r \in Run : EpochOf(h, r) > 0}
      /\ \A r \in Run : /\ EpochOf(h, r) \in 0..MaxEpoch
                        /\ host'[h].epoch[r] = EpochOf(h, r)
                        /\ host'[h].view[r] = IF EpochOf(h, r) > 0 THEN host[h].view[r] ELSE Unknown
                        /\ lease'[r] = IF Acquirable(h, r) THEN [owner |-> h, epoch |-> EpochOf(h, r), expired |-> FALSE]
                                       ELSE lease[r]
      /\ lease' \in [Run -> [owner : Hosts \cup {NoHost}, epoch : 0..MaxEpoch, expired : BOOLEAN]]
  BY <1>1, LeasesShape DEF Alone
<1>4. \A r \in Run : EpochOf(h, r) > 0 <=> Acquirable(h, r)
  <2>1. \A r \in Run : lease[r].epoch \in 0..MaxEpoch /\ lease[r].expired \in BOOLEAN
    BY <1>1 DEF Types
  <2> QED
    BY <1>1, <2>1, ConstantsAssumption DEF EpochOf, QueueInv
<1>5. \A r \in Run : Acquirable(h, r) => phase[r] \notin {"absent", "finished"}
  BY DEF Acquirable, Open
<1>6. Types'
  BY <1>1, <1>2, <1>3 DEF Types, Alone
<1>7. RunsInv'
  BY <1>1, <1>2 DEF RunsInv, InTree, Waits
<1>8. HostsInv'
  <2>1. StepInv(h)'
    BY <1>3 DEF StepInv, Owned
  <2>2. \A r \in Run : ViewInv(h, r)'
    BY <1>1, <1>2, <1>3, <1>4, <1>5 DEF HostInv, ViewInv
  <2>3. \A g \in Hosts \ {h} : StepInv(g)' /\ \A r \in Run : ViewInv(g, r)'
    BY <1>2, <1>3 DEF IInv, HostsInv, StepInv, ViewInv, Owned
  <2> QED
    BY <1>3, <2>1, <2>2, <2>3 DEF HostsInv
<1>9. LeaseInv'
  <2> SUFFICES ASSUME Stalls # "inside"
               PROVE  /\ \A g \in Hosts : KnownInv(g)' /\ \A r \in Run : OwnedInv(g, r)'
                      /\ \A r \in Run : /\ Waits(r, "claim_released")' => claim # r
                                        /\ phase[r] = "finished" => claim # r
    BY <1>2, <1>3 DEF LeaseInv
  <2>1. \A r \in Run : /\ Waits(r, "claim_released")' => claim # r
                       /\ phase[r] = "finished" => claim # r
    BY <1>2 DEF IInv, LeaseInv, Waits
  <2>2. KnownInv(h)'
    BY <1>3 DEF KnownInv
  <2>3. \A r \in Run : OwnedInv(h, r)'
    BY <1>2, <1>3, <1>4, <1>5 DEF OwnedInv
  <2>4. ASSUME NEW g \in Hosts \ {h}
        PROVE  KnownInv(g)' /\ \A r \in Run : OwnedInv(g, r)'
    <3>1. KnownInv(g) /\ \A r \in Run : OwnedInv(g, r)
      BY DEF IInv, LeaseInv
    <3>2. host'[g] = host[g]
      BY <1>3
    <3>3. \A r \in Run : Active(g) /\ host[g].epoch[r] > 0 => ~Acquirable(h, r)
      BY <3>1 DEF OwnedInv, Acquirable
    <3>4. \A r \in Run : Active(g) /\ host[g].epoch[r] > 0 => lease'[r] = lease[r]
      BY <1>3, <3>3
    <3> QED
      BY <1>2, <3>1, <3>2, <3>4 DEF KnownInv, OwnedInv, Active, Waits
  <2> QED
    BY <2>1, <2>2, <2>3, <2>4
<1>10. QueueInv'
  <2>1. ASSUME NEW r \in Run, Acquirable(h, r)
        PROVE  ~lease'[r].expired /\ lease'[r].owner \in Hosts /\ lease'[r].epoch > 0
    BY <1>3, <1>4, <2>1
  <2>2. \A r \in Run : ~Acquirable(h, r) => lease'[r] = lease[r]
    BY <1>3
  <2>3. \A r \in Run : /\ lease'[r].expired => lease'[r].epoch < MaxEpoch
                       /\ ~lease'[r].expired => lease'[r].owner \in Hosts /\ lease'[r].epoch > 0
    BY <1>1, <2>1, <2>2 DEF QueueInv
  <2> QED
    BY <1>1, <1>2, <1>3, <2>3 DEF QueueInv
<1>11. OrderInv'
  <2> SUFFICES ASSUME Hosts = {h}
               PROVE  AloneInv(h)'
    BY <1>3 DEF OrderInv
  <2>1. \A q \in Run : phase[q] = "queued" => Acquirable(h, q)
    BY <1>1 DEF QueueInv, Acquirable, Open
  <2> QED
    BY <1>2, <1>3, <1>4, <2>1 DEF AloneInv
<1> QED
  BY <1>6, <1>7, <1>8, <1>9, <1>10, <1>11 DEF IInv

\* An append: the run moves on and takes its input with it.
LEMMA FoldInputKeeps ==
  ASSUME IInv, NEW h \in Hosts, NEW r \in host[h].todo, host[h].pc = "fold", UNCHANGED <<given, claim, keys, lease>>,
         FoldInput(h, r)
  PROVE  IInv'
<1>1. HostInv(h) /\ host[h] \in HostType /\ Types /\ RunsInv /\ QueueInv
  BY HostNow DEF IInv
<1>2. r \in Run /\ host[h].epoch[r] > 0 /\ phase[r] # "absent" /\ phase[r] \in Phase
  BY <1>1 DEF HostType, HostInv, StepInv, Owned, ViewInv, Types
<1> DEFINE input == Head(inbox[r])
           next == Evolve(phase[r], input)
<1>3. /\ phase' = [phase EXCEPT ![r] = next] /\ ran' = [ran EXCEPT ![r] = ran[r] \/ next = "running"]
      /\ inbox' = [inbox EXCEPT ![r] = Tail(inbox[r])] /\ inbox[r] # <<>>
      /\ Works(h, "fold", host[h].todo, r, phase'[r])
  BY DEF FoldInput
<1>4. /\ inbox' \in [Run -> Seq(Input)] /\ input \in Input /\ Waits(r, input)
      /\ \A q \in Run, x \in Input : Waits(q, x)' => Waits(q, x)
  BY <1>1, <1>2, <1>3, Folded
<1>5. /\ next \in Phase
      /\ next = "running" => phase[r] = "running" \/ (phase[r] = "queued" /\ input = "claim_taken")
      /\ next = "parking" => phase[r] \in {"queued", "running", "parking"}
      /\ Over(phase[r]) => Over(next)
      /\ next # "absent"
      /\ next = "queued" => phase[r] = "queued"
      /\ next = "finished" => phase[r] = "finished" \/ (phase[r] = "releasing" /\ input = "claim_released")
  BY <1>2, <1>4, EvolveType
<1> HIDE DEF next, input
<1>6. /\ phase'[r] = next /\ (ran'[r] <=> ran[r] \/ next = "running")
      /\ \A q \in Run \ {r} : phase'[q] = phase[q] /\ ran'[q] = ran[q]
  BY <1>1, <1>2, <1>3 DEF Types
<1>7. /\ Alone(h) /\ Hosts' = Hosts /\ Stalls' = Stalls /\ \A g \in Hosts \ {h} : host'[g] = host[g]
      /\ host'[h].pc = "fold" /\ host'[h].epoch = host[h].epoch /\ host'[h].todo = host[h].todo
      /\ host'[h].view[r] = next /\ \A q \in Run \ {r} : host'[h].view[q] = host[h].view[q]
  BY <1>3, <1>6 DEF Works, Alone
<1>8. \A q \in Run : phase'[q] = "queued" => phase[q] = "queued"
  BY <1>5, <1>6
<1>9. \A q \in Run : (Over(phase[q]) => Over(phase'[q])) /\ (phase[q] # "absent" => phase'[q] # "absent")
  BY <1>5, <1>6
<1>10. \A x \in {"claim_taken", "claim_released"} : x \in Input
  BY DEF Input
<1>11. Types'
  <2>1. phase' \in [Run -> Phase] /\ ran' \in [Run -> BOOLEAN]
    BY <1>1, <1>2, <1>3, <1>5 DEF Types
  <2> QED
    BY <1>1, <1>4, <1>7, <2>1 DEF Types, Alone
<1>12. RunsInv'
  <2>1. phase[r] = "queued" => ~ran[r]
    BY <1>1, <1>2 DEF RunsInv
  <2>2. ran[r] /\ next = "parking" => r \in InTree
    BY <1>2, <1>5, <2>1 DEF InTree
  <2>3. next = "running" => claim = r
    BY <1>1, <1>2, <1>4, <1>5, <1>10 DEF RunsInv, InTree
  <2>4. /\ next \in {"absent", "queued"} => ~ran'[r]
        /\ next = "running" => ran'[r]
        /\ next = "running" \/ (next = "parking" /\ ran'[r]) => claim = r
    BY <1>1, <1>2, <1>5, <1>6, <2>1, <2>2, <2>3 DEF RunsInv
  <2>5. Waits(r, "claim_taken")' => next # "absent" /\ (next = "queued" => claim = r)
    BY <1>1, <1>2, <1>4, <1>5, <1>10 DEF RunsInv
  <2>6. \A q \in Run \ {r} : Waits(q, "claim_taken")' => phase[q] # "absent" /\ (phase[q] = "queued" => claim = q)
    BY <1>1, <1>4, <1>10 DEF RunsInv
  <2>7. \A q \in Run \ {r} : /\ phase[q] \in {"absent", "queued"} => ~ran[q]
                             /\ phase[q] = "running" => ran[q]
                             /\ phase[q] = "running" \/ (phase[q] = "parking" /\ ran[q]) => claim = q
    BY <1>1 DEF RunsInv, InTree
  <2> QED
    BY <1>6, <2>4, <2>5, <2>6, <2>7 DEF RunsInv, InTree
<1>13. HostsInv'
  <2>1. \A g \in Hosts : host'[g].epoch = host[g].epoch /\ host'[g].todo = host[g].todo /\ host'[g].pc = host[g].pc
    BY <1>7
  <2>2. StepInv(h)'
    BY <1>1, <1>7 DEF HostInv, StepInv, Owned
  <2>3. ASSUME NEW g \in Hosts \ {h}
        PROVE  StepInv(g)'
    <3>1. StepInv(g) /\ host'[g] = host[g] /\ host[g].run \in Run
      BY <1>7, HostNow DEF IInv, HostsInv
    <3> QED
      BY <1>8, <1>9, <3>1 DEF StepInv, Owned
  <2>4. ViewInv(h, r)'
    BY <1>2, <1>5, <1>6, <1>7 DEF ViewInv
  <2>5. \A g \in Hosts, q \in Run : <<g, q>> # <<h, r>> => ViewInv(g, q)'
    <3>1. \A g \in Hosts, q \in Run : ViewInv(g, q)
      BY DEF IInv, HostsInv
    <3> QED
      BY <1>7, <1>8, <1>9, <3>1 DEF ViewInv
  <2> QED
    BY <1>7, <2>2, <2>3, <2>4, <2>5 DEF HostsInv
<1>14. LeaseInv'
  <2> SUFFICES ASSUME Stalls # "inside"
               PROVE  /\ \A g \in Hosts : KnownInv(g)' /\ \A q \in Run : OwnedInv(g, q)'
                      /\ \A q \in Run : /\ Waits(q, "claim_released")' => claim # q
                                        /\ phase'[q] = "finished" => claim # q
    BY <1>7 DEF LeaseInv
  <2>0. \A g \in Hosts : KnownInv(g) /\ \A q \in Run : OwnedInv(g, q)
    BY DEF IInv, LeaseInv
  <2>1. \A q \in Run : /\ Waits(q, "claim_released") => claim # q
                       /\ phase[q] = "finished" => claim # q
    BY DEF IInv, LeaseInv
  <2>2. \A q \in Run : /\ Waits(q, "claim_released")' => claim # q
                       /\ phase'[q] = "finished" => claim # q
    BY <1>4, <1>5, <1>6, <1>10, <2>1
  <2>3. Active(h) /\ lease[r].owner = h
    BY <1>2, <2>0 DEF Active, OwnedInv
  <2>4. KnownInv(h)'
    BY <1>7 DEF KnownInv
  <2>5. \A g \in Hosts \ {h} : KnownInv(g)'
    BY <1>7, <2>0 DEF KnownInv
  <2>6. OwnedInv(h, r)'
    BY <1>2, <1>6, <1>7, <2>0, <2>3 DEF OwnedInv, Active
  <2>7. \A q \in Run \ {r} : OwnedInv(h, q)'
    <3>1. \A q \in Run \ {r} : Waits(q, "claim_released")' => Waits(q, "claim_released")
      BY <1>4, <1>10
    <3> QED
      BY <1>6, <1>7, <2>0, <2>3, <3>1 DEF OwnedInv, Active
  <2>8. ASSUME NEW g \in Hosts \ {h}, NEW q \in Run
        PROVE  OwnedInv(g, q)'
    <3>1. OwnedInv(g, q) /\ host'[g] = host[g] /\ (Waits(q, "claim_released")' => Waits(q, "claim_released"))
      BY <1>4, <1>7, <1>10, <2>0
    <3>2. Active(g) /\ host[g].epoch[q] > 0 => q # r
      BY <2>3, <3>1 DEF OwnedInv
    <3> QED
      BY <1>6, <3>1, <3>2 DEF OwnedInv, Active
  <2> QED
    BY <2>2, <2>4, <2>5, <2>6, <2>7, <2>8
<1>15. QueueInv'
  <2>1. \A q \in Run : phase'[q] # "absent" <=> phase[q] # "absent"
    BY <1>2, <1>5, <1>6
  <2> QED
    BY <1>1, <1>7, <2>1 DEF QueueInv
<1>16. OrderInv'
  BY <1>1, <1>7, <1>8 DEF OrderInv, HostInv, AloneInv, Active
<1> QED
  BY <1>11, <1>12, <1>13, <1>14, <1>15, <1>16 DEF IInv

\* A step that enqueues an input and changes at most the hosts: what is enqueued has to be true.
LEMMA InboxOnly ==
  ASSUME IInv, UNCHANGED <<given, claim, phase, ran, lease>>, host' \in [Hosts -> HostType],
         NEW r \in Run, NEW input \in Input, Enqueue(r, input),
         input = "claim_taken" => phase[r] # "absent" /\ (phase[r] = "queued" => claim = r),
         Stalls # "inside" /\ input = "claim_released" =>
           claim # r /\ \A g \in Hosts : host'[g] = host[g] => ~(Active(g) /\ host[g].epoch[r] > 0),
         \A g \in Hosts : host'[g] = host[g] \/ HostInv(g)'
  PROVE  IInv'
<1>1. Hosts' = Hosts /\ Stalls' = Stalls
  BY DEF Hosts, Stalls
<1>2. /\ inbox' \in [Run -> Seq(Input)] /\ keys' \in [Run -> SUBSET Input]
      /\ \A q \in Run, x \in Input : Waits(q, x)' => Waits(q, x) \/ (q = r /\ x = input)
  BY Enqueued DEF IInv
<1>3. \A x \in {"claim_taken", "claim_released"} : x \in Input
  BY DEF Input
<1>4. Types'
  BY <1>1, <1>2 DEF IInv, Types
<1>5. RunsInv'
  <2>1. \A q \in Run : Waits(q, "claim_taken")' => phase[q] # "absent" /\ (phase[q] = "queued" => claim = q)
    BY <1>2, <1>3 DEF IInv, RunsInv
  <2> QED
    BY <2>1 DEF IInv, RunsInv, InTree
<1>6. HostsInv'
  <2>1. ASSUME NEW g \in Hosts, host'[g] = host[g]
        PROVE  StepInv(g)' /\ \A q \in Run : ViewInv(g, q)'
    BY <2>1 DEF IInv, HostsInv, StepInv, ViewInv, Owned
  <2> QED
    BY <1>1, <2>1 DEF HostsInv, HostInv
<1>7. LeaseInv'
  <2> SUFFICES ASSUME Stalls # "inside"
               PROVE  /\ \A g \in Hosts : KnownInv(g)' /\ \A q \in Run : OwnedInv(g, q)'
                      /\ \A q \in Run : /\ Waits(q, "claim_released")' => claim # q
                                        /\ phase[q] = "finished" => claim # q
    BY <1>1 DEF LeaseInv
  <2>1. \A q \in Run : /\ Waits(q, "claim_released") => claim # q
                       /\ phase[q] = "finished" => claim # q
    BY DEF IInv, LeaseInv
  <2>2. \A q \in Run : /\ Waits(q, "claim_released")' => claim # q
                       /\ phase[q] = "finished" => claim # q
    BY <1>2, <1>3, <2>1
  <2>3. ASSUME NEW g \in Hosts, host'[g] = host[g]
        PROVE  KnownInv(g)' /\ \A q \in Run : OwnedInv(g, q)'
    <3>1. KnownInv(g) /\ \A q \in Run : OwnedInv(g, q)
      BY DEF IInv, LeaseInv
    <3>2. \A q \in Run : Active(g) /\ host[g].epoch[q] > 0 /\ Waits(q, "claim_released")' => Waits(q, "claim_released")
      BY <1>2, <1>3, <2>3
    <3>3. \A q \in Run : OwnedInv(g, q)'
      BY <2>3, <3>1, <3>2 DEF OwnedInv, Active
    <3> QED
      BY <2>3, <3>1, <3>3 DEF KnownInv
  <2> QED
    BY <1>1, <2>2, <2>3 DEF HostInv
<1>8. QueueInv'
  BY <1>1 DEF IInv, QueueInv
<1>9. OrderInv'
  <2>1. ASSUME NEW g \in Hosts, host'[g] = host[g], Hosts = {g}
        PROVE  AloneInv(g)'
    BY <2>1 DEF IInv, OrderInv, AloneInv, Active
  <2> QED
    BY <1>1, <2>1 DEF OrderInv, HostInv
<1> QED
  BY <1>4, <1>5, <1>6, <1>7, <1>8, <1>9 DEF IInv

\* park_tree.
LEMMA ParkTreeKeeps ==
  ASSUME IInv, NEW h \in Hosts, ParkTree(h)
  PROVE  IInv'
<1>1. HostInv(h) /\ host[h] \in HostType /\ Types /\ host[h].run \in Run
  BY HostNow
<1>2. UNCHANGED <<given, claim, phase, ran, lease>> /\ host[h].pc = "parking" /\ Goto(h, "execute")
  BY DEF ParkTree
<1>3. "execute" \in Pc /\ "tree_parked" \in Input
  BY DEF Pc, Input
<1>4. Moves(h, "execute")
  BY <1>1, <1>2, <1>3, GotoShape
<1>5. Alone(h) /\ host'[h].pc = "execute" /\ host'[h].epoch = host[h].epoch /\ host'[h].view = host[h].view
      /\ host'[h].todo = host[h].todo /\ host'[h].run = host[h].run /\ Stalls' = Stalls /\ Hosts' = Hosts
      /\ host' \in [Hosts -> HostType] /\ \A g \in Hosts \ {h} : host'[g] = host[g]
  BY <1>4 DEF Moves, Alone
<1>6. \A q \in Run : Waits(q, "claim_released")' => Waits(q, "claim_released")
  <2>1. CASE Enqueue(host[h].run, "tree_parked")
    <3>1. "claim_released" \in Input
      BY DEF Input
    <3> QED
      BY <1>1, <1>3, <2>1, <3>1, Enqueued
  <2>2. CASE UNCHANGED inbox
    BY <2>2 DEF Waits
  <2> QED
    BY <2>1, <2>2 DEF ParkTree
<1>7. StepInv(h)' /\ \A r \in Run : ViewInv(h, r)'
  BY <1>1, <1>2, <1>5 DEF HostInv, StepInv, ViewInv, Owned
<1>8. Stalls # "inside" => KnownInv(h)' /\ \A r \in Run : OwnedInv(h, r)'
  BY <1>1, <1>2, <1>5, <1>6 DEF HostInv, KnownInv, OwnedInv, Active
<1>9. Hosts = {h} => AloneInv(h)'
  BY <1>1, <1>2, <1>5 DEF HostInv, AloneInv, Active
<1>10. HostInv(h)'
  BY <1>5, <1>7, <1>8, <1>9 DEF HostInv
<1>11. CASE Enqueue(host[h].run, "tree_parked")
  BY <1>1, <1>2, <1>3, <1>5, <1>10, <1>11, InboxOnly
<1>12. CASE UNCHANGED <<inbox, keys>>
  BY <1>2, <1>5, <1>10, <1>12, HostOnly
<1> QED
  BY <1>11, <1>12 DEF ParkTree

\* The result of a release is enqueued.
LEMMA ReleasedKeeps ==
  ASSUME IInv, NEW h \in Hosts, Released(h)
  PROVE  IInv'
<1>1. HostInv(h) /\ host[h] \in HostType /\ Types /\ host[h].run \in Run
  BY HostNow
<1> DEFINE r == host[h].run
<1>2. UNCHANGED <<given, claim, phase, ran, lease>> /\ host[h].pc = "released" /\ Goto(h, "execute")
      /\ Enqueue(r, "claim_released")
  BY DEF Released
<1>3. "execute" \in Pc /\ "claim_released" \in Input
  BY DEF Pc, Input
<1>4. Moves(h, "execute")
  BY <1>1, <1>2, <1>3, GotoShape
<1>5. Alone(h) /\ host'[h].pc = "execute" /\ host'[h].epoch = host[h].epoch /\ host'[h].view = host[h].view
      /\ host'[h].todo = host[h].todo /\ host'[h].run = r /\ Stalls' = Stalls /\ Hosts' = Hosts
      /\ host' \in [Hosts -> HostType] /\ \A g \in Hosts \ {h} : host'[g] = host[g]
  BY <1>4 DEF Moves, Alone
<1>6. \A q \in Run : Waits(q, "claim_released")' => Waits(q, "claim_released") \/ q = r
  BY <1>1, <1>2, <1>3, Enqueued
<1>7. StepInv(h)' /\ \A q \in Run : ViewInv(h, q)'
  BY <1>1, <1>2, <1>5 DEF HostInv, StepInv, ViewInv, Owned
<1>8. Active(h) /\ host[h].epoch[r] > 0
  BY <1>1, <1>2 DEF Active, HostInv, StepInv
<1>9. ASSUME Stalls # "inside"
      PROVE  KnownInv(h)' /\ \A q \in Run : OwnedInv(h, q)'
  <2>1. KnownInv(h) /\ \A q \in Run : OwnedInv(h, q)
    BY <1>1, <1>9 DEF HostInv
  <2>2. host[h].view[r] = "releasing"
    BY <1>2, <2>1 DEF KnownInv
  <2> QED
    BY <1>2, <1>5, <1>6, <1>8, <2>1, <2>2 DEF KnownInv, OwnedInv, Active
<1>10. Hosts = {h} => AloneInv(h)'
  BY <1>1, <1>2, <1>5 DEF HostInv, AloneInv, Active
<1>11. HostInv(h)'
  BY <1>5, <1>7, <1>9, <1>10 DEF HostInv
<1>12. ASSUME Stalls # "inside"
       PROVE  claim # r /\ \A g \in Hosts : host'[g] = host[g] => ~(Active(g) /\ host[g].epoch[r] > 0)
  <2>1. claim # r
    BY <1>1, <1>2, <1>12 DEF HostInv, KnownInv
  <2>2. host'[h] # host[h]
    BY <1>2, <1>5
  <2>3. ASSUME NEW g \in Hosts, host'[g] = host[g], Active(g), host[g].epoch[r] > 0
        PROVE  FALSE
    BY <1>1, <1>8, <1>12, <2>2, <2>3, OneOwner
  <2> QED
    BY <2>1, <2>3
<1> QED
  BY <1>1, <1>2, <1>3, <1>5, <1>11, <1>12, InboxOnly

\* A claim that was taken is reported.
LEMMA TakenKeeps ==
  ASSUME IInv, NEW h \in Hosts, Taken(h)
  PROVE  IInv'
<1>1. HostInv(h) /\ host[h] \in HostType /\ Types /\ host[h].run \in Run
  BY HostNow
<1> DEFINE r == host[h].run
<1>2. UNCHANGED <<given, claim, phase, ran, lease>> /\ host[h].pc = "taken" /\ Goto(h, "take")
      /\ Enqueue(r, "claim_taken")
  BY DEF Taken
<1>3. "take" \in Pc /\ "claim_taken" \in Input /\ "claim_released" \in Input
  BY DEF Pc, Input
<1>4. Moves(h, "take")
  BY <1>1, <1>2, <1>3, GotoShape
<1>5. Alone(h) /\ host'[h].pc = "take" /\ host'[h].epoch = host[h].epoch /\ host'[h].view = host[h].view
      /\ host'[h].todo = host[h].todo /\ host'[h].run = r /\ Stalls' = Stalls /\ Hosts' = Hosts
      /\ host' \in [Hosts -> HostType] /\ \A g \in Hosts \ {h} : host'[g] = host[g]
  BY <1>4 DEF Moves, Alone
<1>6. \A q \in Run : Waits(q, "claim_released")' => Waits(q, "claim_released")
  BY <1>1, <1>2, <1>3, Enqueued
<1>7. StepInv(h)' /\ \A q \in Run : ViewInv(h, q)'
  BY <1>1, <1>2, <1>5 DEF HostInv, StepInv, ViewInv, Owned
<1>8. Stalls # "inside" => KnownInv(h)' /\ \A q \in Run : OwnedInv(h, q)'
  BY <1>1, <1>2, <1>5, <1>6 DEF HostInv, KnownInv, OwnedInv, Active
<1>9. Hosts = {h} => AloneInv(h)'
  BY <1>1, <1>2, <1>5 DEF HostInv, AloneInv, Active
<1>10. HostInv(h)'
  BY <1>5, <1>7, <1>8, <1>9 DEF HostInv
<1>11. phase[r] # "absent" /\ (phase[r] = "queued" => claim = r)
  BY <1>1, <1>2 DEF HostInv, StepInv, ViewInv
<1> QED
  BY <1>1, <1>2, <1>3, <1>5, <1>10, <1>11, InboxOnly

\* release_claim's compare-and-set: the claim leaves a run that is over.
LEMMA ReleaseKeeps ==
  ASSUME IInv, NEW h \in Hosts, Release(h)
  PROVE  IInv'
<1>1. HostInv(h) /\ host[h] \in HostType /\ Types /\ host[h].run \in Run /\ RunsInv
  BY HostNow DEF IInv
<1> DEFINE r == host[h].run
<1>2. UNCHANGED <<given, phase, ran, inbox, keys, lease>> /\ host[h].pc = "release"
  BY DEF Release
<1>3. "execute" \in Pc /\ "released" \in Pc
  BY DEF Pc
<1>4. CASE claim # r
  <2>1. Moves(h, "execute") /\ claim' = claim
    BY <1>1, <1>2, <1>3, <1>4, GotoShape DEF Release
  <2>2. Alone(h) /\ host'[h].pc = "execute" /\ host'[h].epoch = host[h].epoch /\ host'[h].view = host[h].view
        /\ host'[h].todo = host[h].todo /\ host'[h].run = r /\ Stalls' = Stalls /\ Hosts' = Hosts
    BY <2>1 DEF Moves, Alone
  <2>3. StepInv(h)' /\ \A q \in Run : ViewInv(h, q)'
    BY <1>1, <1>2, <2>2 DEF HostInv, StepInv, ViewInv, Owned
  <2>4. Stalls # "inside" => KnownInv(h)' /\ \A q \in Run : OwnedInv(h, q)'
    BY <1>1, <1>2, <2>2 DEF HostInv, KnownInv, OwnedInv, Active, Waits
  <2>5. Hosts = {h} => AloneInv(h)'
    BY <1>1, <1>2, <2>2 DEF HostInv, AloneInv, Active
  <2> QED
    BY <1>2, <2>1, <2>2, <2>3, <2>4, <2>5, HostOnly DEF HostInv
<1>5. CASE claim = r
  <2>1. Moves(h, "released") /\ claim' = Free
    BY <1>1, <1>2, <1>3, <1>5, GotoShape DEF Release
  <2>2. Alone(h) /\ host'[h].pc = "released" /\ host'[h].epoch = host[h].epoch /\ host'[h].view = host[h].view
        /\ host'[h].todo = host[h].todo /\ host'[h].run = r /\ Stalls' = Stalls /\ Hosts' = Hosts
        /\ host' \in [Hosts -> HostType] /\ \A g \in Hosts \ {h} : host'[g] = host[g]
    BY <2>1 DEF Moves, Alone
  <2>3. Over(phase[r]) /\ host[h].epoch[r] > 0 /\ Free \notin Run
    BY <1>1, <1>2 DEF HostInv, StepInv, Free, Run
  <2>4. Types'
    BY <1>1, <1>2, <2>1, <2>2 DEF Types
  <2>5. RunsInv'
    <3>1. r \notin InTree /\ phase[r] # "queued"
      BY <2>3 DEF Over, InTree
    <3>2. InTree = {} /\ \A q \in Run : phase[q] = "queued" => ~Waits(q, "claim_taken")
      BY <1>1, <1>5, <3>1 DEF RunsInv, InTree
    <3>3. InTree' = {} /\ \A q \in Run : Waits(q, "claim_taken")' <=> Waits(q, "claim_taken")
      BY <1>2, <3>2 DEF InTree, Waits
    <3> QED
      BY <1>1, <1>2, <3>2, <3>3 DEF RunsInv
  <2>6. HostsInv'
    <3>1. StepInv(h)' /\ \A q \in Run : ViewInv(h, q)'
      BY <1>1, <1>2, <2>2, <2>3 DEF HostInv, StepInv, ViewInv, Owned
    <3>2. ASSUME NEW g \in Hosts \ {h}
          PROVE  StepInv(g)' /\ \A q \in Run : ViewInv(g, q)'
      <4>1. StepInv(g) /\ (\A q \in Run : ViewInv(g, q)) /\ host'[g] = host[g]
        BY <2>2 DEF IInv, HostsInv
      <4>2. host[g].pc = "taken" => phase[host[g].run] # "queued"
        BY <1>5, <2>3, <4>1 DEF StepInv, Over
      <4> QED
        BY <1>2, <4>1, <4>2 DEF StepInv, ViewInv, Owned
    <3> QED
      BY <2>2, <3>1, <3>2 DEF HostsInv
  <2>7. LeaseInv'
    <3>1. \A q \in Run : claim' # q /\ (Waits(q, "claim_released")' <=> Waits(q, "claim_released"))
      BY <1>2, <2>1, <2>3 DEF Waits
    <3>2. ASSUME Stalls # "inside", NEW g \in Hosts
          PROVE  KnownInv(g)' /\ \A q \in Run : OwnedInv(g, q)'
      <4>1. KnownInv(g) /\ (\A q \in Run : OwnedInv(g, q)) /\ host[g].run \in Run
        BY <3>2, HostNow DEF HostInv
      <4>2. CASE g = h
        BY <1>1, <1>2, <2>2, <3>1, <4>1, <4>2 DEF KnownInv, OwnedInv, Active
      <4>3. CASE g # h
        BY <1>2, <2>2, <3>1, <4>1, <4>3 DEF KnownInv, OwnedInv, Active
      <4> QED
        BY <4>2, <4>3
    <3> QED
      BY <2>2, <3>1, <3>2 DEF LeaseInv
  <2>8. QueueInv'
    BY <1>2, <2>2 DEF IInv, QueueInv
  <2>9. OrderInv'
    BY <1>1, <1>2, <2>2 DEF OrderInv, HostInv, AloneInv, Active
  <2> QED
    BY <2>4, <2>5, <2>6, <2>7, <2>8, <2>9 DEF IInv
<1> QED
  BY <1>4, <1>5

\* take_claims' compare-and-set: a free claim goes to a run that the host knows as queued.
LEMMA TakeClaimKeeps ==
  ASSUME IInv, NEW h \in Hosts, TakeClaim(h)
  PROVE  IInv'
<1>1. HostInv(h) /\ host[h] \in HostType /\ Types /\ host[h].run \in Run /\ RunsInv
  BY HostNow DEF IInv
<1> DEFINE r == host[h].run
<1>2. /\ UNCHANGED <<given, phase, ran, inbox, keys, lease>> /\ host[h].pc = "claim"
      /\ Alone(h) /\ host'[h].tried
      /\ host'[h].epoch = host[h].epoch /\ host'[h].view = host[h].view /\ host'[h].todo = host[h].todo
      /\ host'[h].run = r
      /\ \/ claim = Free /\ claim' = r /\ host'[h].pc = "taken"
         \/ claim # Free /\ claim' = claim /\ host'[h].pc = "take"
  BY <1>1, TakeClaimShape
<1>3. Stalls' = Stalls /\ Hosts' = Hosts
      /\ host' \in [Hosts -> HostType] /\ \A g \in Hosts \ {h} : host'[g] = host[g]
  BY <1>2 DEF Alone
<1>4. Active(h) /\ Active(h)' /\ host[h].epoch[r] > 0 /\ Free \notin Run
  BY <1>1, <1>2 DEF HostInv, StepInv, Free, Run, Active
<1>5. CASE claim # Free
  <2>1. claim' = claim /\ host'[h].pc = "take"
    BY <1>2, <1>5
  <2>2. StepInv(h)' /\ \A q \in Run : ViewInv(h, q)'
    BY <1>1, <1>2, <2>1 DEF HostInv, StepInv, ViewInv, Owned
  <2>3. Stalls # "inside" => KnownInv(h)' /\ \A q \in Run : OwnedInv(h, q)'
    BY <1>1, <1>2, <2>1 DEF HostInv, KnownInv, OwnedInv, Active, Waits
  <2>4. Hosts = {h} => AloneInv(h)'
    BY <1>1, <1>2, <2>1 DEF HostInv, AloneInv, Active
  <2> QED
    BY <1>2, <1>3, <2>1, <2>2, <2>3, <2>4, HostOnly DEF HostInv
<1>6. CASE claim = Free
  <2>1. claim' = r /\ host'[h].pc = "taken"
    BY <1>2, <1>6
  <2>2. InTree = {} /\ \A q \in Run : phase[q] = "queued" => ~Waits(q, "claim_taken")
    BY <1>1, <1>4, <1>6 DEF RunsInv, InTree
  <2>3. Types'
    BY <1>1, <1>2, <1>3, <2>1 DEF Types
  <2>4. RunsInv'
    <3>1. InTree' = {} /\ \A q \in Run : Waits(q, "claim_taken")' <=> Waits(q, "claim_taken")
      BY <1>2, <2>2 DEF InTree, Waits
    <3> QED
      BY <1>1, <1>2, <2>2, <3>1 DEF RunsInv
  <2>5. HostsInv'
    <3>1. StepInv(h)' /\ \A q \in Run : ViewInv(h, q)'
      BY <1>1, <1>2, <1>4, <2>1 DEF HostInv, StepInv, ViewInv, Owned
    <3>2. ASSUME NEW g \in Hosts \ {h}
          PROVE  StepInv(g)' /\ \A q \in Run : ViewInv(g, q)'
      <4>1. StepInv(g) /\ (\A q \in Run : ViewInv(g, q)) /\ host'[g] = host[g] /\ host[g].run \in Run
        BY <1>3, HostNow DEF HostInv
      <4>2. host[g].pc = "taken" => phase[host[g].run] # "queued"
        BY <1>4, <1>6, <4>1 DEF StepInv
      <4> QED
        BY <1>2, <4>1, <4>2 DEF StepInv, ViewInv, Owned
    <3> QED
      BY <1>3, <3>1, <3>2 DEF HostsInv
  <2>6. LeaseInv'
    <3> SUFFICES ASSUME Stalls # "inside"
                 PROVE  /\ \A g \in Hosts : KnownInv(g)' /\ \A q \in Run : OwnedInv(g, q)'
                        /\ \A q \in Run : /\ Waits(q, "claim_released")' => claim' # q
                                          /\ phase[q] = "finished" => claim' # q
      BY <1>2, <1>3 DEF LeaseInv
    <3>1. \A q \in Run : Waits(q, "claim_released")' <=> Waits(q, "claim_released")
      BY <1>2 DEF Waits
    <3>2. ~Waits(r, "claim_released") /\ phase[r] # "finished"
      BY <1>1, <1>2, <1>4 DEF HostInv, KnownInv, OwnedInv
    <3>3. \A q \in Run : OwnedInv(h, q)'
      BY <1>1, <1>2, <1>4, <2>1, <3>1 DEF HostInv, OwnedInv
    <3>4. KnownInv(h)'
      BY <2>1 DEF KnownInv
    <3>5. ASSUME NEW g \in Hosts \ {h}
          PROVE  KnownInv(g)' /\ \A q \in Run : OwnedInv(g, q)'
      <4>1. KnownInv(g) /\ (\A q \in Run : OwnedInv(g, q)) /\ host'[g] = host[g] /\ host[g].run \in Run /\ StepInv(g)
        BY <1>3, HostNow DEF HostInv
      <4>2. host[g].pc = "released" => host[g].run # r
        <5>1. SUFFICES ASSUME host[g].pc = "released", host[g].run = r
                       PROVE  FALSE
          OBVIOUS
        <5>2. Active(g) /\ host[g].epoch[r] > 0
          BY <4>1, <5>1 DEF StepInv, Active
        <5> QED
          BY <1>1, <1>4, <5>2, OneOwner
      <4> QED
        BY <1>2, <2>1, <3>1, <4>1, <4>2 DEF KnownInv, OwnedInv, Active
    <3> QED
      BY <1>2, <2>1, <3>1, <3>2, <3>3, <3>4, <3>5
  <2>7. QueueInv'
    BY <1>2, <1>3 DEF IInv, QueueInv
  <2>8. OrderInv'
    <3>1. claim' # Free
      BY <1>1, <1>4, <2>1
    <3> QED
      BY <1>1, <1>2, <1>3, <1>4, <2>1, <3>1 DEF OrderInv, HostInv, AloneInv
  <2> QED
    BY <2>3, <2>4, <2>5, <2>6, <2>7, <2>8 DEF IInv
<1> QED
  BY <1>5, <1>6

\* A new run: nobody knows it yet, and it is the youngest.
LEMMA CommissionKeeps ==
  ASSUME IInv, NEW r \in Run, Commission(r)
  PROVE  IInv'
<1>1. Types /\ RunsInv /\ QueueInv
  BY DEF IInv
<1>2. /\ phase[r] = "absent" /\ UNCHANGED <<given, claim, ran, inbox, keys, lease, host>>
      /\ \A q \in 1..(r - 1) : phase[q] # "absent"
  BY DEF Commission
<1>3. /\ phase'[r] = "queued" /\ phase' \in [Run -> Phase]
      /\ \A q \in Run \ {r} : phase'[q] = phase[q]
  BY <1>1 DEF Commission, Types, Phase
<1>4. Hosts' = Hosts /\ Stalls' = Stalls
  BY <1>2 DEF Hosts, Stalls
<1>5. \A q \in Run : \A x : Waits(q, x)' <=> Waits(q, x)
  BY <1>2 DEF Waits
<1>6. \A g \in Hosts : /\ HostInv(g) /\ host[g].epoch[r] = 0 /\ host[g].view[r] = Unknown /\ host[g].run \in Run
                       /\ host[g].todo \in SUBSET Run
  BY <1>2, HostNow DEF HostInv, ViewInv, HostType
<1>7. Types'
  BY <1>1, <1>2, <1>3, <1>4 DEF Types
<1>8. RunsInv'
  BY <1>1, <1>2, <1>3, <1>5 DEF RunsInv, InTree
<1>9. HostsInv'
  <2>1. ASSUME NEW g \in Hosts
        PROVE  StepInv(g)'
    <3>1. StepInv(g)
      BY <1>6 DEF HostInv
    <3>2. Over(phase[host[g].run]) => Over(phase'[host[g].run])
      BY <1>2, <1>3, <1>6 DEF Over
    <3>3. host[g].pc = "taken" => host[g].run # r
      BY <1>6, <3>1 DEF StepInv
    <3> QED
      BY <1>2, <1>3, <1>6, <3>1, <3>2, <3>3 DEF StepInv, Owned
  <2>2. ASSUME NEW g \in Hosts, NEW q \in Run
        PROVE  ViewInv(g, q)'
    BY <1>2, <1>3, <1>6 DEF HostInv, ViewInv
  <2> QED
    BY <1>4, <2>1, <2>2 DEF HostsInv
<1>10. LeaseInv'
  <2>1. ASSUME Stalls # "inside", NEW g \in Hosts
        PROVE  KnownInv(g)' /\ \A q \in Run : OwnedInv(g, q)'
    BY <1>2, <1>3, <1>5, <1>6, <2>1 DEF HostInv, KnownInv, OwnedInv, Active
  <2> QED
    BY <1>2, <1>3, <1>4, <1>5, <2>1 DEF IInv, LeaseInv
<1>11. QueueInv'
  <2>1. ASSUME NEW q \in Run, NEW p \in Run, q < p, phase'[p] # "absent"
        PROVE  phase'[q] # "absent"
    <3>1. p = r => q \in 1..(r - 1)
      BY <2>1 DEF Run
    <3> QED
      BY <1>1, <1>2, <1>3, <2>1, <3>1 DEF QueueInv
  <2> QED
    BY <1>1, <1>2, <1>4, <2>1 DEF QueueInv
<1>12. OrderInv'
  <2>1. ASSUME NEW g \in Hosts, Hosts = {g}
        PROVE  AloneInv(g)'
    <3>1. AloneInv(g)
      BY <1>6, <2>1 DEF HostInv
    <3>2. \A p \in Run : r < p => host[g].epoch[p] = 0
      <4>1. \A p \in Run : r < p => phase[p] = "absent"
        BY <1>1, <1>2 DEF QueueInv
      <4>2. \A p \in Run : host[g].epoch[p] > 0 => phase[p] # "absent"
        BY <1>6 DEF HostInv, ViewInv
      <4>3. \A p \in Run : host[g].epoch[p] \in Nat
        BY HostNow DEF HostType
      <4> QED
        BY <4>1, <4>2, <4>3
    <3> QED
      BY <1>2, <1>3, <1>6, <3>1, <3>2 DEF AloneInv, Active
  <2> QED
    BY <1>4, <2>1 DEF OrderInv
<1> QED
  BY <1>7, <1>8, <1>9, <1>10, <1>11, <1>12 DEF IInv

\* The run's work ends, or the run is withdrawn.
LEMMA InputsKeep ==
  ASSUME IInv, NEW r \in Run, Work(r) \/ Withdraw(r)
  PROVE  IInv'
<1>1. PICK input \in {"done", "withdrawn"} : Enqueue(r, input) /\ UNCHANGED <<given, claim, phase, ran, lease, host>>
  BY DEF Work, Withdraw
<1>2. input \in Input /\ input # "claim_taken" /\ input # "claim_released"
  BY DEF Input
<1>3. host' \in [Hosts -> HostType]
  BY <1>1 DEF IInv, Types
<1>4. \A g \in Hosts : host'[g] = host[g]
  BY <1>1
<1> QED
  BY <1>1, <1>2, <1>3, <1>4, InboxOnly

\* A lease runs out, of a host that is dead, between two ticks, or anywhere.
LEMMA ExpireKeeps ==
  ASSUME IInv, NEW r \in Run, Expire(r)
  PROVE  IInv'
<1>1. Types /\ RunsInv /\ QueueInv
  BY DEF IInv
<1>2. UNCHANGED <<given, claim, phase, ran, inbox, keys, host>> /\ ~lease[r].expired /\ lease[r].epoch < MaxEpoch
  BY DEF Expire
<1>3. /\ lease' \in [Run -> [owner : Hosts \cup {NoHost}, epoch : 0..MaxEpoch, expired : BOOLEAN]]
      /\ lease'[r].expired /\ lease'[r].epoch = lease[r].epoch
      /\ \A q \in Run \ {r} : lease'[q] = lease[q]
  BY <1>1 DEF Expire, Types
<1>4. Hosts' = Hosts /\ Stalls' = Stalls
  BY <1>2 DEF Hosts, Stalls
<1>5. \A q \in Run : \A x : Waits(q, x)' <=> Waits(q, x)
  BY <1>2 DEF Waits
<1>6. Types' /\ RunsInv' /\ HostsInv'
  <2>1. Types'
    BY <1>1, <1>2, <1>3, <1>4 DEF Types
  <2>2. RunsInv'
    BY <1>1, <1>2, <1>5 DEF RunsInv, InTree
  <2>3. HostsInv'
    BY <1>2, <1>4 DEF IInv, HostsInv, StepInv, ViewInv, Owned
  <2> QED
    BY <2>1, <2>2, <2>3
<1>7. LeaseInv'
  <2>1. ASSUME Stalls # "inside", NEW g \in Hosts
        PROVE  KnownInv(g)' /\ \A q \in Run : OwnedInv(g, q)'
    <3>1. KnownInv(g) /\ \A q \in Run : OwnedInv(g, q)
      BY <2>1 DEF IInv, LeaseInv
    <3>2. ~(Active(g) /\ host[g].epoch[r] > 0)
      BY <2>1, <3>1 DEF Expire, OwnedInv, Active
    <3> QED
      BY <1>2, <1>3, <1>5, <3>1, <3>2 DEF KnownInv, OwnedInv, Active
  <2> QED
    BY <1>2, <1>4, <1>5, <2>1 DEF IInv, LeaseInv
<1>8. QueueInv'
  BY <1>1, <1>2, <1>3, <1>4 DEF QueueInv
<1>9. OrderInv'
  BY <1>2, <1>4 DEF IInv, OrderInv, AloneInv, Active
<1> QED
  BY <1>6, <1>7, <1>8, <1>9 DEF IInv

-----------------------------------------------------------------------------
(* Theorems.                                                               *)

\* The invariant holds at the beginning.
LEMMA InitIInv == Init => IInv
<1> SUFFICES ASSUME Init PROVE IInv
  OBVIOUS
<1>1. /\ given \in DOMAIN Settings /\ claim = Free /\ host = [h \in Hosts |-> Fresh]
      /\ \A r \in Run : /\ phase[r] = "absent" /\ ran[r] = FALSE /\ inbox[r] = <<>>
                        /\ lease[r] = [owner |-> NoHost, epoch |-> 0, expired |-> TRUE]
  BY DEF Init
<1>2. 1 \in Run /\ 0 \in 0..MaxEpoch /\ 0 < MaxEpoch
  BY ConstantsAssumption DEF Run
<1>3. /\ Fresh \in HostType /\ Fresh.pc = "idle" /\ Fresh.todo = {}
      /\ \A r \in Run : Fresh.epoch[r] = 0 /\ Fresh.view[r] = Unknown
  BY <1>2 DEF Fresh, HostType, Pc
<1>4. \A h \in Hosts : /\ host[h].pc = "idle" /\ host[h].todo = {}
                       /\ \A r \in Run : host[h].epoch[r] = 0 /\ host[h].view[r] = Unknown
  <2> HIDE DEF Fresh
  <2> QED
    BY <1>1, <1>3
<1>5. Types
  <2>1. host \in [Hosts -> HostType]
    <3> HIDE DEF Fresh
    <3> QED
      BY <1>1, <1>3
  <2> QED
    BY <1>2, <2>1 DEF Init, Types, Phase
<1>6. \A r \in Run : \A x : ~Waits(r, x)
  BY <1>1 DEF Waits
<1>7. RunsInv
  BY <1>1, <1>6 DEF RunsInv, InTree
<1>8. HostsInv
  BY <1>4 DEF HostsInv, StepInv, ViewInv, Owned
<1>9. LeaseInv
  BY <1>1, <1>4, <1>6 DEF LeaseInv, KnownInv, OwnedInv, Active
<1>10. QueueInv
  BY <1>1, <1>2 DEF QueueInv
<1>11. OrderInv
  BY <1>4 DEF OrderInv, AloneInv, Active
<1> QED
  BY <1>5, <1>7, <1>8, <1>9, <1>10, <1>11 DEF IInv

\* The invariant is kept.
LEMMA NextIInv == IInv /\ [Next]_vars => IInv'
<1> SUFFICES ASSUME IInv, [Next]_vars PROVE IInv'
  OBVIOUS
<1>1. ASSUME NEW h \in Hosts, Fold(h) PROVE IInv'
  <2>1. /\ UNCHANGED <<given, claim, keys, lease>> /\ host[h].pc = "fold"
        /\ \/ FoldEnds(h)
           \/ \E r \in host[h].todo :
                FoldNothing(h, r) \/ FoldRefused(h, r) \/ FoldReloads(h, r) \/ FoldInput(h, r)
    BY <1>1, FoldShape DEF IInv
  <2>2. CASE \E r \in host[h].todo : FoldInput(h, r)
    BY <2>1, <2>2, FoldInputKeeps
  <2>3. CASE FoldEnds(h) \/ \E r \in host[h].todo : FoldNothing(h, r) \/ FoldRefused(h, r) \/ FoldReloads(h, r)
    <3>1. UNCHANGED <<phase, ran, inbox>>
      BY <2>3 DEF FoldEnds, FoldNothing, FoldRefused, FoldReloads
    <3> QED
      BY <2>1, <2>3, <3>1, FoldKeepsQuiet
  <2> QED
    BY <2>1, <2>2, <2>3
<1>2. ASSUME NEW h \in Hosts, HostStep(h) \/ Crash(h) PROVE IInv'
  BY <1>1, <1>2, LeasesKeeps, ExecuteKeeps, ParkTreeKeeps, LookBeforeReleaseKeeps, ReleaseKeeps, ReleasedKeeps,
     TakeNextKeeps, TakeClaimKeeps, TakenKeeps, CrashKeeps DEF HostStep
<1>3. ASSUME NEW r \in Run, Commission(r) \/ Work(r) \/ Withdraw(r) \/ Expire(r) PROVE IInv'
  BY <1>3, CommissionKeeps, InputsKeep, ExpireKeeps
<1>4. CASE UNCHANGED vars
  <2>1. Hosts' = Hosts /\ Stalls' = Stalls
    BY <1>4 DEF vars, Hosts, Stalls
  <2>2. Types' /\ RunsInv' /\ QueueInv'
    BY <1>4, <2>1 DEF IInv, vars, Types, RunsInv, QueueInv, InTree, Waits
  <2>3. HostsInv'
    BY <1>4, <2>1 DEF IInv, vars, HostsInv, StepInv, ViewInv, Owned
  <2>4. LeaseInv'
    BY <1>4, <2>1 DEF IInv, vars, LeaseInv, KnownInv, OwnedInv, Active, Waits
  <2>5. OrderInv'
    BY <1>4, <2>1 DEF IInv, vars, OrderInv, AloneInv, Active
  <2> QED
    BY <2>2, <2>3, <2>4, <2>5 DEF IInv
<1> QED
  BY <1>2, <1>3, <1>4 DEF Next

\* The claim, the runs and the hosts are what they should be, and where no host outlasts its lease inside a tick the
\* claim never stays with a run that is over (effects.rs take_claims and release_claim).
THEOREM ClaimStaysSound == Spec => []ClaimIsSound
<1>1. IInv => ClaimIsSound
  <2> SUFFICES ASSUME IInv PROVE ClaimIsSound
    OBVIOUS
  <2>1. Hosts \subseteq Host
    BY SettingsAssumption DEF IInv, Types, Hosts
  <2>2. TypeOK
    BY <2>1 DEF IInv, Types, TypeOK, HostType, Pc
  <2>3. ClaimHasAnOpenRun
    BY DEF IInv, Types, LeaseInv, ClaimHasAnOpenRun
  <2> QED
    BY <2>2, <2>3 DEF ClaimIsSound
<1> QED
  BY InitIInv, NextIInv, <1>1, PTL DEF Spec

\* Runs in the tree and behind it.
Left == {r \in Run : ran[r] /\ phase[r] \in {"releasing", "finished"}}

\* A fold that moves a run into the tree or out of it is a step of Workspace; any other is none.
LEMMA FoldIsAStep ==
  ASSUME IInv, NEW h \in Hosts, NEW r \in host[h].todo, FoldInput(h, r), claim' = claim
  PROVE  W!Next \/ UNCHANGED <<InTree, Left>>
<1>1. HostInv(h) /\ host[h] \in HostType /\ Types /\ RunsInv
  BY HostNow DEF IInv
<1>2. r \in Run /\ phase[r] \in Phase /\ ran[r] \in BOOLEAN
  BY <1>1 DEF HostType, Types
<1> DEFINE input == Head(inbox[r])
           next == Evolve(phase[r], input)
<1>3. input \in Input /\ Waits(r, input)
  BY <1>1, <1>2, Folded DEF FoldInput
<1>4. /\ phase'[r] = next /\ (ran'[r] <=> ran[r] \/ next = "running")
      /\ \A q \in Run \ {r} : phase'[q] = phase[q] /\ ran'[q] = ran[q]
  BY <1>1, <1>2 DEF Types, FoldInput
<1>5. \A q \in InTree : q = claim
  BY <1>1 DEF RunsInv, InTree
<1>6. CASE phase[r] = "queued" /\ input = "claim_taken"
  <2>1. next = "running" /\ claim = r /\ ~ran[r]
    BY <1>1, <1>2, <1>3, <1>6 DEF RunsInv, Evolve
  <2>2. InTree = {} /\ r \notin Left
    BY <1>5, <1>6, <2>1 DEF InTree, Left
  <2>3. InTree' = {r}
    BY <1>2, <1>4, <2>1, <2>2 DEF InTree
  <2>4. Left' = Left
    BY <1>2, <1>4, <1>6, <2>1 DEF Left
  <2>5. W!Enter(r)
    BY <2>2, <2>3, <2>4 DEF W!Enter, Left
  <2> QED
    BY <1>2, <2>5 DEF W!Next
<1>7. CASE phase[r] = "parking" /\ input = "tree_parked" /\ ran[r]
  <2>1. next = "releasing" /\ r \in InTree
    BY <1>2, <1>7 DEF Evolve, InTree
  <2>2. InTree = {r}
    BY <1>5, <2>1
  <2>3. InTree' = {}
    BY <1>2, <1>4, <2>1, <2>2 DEF InTree
  <2>4. Left' = Left \cup {r}
    BY <1>2, <1>4, <1>7, <2>1 DEF Left
  <2>5. W!Leave(r)
    BY <2>1, <2>3, <2>4 DEF W!Leave, Left
  <2> QED
    BY <1>2, <2>5 DEF W!Next
<1>8. CASE ~(phase[r] = "queued" /\ input = "claim_taken") /\ ~(phase[r] = "parking" /\ input = "tree_parked" /\ ran[r])
  <2>1. phase[r] \in {"absent", "queued"} => ~ran[r]
    BY <1>1, <1>2 DEF RunsInv
  <2>2. phase[r] = "running" => ran[r]
    BY <1>1, <1>2 DEF RunsInv
  <2>3. /\ next = "running" => phase[r] = "running"
        /\ ran[r] /\ next = "parking" => phase[r] \in {"running", "parking"}
        /\ phase[r] = "running" => next \in {"running", "parking"}
        /\ phase[r] = "parking" /\ ran[r] => next = "parking"
        /\ Over(phase[r]) => Over(next)
        /\ ran[r] /\ Over(next) => Over(phase[r])
    BY <1>2, <1>3, <1>8, <2>1, <2>2 DEF Evolve, Input, Phase, Over
  <2>4. ran'[r] <=> ran[r]
    BY <1>4, <2>2, <2>3
  <2> HIDE DEF next
  <2>5. (r \in InTree' <=> r \in InTree) /\ (r \in Left' <=> r \in Left)
    BY <1>2, <1>4, <2>2, <2>3, <2>4 DEF InTree, Left, Over
  <2>6. \A q \in Run \ {r} : (q \in InTree' <=> q \in InTree) /\ (q \in Left' <=> q \in Left)
    BY <1>4 DEF InTree, Left
  <2>7. InTree \subseteq Run /\ InTree' \subseteq Run /\ Left \subseteq Run /\ Left' \subseteq Run
    BY DEF InTree, Left
  <2>8. InTree' = InTree /\ Left' = Left
    BY <2>5, <2>6, <2>7
  <2> QED
    BY <2>8
<1> QED
  BY <1>6, <1>7, <1>8

\* Every other step leaves the tree alone.
LEMMA OtherStepsAreNone ==
  ASSUME IInv, [Next]_vars
  PROVE  \/ UNCHANGED <<InTree, Left>>
         \/ \E h \in Hosts : \E r \in host[h].todo : FoldInput(h, r) /\ claim' = claim
<1>1. CASE UNCHANGED <<phase, ran>>
  BY <1>1 DEF InTree, Left
<1>2. ASSUME NEW r \in Run, Commission(r) PROVE UNCHANGED <<InTree, Left>>
  <2>1. /\ phase[r] = "absent" /\ phase'[r] = "queued" /\ ran' = ran
        /\ \A q \in Run \ {r} : phase'[q] = phase[q]
    BY <1>2 DEF IInv, Types, Commission
  <2> QED
    BY <2>1 DEF InTree, Left
<1>3. ASSUME NEW h \in Hosts, Fold(h)
      PROVE  UNCHANGED <<phase, ran>> \/ \E r \in host[h].todo : FoldInput(h, r) /\ claim' = claim
  <2>1. /\ claim' = claim
        /\ \/ FoldEnds(h)
           \/ \E r \in host[h].todo :
                FoldNothing(h, r) \/ FoldRefused(h, r) \/ FoldReloads(h, r) \/ FoldInput(h, r)
    BY <1>3, FoldShape DEF IInv
  <2> QED
    BY <2>1 DEF FoldEnds, FoldNothing, FoldRefused, FoldReloads
<1>4. ASSUME NEW h \in Hosts, HostStep(h) \/ Crash(h), ~Fold(h) PROVE UNCHANGED <<phase, ran>>
  BY <1>4 DEF HostStep, Crash, Leases, Execute, ParkTree, LookBeforeRelease, Release, Released, TakeNext, TakeClaim, Taken
<1>5. ASSUME NEW r \in Run, Work(r) \/ Withdraw(r) \/ Expire(r) PROVE UNCHANGED <<phase, ran>>
  BY <1>5 DEF Work, Withdraw, Expire
<1> QED
  BY <1>1, <1>2, <1>3, <1>4, <1>5 DEF Next, HostStep, vars

\* However many hosts there are, however old what they know is and wherever they stop: the runs use the workspace one
\* at a time, as module Workspace says (effects.rs take_claims, release_claim; tree_effects.rs park_tree).
THEOREM OneRunAtATime == Spec => Exclusive
<1>1. Init => W!Init
  BY DEF Init, W!Init, InTree
<1>2. IInv /\ [Next]_vars => [W!Next]_<<InTree, Left>>
  BY FoldIsAStep, OtherStepsAreNone
<1> QED
  BY InitIInv, NextIInv, <1>1, <1>2, PTL DEF Spec, Exclusive, W!Spec, Left

\* "oldest queued run first": a host on its own never passes over a queued run (effects.rs take_claims).
THEOREM TheOldestGoesFirst == Spec => OldestFirst
<1>1. ASSUME IInv, [Next]_vars, NEW h \in Hosts, Hosts = {h}, claim = Free, claim' # Free
      PROVE  \A q \in 1..(claim' - 1) : phase[q] # "queued"
  <2>1. TakeClaim(h)
    <3>1. ASSUME ~TakeClaim(h), HostStep(h) \/ Crash(h) PROVE claim' = Free
      BY <1>1, <3>1 DEF HostStep, Crash, Leases, Fold, Execute, ParkTree, LookBeforeRelease, Release, Released,
                        TakeNext, Taken
    <3>2. ASSUME NEW r \in Run, Commission(r) \/ Work(r) \/ Withdraw(r) \/ Expire(r) PROVE claim' = Free
      BY <1>1, <3>2 DEF Commission, Work, Withdraw, Expire
    <3> QED
      BY <1>1, <3>1, <3>2 DEF Next, vars
  <2>2. HostInv(h) /\ AloneInv(h) /\ host[h].run \in Run /\ Types /\ host[h].todo \in SUBSET Run
    BY <1>1, HostNow DEF HostInv, HostType
  <2>3. host[h].pc = "claim" /\ claim' = host[h].run
    BY <1>1, <2>1 DEF TakeClaim
  <2>4. /\ \A q, r \in Run : q < r /\ host[h].epoch[r] > 0 /\ phase[q] = "queued" => host[h].epoch[q] > 0
        /\ \A q \in host[h].todo : q > host[h].run
        /\ \A q \in Run : host[h].epoch[q] > 0 /\ q \notin host[h].todo /\ q # host[h].run => phase[q] # "queued"
    BY <1>1, <2>2, <2>3 DEF AloneInv, Active
  <2>5. host[h].epoch[host[h].run] > 0
    BY <2>2, <2>3 DEF HostInv, StepInv
  <2>6. ASSUME NEW q \in 1..(host[h].run - 1), phase[q] = "queued" PROVE FALSE
    <3>1. q \in Run /\ q < host[h].run
      BY <2>2, ConstantsAssumption DEF Run
    <3> QED
      BY <2>2, <2>4, <2>5, <2>6, <3>1 DEF Run
  <2> QED
    BY <2>3, <2>6
<1>2. IInv /\ [Next]_vars =>
        [(\E h \in Hosts : Hosts = {h}) /\ claim = Free /\ claim' # Free =>
           \A q \in 1..(claim' - 1) : phase[q] # "queued"]_vars
  BY <1>1
<1> QED
  BY InitIInv, NextIInv, <1>2, PTL DEF Spec, OldestFirst
=============================================================================
