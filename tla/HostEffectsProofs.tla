------------------------- MODULE HostEffectsProofs -------------------------
(***************************************************************************)
(* Proofs about HostEffects, for any number of effects, hosts, crashes,    *)
(* refusals and changes of owner.  That what is written down agrees with   *)
(* the world, and that a session has one thread, holds wherever a host     *)
(* stands still: it rests on the fence of the ledger and on the ledger     *)
(* entry being there first.  That a message is posted once and a signal    *)
(* sent once needs more than the fence, and is proved where no host        *)
(* outlasts its lease inside a tick.                                       *)
(***************************************************************************)
EXTENDS HostEffects, FiniteSetTheorems, TLAPS

-----------------------------------------------------------------------------
(* Types.                                                                  *)

Pc == {"idle", "dead", "fold", "check", "found", "entry", "write", "set", "cas", "open", "find", "post", "mark", "clear",
       "route", "session", "spawn", "send", "result"}

HostType ==
  [pc : Pc, epoch : 0..MaxEpoch, effect : Effect, todo : SUBSET Effect, read : Entry, thread : Nat, id : Nat,
   cached : BOOLEAN, view : SUBSET Effect, started : SUBSET Session]

Types ==
  /\ given \in DOMAIN Settings
  /\ lease \in [owner : Hosts \cup {NoHost}, epoch : 0..MaxEpoch, expired : BOOLEAN]
  /\ ledger \in [Effect -> Entry]
  /\ refused \in BOOLEAN
  /\ opened \subseteq [session : Session \cup {RootKey}, thread : Nat]
  /\ messages \subseteq [thread : Nat, key : Post \cup Session, id : Nat] /\ IsFiniteSet(messages)
  /\ routes \subseteq [thread : Nat, session : Session]
  /\ session \in [Session -> Nat \cup {NoThread}] /\ spawned \in [Session -> Nat \cup {NoThread}]
  /\ signals \in [Signal -> Nat]
  /\ inbox \subseteq [key : Effect, id : Nat] /\ folded \subseteq [key : Effect, id : Nat]
  /\ faults \in 0..MaxFaults
  /\ host \in [Hosts -> HostType]

-----------------------------------------------------------------------------
(* The invariant.                                                          *)

Active(h) == host[h].pc \notin {"idle", "dead"}

\* The epoch tells the owner from those that were; nobody but the owner is inside a tick, unless a host may outlast
\* its lease there.
LeaseInv ==
  \A h \in Hosts :
    /\ host[h].epoch <= lease.epoch
    /\ Active(h) /\ ~Fenced(h) => lease.owner = h
    /\ Stalls # "inside" /\ Active(h) => lease.owner = h /\ ~Fenced(h) /\ ~lease.expired

Entered == {s \in Session : ledger[s] # NoEntry}
HasTurn(s, thread) == \E m \in messages : m.thread = thread /\ m.key = s

\* Thread ids are the session's own.
IdsInv ==
  /\ \A e \in Effect : ledger[e].state = "none" => ledger[e] = NoEntry
  /\ \A s \in Session : ledger[s] # NoEntry => ledger[s].id \in 1..Cardinality(Entered)
  /\ \A s, t \in Session : s # t /\ ledger[s] # NoEntry /\ ledger[t] # NoEntry => ledger[s].id # ledger[t].id

\* Whatever names a thread names the one in the ledger.
ThreadsInv ==
  /\ \A a \in opened : \/ a = [session |-> RootKey, thread |-> RootThread]
                       \/ a.session \in Session /\ ledger[a.session] # NoEntry /\ a.thread = ledger[a.session].id
  /\ \A r \in routes : ledger[r.session] # NoEntry /\ r.thread = ledger[r.session].id
  /\ \A s \in Session : session[s] # NoThread => ledger[s] # NoEntry /\ session[s] = ledger[s].id
  /\ \A s \in Session : spawned[s] # NoThread => ledger[s].state = "done" /\ spawned[s] = ledger[s].id

\* An entry that is done has its effect in the world.
DoneInv ==
  /\ \A e \in Post : ledger[e].state = "done" => [thread |-> RootThread, key |-> e, id |-> ledger[e].id] \in messages
  /\ \A s \in Session : ledger[s].state = "done" =>
       /\ session[s] = ledger[s].id /\ [thread |-> ledger[s].id, session |-> s] \in routes
       /\ HasTurn(s, ledger[s].id)
  /\ \A i \in inbox \cup folded : i.key \in Post => ledger[i.key].state = "done" /\ ledger[i.key].id = i.id

\* The effect that host h is at is one that has this step.
EffectInv(h) ==
  /\ host[h].pc = "open" => host[h].effect \in Session \cup {RootKey}
  /\ host[h].pc \in {"find", "post", "mark", "clear", "set", "cas"} => host[h].effect \in Post \cup Session
  /\ host[h].pc \in {"route", "session", "spawn"} => host[h].effect \in Session
  /\ host[h].pc \in {"found", "send"} => host[h].effect \in Signal
  /\ host[h].pc = "result" => host[h].effect \in Post \cup Signal

Walking == {"open", "find", "post", "mark", "clear", "route", "session", "set", "cas"}

\* What host h has behind it on its walk; the entry is still pending unless somebody else owns the run by now.
WalkInv(h) ==
  /\ host[h].pc \in Walking =>
       /\ ledger[host[h].effect] # NoEntry
       /\ host[h].thread = IF host[h].effect \in Session THEN ledger[host[h].effect].id ELSE RootThread
       /\ ~Fenced(h) => ledger[host[h].effect].state = "pending"
  /\ host[h].pc \in {"clear", "set", "cas"} /\ host[h].effect \in Post =>
       [thread |-> RootThread, key |-> host[h].effect, id |-> host[h].id] \in messages
  /\ host[h].pc \in {"clear", "route", "session", "set", "cas"} /\ host[h].effect \in Session =>
       HasTurn(host[h].effect, host[h].thread)
  /\ host[h].pc \in {"session", "set", "cas"} /\ host[h].effect \in Session =>
       [thread |-> host[h].thread, session |-> host[h].effect] \in routes
  /\ host[h].pc \in {"set", "cas"} /\ host[h].effect \in Session => session[host[h].effect] = host[h].thread
  /\ host[h].pc = "spawn" =>
       ledger[host[h].effect].state = "done" /\ host[h].thread = ledger[host[h].effect].id
  /\ host[h].pc = "result" /\ host[h].effect \in Post =>
       ledger[host[h].effect].state = "done" /\ host[h].id = ledger[host[h].effect].id
  /\ host[h].pc \in {"route", "session", "set", "cas"} /\ ~Fenced(h) => ~refused

\* What host h relies on where it is the only one inside a tick.
OnlyInv(h) ==
  /\ host[h].pc = "post" => Found(h) = {}
  /\ host[h].pc \in {"entry", "write"} /\ host[h].effect \in Signal => ledger[host[h].effect] = NoEntry
  /\ host[h].pc = "send" => ledger[host[h].effect] # NoEntry /\ signals[host[h].effect] = 0

OnceInv ==
  Stalls # "inside" =>
    /\ \A m, n \in messages : m.thread = n.thread /\ m.key = n.key => m = n
    /\ \A s \in Signal : signals[s] <= 1 /\ (signals[s] > 0 => ledger[s] # NoEntry)
    /\ \A h \in Hosts : OnlyInv(h)

StoreInv == IdsInv /\ ThreadsInv /\ DoneInv /\ RefusedMeansOwed
HostsInv == \A h \in Hosts : EffectInv(h) /\ WalkInv(h)
IInv == Types /\ LeaseInv /\ StoreInv /\ HostsInv /\ OnceInv

-----------------------------------------------------------------------------
(* Steps.                                                                  *)

\* What the run is given does not change.
Same ==
  /\ given' = given /\ Hosts' = Hosts /\ Stalls' = Stalls /\ MaxEpoch' = MaxEpoch /\ MaxFaults' = MaxFaults
  /\ Session' = Session /\ Signal' = Signal /\ Delivery' = Delivery /\ Post' = Post /\ Effect' = Effect
  /\ HostType' = HostType

\* Everything that is given follows from the setting.
LEMMA Given ==
  ASSUME given' = given
  PROVE  Same
BY DEF Same, Hosts, Stalls, MaxEpoch, MaxFaults, Session, Signal, Delivery, Post, Effect, HostType

\* The kinds of effects are apart, and the bounds are numbers.
LEMMA Kinds ==
  ASSUME Types
  PROVE  /\ Post \cap Session = {} /\ Post \cap Signal = {} /\ Session \cap Signal = {} /\ RootKey \notin Delivery
         /\ Effect = Post \cup Session \cup Signal /\ Post = {RootKey} \cup Delivery
         /\ IsFiniteSet(Session) /\ MaxEpoch \in Nat \ {0} /\ MaxFaults \in Nat /\ Hosts \subseteq Host
BY KeysAssumption, SettingsAssumption DEF Types, Post, Session, Signal, Delivery, Effect, MaxEpoch, MaxFaults, Hosts

\* Nobody but h moves, and h keeps its epoch.
At(h, pc, e, t, i) ==
  /\ Same
  /\ host' \in [Hosts -> HostType]
  /\ \A g \in Hosts \ {h} : host'[g] = host[g]
  /\ host'[h].pc = pc /\ host'[h].effect = e /\ host'[h].thread = t /\ host'[h].id = i
  /\ host'[h].epoch = host[h].epoch

\* A step that gives host h the state new.
LEMMA Updated ==
  ASSUME Types, NEW h \in Hosts, NEW new \in HostType, host' = [host EXCEPT ![h] = new], given' = given,
         new.epoch = host[h].epoch
  PROVE  At(h, new.pc, new.effect, new.thread, new.id)
<1>1. Same
  BY Given
<1> QED
  BY <1>1 DEF Types, At

\* Goto changes the place and nothing else.
LEMMA GotoShape ==
  ASSUME Types, NEW h \in Hosts, NEW pc \in Pc, Goto(h, pc), given' = given
  PROVE  At(h, pc, host[h].effect, host[h].thread, host[h].id)
<1> DEFINE new == [host[h] EXCEPT !.pc = pc]
<1>1. host' = [host EXCEPT ![h] = new]
  BY DEF Goto
<1>2. new \in HostType /\ new.pc = pc /\ new.effect = host[h].effect /\ new.thread = host[h].thread /\ new.id = host[h].id
      /\ new.epoch = host[h].epoch
  BY DEF Types, HostType
<1> HIDE DEF new
<1> QED
  BY <1>1, <1>2, Updated

\* Drop ends the tick.
LEMMA DropShape ==
  ASSUME Types, NEW h \in Hosts, Drop(h), given' = given
  PROVE  At(h, "idle", host[h].effect, host[h].thread, host[h].id)
<1> DEFINE new == Forget(host[h])
<1>1. host' = [host EXCEPT ![h] = new]
  BY DEF Drop
<1>2. new \in HostType /\ new.pc = "idle" /\ new.effect = host[h].effect /\ new.thread = host[h].thread
      /\ new.id = host[h].id /\ new.epoch = host[h].epoch
  <2>1. host[h] \in HostType /\ "idle" \in Pc
    BY DEF Types, Pc
  <2> QED
    BY <2>1 DEF HostType, Forget
<1> HIDE DEF new
<1> QED
  BY <1>1, <1>2, Updated

\* The types after a step.
TypesNext ==
  /\ lease' \in [owner : Hosts \cup {NoHost}, epoch : 0..MaxEpoch, expired : BOOLEAN]
  /\ ledger' \in [Effect -> Entry]
  /\ refused' \in BOOLEAN
  /\ opened' \subseteq [session : Session \cup {RootKey}, thread : Nat]
  /\ messages' \subseteq [thread : Nat, key : Post \cup Session, id : Nat] /\ IsFiniteSet(messages')
  /\ routes' \subseteq [thread : Nat, session : Session]
  /\ session' \in [Session -> Nat \cup {NoThread}] /\ spawned' \in [Session -> Nat \cup {NoThread}]
  /\ signals' \in [Signal -> Nat]
  /\ inbox' \subseteq [key : Effect, id : Nat] /\ folded' \subseteq [key : Effect, id : Nat]
  /\ faults' \in 0..MaxFaults

\* What a step of host h may do to the world: the owner alone writes entries and the note of a refusal, an entry that
\* is done stays, and nothing is taken back.
Grows(h) ==
  /\ \A e \in Effect :
       \/ ledger'[e] = ledger[e]
       \/ /\ Active(h) /\ ~Fenced(h) /\ ledger'[e] # NoEntry /\ ledger[e].state # "done"
          /\ e \in Session /\ ledger[e] # NoEntry => ledger'[e].id = ledger[e].id
  /\ messages \subseteq messages' /\ routes \subseteq routes'
  /\ \A s \in Session : session[s] # NoThread => session'[s] = session[s]
  /\ refused' => refused \/ (Active(h) /\ ~Fenced(h))

\* The other hosts have what they had.
LEMMA OthersKeep ==
  ASSUME IInv, NEW h \in Hosts, NEW g \in Hosts \ {h}, host'[g] = host[g], lease' = lease, Same, Grows(h)
  PROVE  EffectInv(g)' /\ WalkInv(g)'
<1> DEFINE e == host[g].effect
           t == host[g].thread
<1>1. e \in Effect /\ t \in Nat /\ NoThread \notin Nat /\ EffectInv(g) /\ WalkInv(g)
  BY DEF IInv, Types, HostType, HostsInv, NoThread
<1>2. Fenced(g)' <=> Fenced(g)
  BY DEF Fenced
<1>3. EffectInv(g)'
  BY <1>1 DEF EffectInv, Same
<1>4. Active(g) /\ ~Fenced(g) => ~(Active(h) /\ ~Fenced(h))
  BY DEF IInv, LeaseInv
<1>5. /\ ledger[e] # NoEntry => ledger'[e] # NoEntry /\ (e \in Session => ledger'[e].id = ledger[e].id)
      /\ ledger[e].state = "done" => ledger'[e] = ledger[e]
      /\ Active(g) /\ ~Fenced(g) => ledger'[e] = ledger[e] /\ (refused' => refused)
  BY <1>1, <1>4 DEF Grows
<1>6. \A s : HasTurn(s, t) => HasTurn(s, t)'
  BY DEF HasTurn, Grows
<1>7. messages \subseteq messages' /\ routes \subseteq routes'
  BY DEF Grows
<1>8. e \in Session /\ session[e] = t => session'[e] = t
  BY <1>1 DEF Grows
<1>9. host[g].pc \in Walking \cup {"spawn", "result"} => Active(g)
  BY DEF Walking, Active
<1>10. /\ host[g].pc \in Walking =>
            /\ ledger'[e] # NoEntry /\ t = (IF e \in Session THEN ledger'[e].id ELSE RootThread)
            /\ ~Fenced(g) => ledger'[e].state = "pending"
  BY <1>1, <1>5, <1>9 DEF WalkInv
<1>11. /\ host[g].pc \in {"clear", "set", "cas"} /\ e \in Post =>
           [thread |-> RootThread, key |-> e, id |-> host[g].id] \in messages'
       /\ host[g].pc \in {"clear", "route", "session", "set", "cas"} /\ e \in Session => HasTurn(e, t)'
       /\ host[g].pc \in {"session", "set", "cas"} /\ e \in Session => [thread |-> t, session |-> e] \in routes'
       /\ host[g].pc \in {"set", "cas"} /\ e \in Session => session'[e] = t
  BY <1>1, <1>6, <1>7, <1>8 DEF WalkInv
<1>12. /\ host[g].pc = "spawn" => ledger'[e].state = "done" /\ t = ledger'[e].id
       /\ host[g].pc = "result" /\ e \in Post => ledger'[e].state = "done" /\ host[g].id = ledger'[e].id
  BY <1>1, <1>5 DEF WalkInv
<1>13. host[g].pc \in {"route", "session", "set", "cas"} /\ ~Fenced(g) => ~refused'
  BY <1>1, <1>5, <1>9 DEF WalkInv, Walking
<1>14. WalkInv(g)'
  <2>1. host'[g].pc = host[g].pc /\ host'[g].effect = e /\ host'[g].thread = t /\ host'[g].id = host[g].id
    OBVIOUS
  <2>2. Session' = Session /\ Post' = Post
    BY DEF Same
  <2>3. HasTurn(e, t)' => HasTurn(host[g].effect, host[g].thread)'
    BY DEF HasTurn
  <2> QED
    BY <1>2, <1>10, <1>11, <1>12, <1>13, <2>1, <2>2, <2>3 DEF WalkInv
<1> QED
  BY <1>3, <1>14

\* The messages and the signals, without the hosts.
OnceWorld ==
  /\ \A m, n \in messages : m.thread = n.thread /\ m.key = n.key => m = n
  /\ \A s \in Signal : signals[s] <= 1 /\ (signals[s] > 0 => ledger[s] # NoEntry)

\* A step of a host inside its tick.
LEMMA HostMoves ==
  ASSUME IInv, NEW h \in Hosts, Active(h), lease' = lease, NEW pc, NEW e, NEW t, NEW i, At(h, pc, e, t, i),
         TypesNext, Grows(h), StoreInv', EffectInv(h)', WalkInv(h)',
         Stalls # "inside" => OnceWorld' /\ OnlyInv(h)'
  PROVE  IInv'
<1>1. Same /\ host' \in [Hosts -> HostType] /\ (\A g \in Hosts \ {h} : host'[g] = host[g])
      /\ host'[h].epoch = host[h].epoch
  BY DEF At
<1>2. Types'
  BY <1>1 DEF Same, TypesNext, Types, IInv
<1>3. LeaseInv'
  <2>1. \A g \in Hosts : host'[g].epoch = host[g].epoch /\ (Active(g)' => Active(g))
    BY <1>1 DEF Active
  <2> QED
    BY <1>1, <2>1 DEF IInv, LeaseInv, Fenced, Same
<1>4. HostsInv'
  BY <1>1, OthersKeep DEF HostsInv, Same
<1>5. OnceInv'
  <2>1. ASSUME Stalls # "inside", NEW g \in Hosts \ {h} PROVE OnlyInv(g)'
    <3>1. ~Active(g)
      BY <2>1 DEF IInv, LeaseInv
    <3> QED
      BY <1>1, <3>1 DEF OnlyInv, Active
  <2> QED
    BY <1>1, <2>1 DEF OnceInv, OnceWorld, Same
<1> QED
  BY <1>2, <1>3, <1>4, <1>5 DEF IInv

\* Nothing changes but the hosts and the count of refusals.
Quiet == UNCHANGED <<given, lease, ledger, refused, opened, messages, routes, session, spawned, signals, inbox, folded>>

\* A step that changes only host h.
LEMMA QuietMoves ==
  ASSUME IInv, NEW h \in Hosts, Active(h), Quiet, faults' \in 0..MaxFaults, NEW pc, NEW e, NEW t, NEW i, At(h, pc, e, t, i),
         EffectInv(h)', WalkInv(h)', Stalls # "inside" => OnlyInv(h)'
  PROVE  IInv'
<1>1. TypesNext
  BY DEF IInv, Types, TypesNext, Quiet
<1>2. Grows(h)
  BY DEF Grows, Quiet
<1>3. Same
  BY DEF At
<1>4. IdsInv' /\ ThreadsInv' /\ DoneInv' /\ RefusedMeansOwed'
  <2>1. IdsInv'
    BY <1>3 DEF IInv, StoreInv, IdsInv, Entered, Quiet, Same
  <2>2. ThreadsInv'
    BY <1>3 DEF IInv, StoreInv, ThreadsInv, Quiet, Same
  <2>3. DoneInv'
    BY <1>3 DEF IInv, StoreInv, DoneInv, HasTurn, Quiet, Same
  <2>4. RefusedMeansOwed'
    BY <1>3 DEF IInv, StoreInv, RefusedMeansOwed, Quiet, Same
  <2> QED
    BY <2>1, <2>2, <2>3, <2>4
<1>5. Stalls # "inside" => OnceWorld'
  BY <1>3 DEF IInv, OnceInv, OnceWorld, Quiet, Same
<1> QED
  BY <1>1, <1>2, <1>4, <1>5, HostMoves DEF Quiet, StoreInv

\* A host at one of these places relies on nothing.
LEMMA AtRest ==
  ASSUME NEW h \in Hosts, host'[h].pc \in {"idle", "dead", "fold", "check"}
  PROVE  EffectInv(h)' /\ WalkInv(h)' /\ OnlyInv(h)'
<1>1. host'[h].pc \notin Walking /\ host'[h].pc \notin {"spawn", "result", "entry", "write", "send", "found"}
  BY DEF Walking
<1> QED
  BY <1>1 DEF EffectInv, WalkInv, OnlyInv, Walking

-----------------------------------------------------------------------------
(* Every step keeps the invariant: the tick around the effects.            *)

\* The invariant, of one host.
LEMMA HostNow ==
  ASSUME IInv, NEW h \in Hosts
  PROVE  /\ Types /\ host[h] \in HostType /\ host[h].effect \in Effect /\ host[h].thread \in Nat /\ host[h].id \in Nat
         /\ ledger[host[h].effect] \in Entry
         /\ EffectInv(h) /\ WalkInv(h) /\ (Stalls # "inside" => OnlyInv(h) /\ OnceWorld)
BY DEF IInv, HostsInv, OnceInv, OnceWorld, Types, HostType

\* A step that ends the tick or the effect, and changes nothing else.
LEMMA RestKeeps ==
  ASSUME IInv, NEW h \in Hosts, Active(h), Quiet, faults' \in 0..MaxFaults, NEW pc \in {"idle", "check"}, NEW e, NEW t, NEW i,
         At(h, pc, e, t, i)
  PROVE  IInv'
<1>1. host'[h].pc \in {"idle", "check"}
  BY DEF At
<1> QED
  BY <1>1, AtRest, QuietMoves

\* fold_run.
LEMMA FoldKeeps ==
  ASSUME IInv, NEW h \in Hosts, Fold(h)
  PROVE  IInv'
<1>1. Types /\ host[h] \in HostType /\ Active(h) /\ faults \in 0..MaxFaults
  BY HostNow DEF Fold, Active, Types
<1>2. UNCHANGED <<given, lease, ledger, refused, opened, messages, routes, session, spawned, signals, faults>>
  BY DEF Fold, chatVars, routeVars
<1>3. CASE Drop(h) /\ UNCHANGED <<inbox, folded>>
  <2>1. At(h, "idle", host[h].effect, host[h].thread, host[h].id)
    BY <1>1, <1>2, <1>3, DropShape
  <2> QED
    BY <1>1, <1>2, <1>3, <2>1, RestKeeps DEF Quiet
<1>4. CASE ~(Drop(h) /\ UNCHANGED <<inbox, folded>>)
  <2> DEFINE known == IF inbox = {} /\ host[h].cached THEN host[h].view ELSE Keys(folded')
             new == [host[h] EXCEPT !.pc = "check", !.cached = TRUE, !.view = known, !.todo = Owed(known)]
  <2>1. folded' = folded \cup inbox /\ inbox' = {} /\ host' = [host EXCEPT ![h] = new]
    BY <1>4 DEF Fold
  <2>2. folded' \subseteq [key : Effect, id : Nat] /\ inbox' \subseteq [key : Effect, id : Nat]
    BY <1>1, <2>1 DEF Types
  <2>3. known \in SUBSET Effect
    BY <1>1, <2>2 DEF HostType, Keys
  <2>4. Owed(known) \in SUBSET Effect
    BY DEF Owed, Effect, Post
  <2> HIDE DEF known
  <2>5. new \in HostType /\ new.pc = "check" /\ new.epoch = host[h].epoch
    BY <1>1, <2>3, <2>4 DEF HostType, Pc
  <2> HIDE DEF new
  <2>6. At(h, "check", new.effect, new.thread, new.id)
    BY <1>1, <1>2, <2>1, <2>5, Updated
  <2>7. Same /\ host'[h].pc = "check"
    BY <2>6 DEF At
  <2>8. EffectInv(h)' /\ WalkInv(h)' /\ OnlyInv(h)'
    BY <2>7, AtRest
  <2>9. TypesNext
    BY <1>1, <1>2, <2>2 DEF Types, TypesNext
  <2>10. Grows(h)
    BY <1>2 DEF Grows
  <2>11. StoreInv'
    <3>1. IdsInv' /\ ThreadsInv' /\ RefusedMeansOwed'
      BY <1>2, <2>7 DEF IInv, StoreInv, IdsInv, Entered, ThreadsInv, RefusedMeansOwed, Same
    <3>2. inbox' \cup folded' = inbox \cup folded
      BY <2>1
    <3>3. \A s, t : HasTurn(s, t)' <=> HasTurn(s, t)
      BY <1>2 DEF HasTurn
    <3>4. DoneInv'
      BY <1>2, <2>7, <3>2, <3>3 DEF IInv, StoreInv, DoneInv, Same
    <3> QED
      BY <3>1, <3>4 DEF StoreInv
  <2>12. Stalls # "inside" => OnceWorld'
    BY <1>2, <2>7 DEF IInv, OnceInv, OnceWorld, Same
  <2> QED
    BY <1>1, <1>2, <2>6, <2>8, <2>9, <2>10, <2>11, <2>12, HostMoves
<1> QED
  BY <1>3, <1>4

\* execute_run comes to an effect.
LEMMA CheckKeeps ==
  ASSUME IInv, NEW h \in Hosts, Check(h)
  PROVE  IInv'
<1>1. Types /\ host[h] \in HostType /\ Active(h) /\ faults \in 0..MaxFaults
  BY HostNow DEF Check, Active, Types
<1>2. Quiet /\ faults' \in 0..MaxFaults /\ given' = given
  BY <1>1 DEF Check, chatVars, routeVars, Quiet
<1>3. CASE Goto(h, "idle")
  <2>1. At(h, "idle", host[h].effect, host[h].thread, host[h].id)
    BY <1>1, <1>2, <1>3, GotoShape DEF Pc
  <2> QED
    BY <1>1, <1>2, <2>1, RestKeeps
<1>4. CASE Drop(h)
  <2>1. At(h, "idle", host[h].effect, host[h].thread, host[h].id)
    BY <1>1, <1>2, <1>4, DropShape
  <2> QED
    BY <1>1, <1>2, <2>1, RestKeeps
<1>5. ASSUME NEW e \in host[h].todo,
             host' = [host EXCEPT ![h].todo = @ \ {e}, ![h].effect = e,
                                  ![h].pc = IF e \in host[h].started THEN "check" ELSE EntryPc(e)]
      PROVE  IInv'
  <2> DEFINE pc == IF e \in host[h].started THEN "check" ELSE EntryPc(e)
             new == [host[h] EXCEPT !.todo = host[h].todo \ {e}, !.effect = e, !.pc = pc]
  <2>1. host' = [host EXCEPT ![h] = new]
    BY <1>5
  <2>2. pc \in {"check", "found", "entry"} /\ pc \in Pc /\ (pc = "found" => e \in Signal) /\ (pc = "entry" => e \notin Signal)
    BY DEF EntryPc, Pc
  <2> HIDE DEF pc
  <2>3. new \in HostType /\ new.pc = pc /\ new.effect = e /\ new.epoch = host[h].epoch
    BY <1>1, <2>2 DEF HostType
  <2> HIDE DEF new
  <2>4. At(h, pc, e, new.thread, new.id)
    BY <1>1, <1>2, <2>1, <2>3, Updated
  <2>5. host'[h].pc = pc /\ host'[h].effect = e /\ Same
    BY <2>4 DEF At
  <2>6. EffectInv(h)' /\ WalkInv(h)' /\ OnlyInv(h)'
    <3>1. EffectInv(h)'
      BY <2>2, <2>5 DEF EffectInv, Same
    <3>2. WalkInv(h)'
      BY <2>2, <2>5 DEF WalkInv, Walking
    <3>3. OnlyInv(h)'
      BY <2>2, <2>5 DEF OnlyInv, Same
    <3> QED
      BY <3>1, <3>2, <3>3
  <2> QED
    BY <1>1, <1>2, <2>4, <2>6, QuietMoves
<1> QED
  BY <1>3, <1>4, <1>5 DEF Check

-----------------------------------------------------------------------------
(* The ledger entry.                                                       *)

\* entry_or_write's get.
LEMMA ReadEntryKeeps ==
  ASSUME IInv, NEW h \in Hosts, ReadEntry(h)
  PROVE  IInv'
<1> DEFINE e == host[h].effect
           found == ledger[e]
           t == IF e \in Session THEN found.id ELSE RootThread
           pc == CASE found.state = "none" -> "write"
                   [] found.state = "done" -> AfterDone(e)
                   [] OTHER -> AfterPending(e)
           new == [host[h] EXCEPT !.thread = t, !.id = found.id, !.pc = pc]
<1>1. Types /\ host[h] \in HostType /\ Active(h) /\ faults \in 0..MaxFaults /\ e \in Effect /\ found \in Entry
      /\ host[h].pc = "entry" /\ (Stalls # "inside" => OnlyInv(h))
  BY HostNow DEF ReadEntry, Active, Types
<1>2. Quiet /\ faults' \in 0..MaxFaults /\ given' = given /\ host' = [host EXCEPT ![h] = new]
  BY <1>1 DEF ReadEntry, chatVars, routeVars, Quiet
<1>3. /\ Post \cap Session = {} /\ Post \cap Signal = {} /\ Session \cap Signal = {}
      /\ Effect = Post \cup Session \cup Signal /\ Post = {RootKey} \cup Delivery /\ RootKey \notin Delivery
  BY <1>1, Kinds
<1>4. \/ pc = "write" /\ found.state = "none"
      \/ pc = "spawn" /\ e \in Session /\ found.state = "done"
      \/ pc = "result" /\ e \in Post \cup Signal /\ found.state = "done"
      \/ pc = "send" /\ e \in Signal /\ found.state = "pending"
      \/ pc = "find" /\ e \in Delivery /\ found.state = "pending"
      \/ pc = "open" /\ e \in Session \cup {RootKey} /\ found.state = "pending"
  <2>1. found.state \in {"none", "pending", "done"}
    BY <1>1 DEF Entry
  <2> QED
    BY <1>1, <1>3, <2>1 DEF AfterDone, AfterPending
<1>5. t \in Nat /\ found.id \in Nat /\ pc \in Pc
  BY <1>1, <1>4 DEF Entry, RootThread, Pc
<1> HIDE DEF pc, t
<1>6. new \in HostType /\ new.pc = pc /\ new.effect = e /\ new.thread = t /\ new.id = found.id /\ new.epoch = host[h].epoch
  BY <1>1, <1>5 DEF HostType
<1> HIDE DEF new
<1>7. At(h, pc, e, t, found.id)
  BY <1>1, <1>2, <1>6, Updated
<1>8. Same /\ host'[h].pc = pc /\ host'[h].effect = e /\ host'[h].thread = t /\ host'[h].id = found.id
  BY <1>7 DEF At
<1>9. EffectInv(h)'
  BY <1>3, <1>4, <1>8 DEF EffectInv, Same
<1>10. WalkInv(h)'
  <2>1. ledger' = ledger /\ Session' = Session /\ Post' = Post
    BY <1>2, <1>8 DEF Quiet, Same
  <2>2. t = IF e \in Session THEN found.id ELSE RootThread
    BY DEF t
  <2>3. found.state = "pending" => found # NoEntry
    BY DEF NoEntry
  <2> QED
    BY <1>3, <1>4, <1>8, <2>1, <2>2, <2>3 DEF WalkInv, Walking
<1>11. Stalls # "inside" => OnlyInv(h)'
  <2>1. Stalls # "inside" => OnlyInv(h)
    BY <1>1
  <2>2. Stalls # "inside" /\ e \in Signal => found = NoEntry
    BY <1>1, <2>1 DEF OnlyInv
  <2>3. NoEntry.state = "none"
    BY DEF NoEntry
  <2> QED
    BY <1>2, <1>4, <1>8, <2>2, <2>3 DEF OnlyInv, Quiet, Same
<1> QED
  BY <1>1, <1>2, <1>7, <1>9, <1>10, <1>11, QuietMoves

\* stop's own look.
LEMMA FindSignalKeeps ==
  ASSUME IInv, NEW h \in Hosts, FindSignal(h)
  PROVE  IInv'
<1> DEFINE e == host[h].effect
           pc == IF ledger[e] = NoEntry THEN "entry" ELSE "result"
<1>1. Types /\ host[h] \in HostType /\ Active(h) /\ faults \in 0..MaxFaults /\ host[h].pc = "found" /\ EffectInv(h)
  BY HostNow DEF FindSignal, Active, Types
<1>2. Quiet /\ faults' \in 0..MaxFaults /\ given' = given /\ Goto(h, pc) /\ pc \in Pc
  BY <1>1 DEF FindSignal, chatVars, routeVars, Quiet, Pc
<1>3. At(h, pc, e, host[h].thread, host[h].id)
  BY <1>1, <1>2, GotoShape
<1>4. Same /\ host'[h].pc = pc /\ host'[h].effect = e /\ e \in Signal /\ e \notin Post
  BY <1>1, <1>3, Kinds DEF At, EffectInv
<1>5. EffectInv(h)'
  BY <1>4 DEF EffectInv, Same
<1>6. WalkInv(h)'
  BY <1>4 DEF WalkInv, Same, Walking
<1>7. OnlyInv(h)'
  BY <1>2, <1>4 DEF OnlyInv, Same, Quiet
<1> QED
  BY <1>1, <1>2, <1>3, <1>5, <1>6, <1>7, QuietMoves

\* entry_set's get.
LEMMA ReadForSetKeeps ==
  ASSUME IInv, NEW h \in Hosts, ReadForSet(h)
  PROVE  IInv'
<1> DEFINE new == [host[h] EXCEPT !.pc = "cas", !.read = ledger[host[h].effect]]
<1>1. Types /\ host[h] \in HostType /\ Active(h) /\ faults \in 0..MaxFaults /\ host[h].pc = "set" /\ EffectInv(h) /\ WalkInv(h)
      /\ ledger[host[h].effect] \in Entry
  BY HostNow DEF ReadForSet, Active, Types
<1>2. Quiet /\ faults' \in 0..MaxFaults /\ given' = given /\ host' = [host EXCEPT ![h] = new]
  BY <1>1 DEF ReadForSet, chatVars, routeVars, Quiet
<1>3. new \in HostType /\ new.pc = "cas" /\ new.effect = host[h].effect /\ new.thread = host[h].thread
      /\ new.id = host[h].id /\ new.epoch = host[h].epoch
  BY <1>1 DEF HostType, Pc
<1> HIDE DEF new
<1>4. At(h, "cas", host[h].effect, host[h].thread, host[h].id)
  BY <1>1, <1>2, <1>3, Updated
<1>5. Same /\ host'[h].pc = "cas" /\ host'[h].effect = host[h].effect /\ host'[h].thread = host[h].thread
      /\ host'[h].id = host[h].id /\ host'[h].epoch = host[h].epoch
  BY <1>4 DEF At
<1>6. EffectInv(h)'
  BY <1>1, <1>5 DEF EffectInv, Same
<1>7. WalkInv(h)'
  <2>1. \A s, t : HasTurn(s, t)' <=> HasTurn(s, t)
    BY <1>2 DEF HasTurn, Quiet
  <2>2. HasTurn(host[h].effect, host[h].thread) => HasTurn(host[h].effect, host[h].thread)'
    BY <1>2, <1>5 DEF HasTurn, Quiet
  <2> QED
    BY <1>1, <1>2, <1>5, <2>2 DEF WalkInv, Same, Walking, Fenced, Quiet
<1>8. OnlyInv(h)'
  BY <1>5 DEF OnlyInv
<1> QED
  BY <1>1, <1>2, <1>4, <1>6, <1>7, <1>8, QuietMoves

\* A minted thread id is new.
LEMMA Minted ==
  ASSUME IInv, NEW e \in Session
  PROVE  /\ IsFiniteSet(Entered) /\ Cardinality(Entered) \in Nat /\ MintedId(e) = Cardinality(Entered) + 1
         /\ e \notin Entered => Cardinality(Entered \cup {e}) = Cardinality(Entered) + 1
<1>1. IsFiniteSet(Session) /\ Entered \subseteq Session
  BY Kinds DEF IInv, Entered
<1>2. IsFiniteSet(Entered)
  BY <1>1, FS_Subset
<1> QED
  BY <1>2, FS_CardinalityType, FS_AddElement DEF MintedId, Entered

\* entry_or_write's compare-and-set: the entry is there before anything is done.
LEMMA WriteEntryKeeps ==
  ASSUME IInv, NEW h \in Hosts, WriteEntry(h)
  PROVE  IInv'
<1> DEFINE e == host[h].effect
<1>1. /\ Types /\ host[h] \in HostType /\ Active(h) /\ faults \in 0..MaxFaults /\ host[h].pc = "write" /\ e \in Effect
      /\ Stalls # "inside" => OnlyInv(h) /\ OnceWorld
  BY HostNow DEF WriteEntry, Active, Types
<1>2. /\ UNCHANGED <<given, lease, refused, opened, messages, routes, session, spawned, signals, inbox, folded, faults>>
      /\ faults' \in 0..MaxFaults
  BY <1>1 DEF WriteEntry, chatVars, routeVars
<1>3. /\ Post \cap Session = {} /\ Post \cap Signal = {} /\ Session \cap Signal = {}
      /\ Effect = Post \cup Session \cup Signal /\ Post = {RootKey} \cup Delivery /\ RootKey \notin Delivery
  BY <1>1, Kinds
<1>4. CASE Drop(h) /\ UNCHANGED ledger
  <2>1. At(h, "idle", e, host[h].thread, host[h].id)
    BY <1>1, <1>2, <1>4, DropShape
  <2> QED
    BY <1>1, <1>2, <1>4, <2>1, RestKeeps DEF Quiet
<1>5. CASE NextEffect(h) /\ UNCHANGED ledger
  <2>1. At(h, "check", e, host[h].thread, host[h].id)
    BY <1>1, <1>2, <1>5, GotoShape DEF NextEffect, Pc
  <2> QED
    BY <1>1, <1>2, <1>5, <2>1, RestKeeps DEF Quiet
<1>6. ASSUME ~Fenced(h), ledger[e] = NoEntry,
             ledger' = [ledger EXCEPT ![e] = [state |-> "pending", id |-> MintedId(e), epoch |-> host[h].epoch]],
             host' = [host EXCEPT ![h].pc = AfterPending(e), ![h].thread = IF e \in Session THEN MintedId(e) ELSE RootThread]
      PROVE  IInv'
  <2> DEFINE entry == [state |-> "pending", id |-> MintedId(e), epoch |-> host[h].epoch]
             t == IF e \in Session THEN MintedId(e) ELSE RootThread
             pc == AfterPending(e)
             new == [host[h] EXCEPT !.pc = pc, !.thread = t]
  <2>1. MintedId(e) \in Nat /\ (e \in Session => MintedId(e) = Cardinality(Entered) + 1 /\ Cardinality(Entered) \in Nat)
    <3>1. CASE e \in Session
      <4>1. \A s \in Session : Cardinality(Entered) \in Nat /\ MintedId(s) = Cardinality(Entered) + 1
        BY Minted
      <4> QED
        BY <3>1, <4>1
    <3>2. CASE e \notin Session
      BY <3>2 DEF MintedId
    <3> QED
      BY <3>1, <3>2
  <2>2. entry \in Entry /\ entry.state = "pending" /\ entry.id = MintedId(e) /\ t \in Nat
    BY <1>1, <2>1 DEF Entry, HostType, RootThread
  <2>3. \/ pc = "send" /\ e \in Signal
        \/ pc = "find" /\ e \in Delivery
        \/ pc = "open" /\ e \in Session \cup {RootKey}
    BY <1>1, <1>3 DEF AfterPending
  <2>4. pc \in Pc
    BY <2>3 DEF Pc
  <2>5. ledger'[e] = entry /\ (\A d \in Effect \ {e} : ledger'[d] = ledger[d]) /\ ledger' \in [Effect -> Entry]
    BY <1>1, <1>6, <2>2 DEF Types
  <2>6. entry # NoEntry /\ NoEntry.state = "none"
    BY <2>2 DEF NoEntry
  <2>7. t = IF e \in Session THEN entry.id ELSE RootThread
    BY <2>2
  <2> HIDE DEF entry, t, pc
  <2>8. new \in HostType /\ new.pc = pc /\ new.effect = e /\ new.thread = t /\ new.epoch = host[h].epoch
    BY <1>1, <2>2, <2>4 DEF HostType
  <2>9. host' = [host EXCEPT ![h] = new]
    BY <1>6 DEF pc, t
  <2> HIDE DEF new
  <2>10. At(h, pc, e, t, new.id)
    BY <1>1, <1>2, <2>8, <2>9, Updated
  <2>11. Same /\ host'[h].pc = pc /\ host'[h].effect = e /\ host'[h].thread = t
    BY <2>10 DEF At
  <2>12. TypesNext
    BY <1>1, <1>2, <2>5 DEF Types, TypesNext
  <2>13. Grows(h)
    BY <1>1, <1>2, <1>6, <2>5, <2>6 DEF Grows
  <2>14. IdsInv'
    <3>0. IdsInv
      BY DEF IInv, StoreInv
    <3>1. \A d \in Effect : ledger'[d].state = "none" => ledger'[d] = NoEntry
      BY <2>2, <2>5, <3>0 DEF IdsInv
    <3>2. CASE e \in Session
      <4>1. Entered' = Entered \cup {e} /\ e \notin Entered
        BY <1>3, <1>6, <2>5, <2>6, <2>11, <3>2 DEF Entered, Same
      <4>2. Cardinality(Entered') = Cardinality(Entered) + 1 /\ Cardinality(Entered) \in Nat
            /\ entry.id = Cardinality(Entered) + 1
        BY <2>1, <2>2, <3>2, <4>1, Minted
      <4>3. \A s \in Session \ {e} : ledger'[s] = ledger[s] /\ (ledger[s] # NoEntry => ledger[s].id \in 1..Cardinality(Entered))
        BY <1>3, <2>5, <3>0 DEF IdsInv
      <4>4. \A s \in Session : ledger'[s] # NoEntry => ledger'[s].id \in 1..Cardinality(Entered')
        BY <2>5, <4>2, <4>3
      <4>5. \A s, r \in Session : s # r /\ ledger'[s] # NoEntry /\ ledger'[r] # NoEntry => ledger'[s].id # ledger'[r].id
        BY <2>5, <3>0, <4>2, <4>3 DEF IdsInv
      <4> QED
        BY <2>11, <3>1, <4>4, <4>5 DEF IdsInv, Same
    <3>3. CASE e \notin Session
      <4>1. \A s \in Session : ledger'[s] = ledger[s]
        BY <1>3, <2>5, <3>3
      <4>2. Entered' = Entered
        BY <2>11, <4>1 DEF Entered, Same
      <4> QED
        BY <2>11, <3>0, <3>1, <4>1, <4>2 DEF IdsInv, Same
    <3> QED
      BY <3>2, <3>3
  <2>15. ThreadsInv'
    <3>0. ThreadsInv
      BY DEF IInv, StoreInv
    <3>1. \A s \in Session : ledger[s] # NoEntry => ledger'[s] = ledger[s]
      BY <1>3, <1>6, <2>5
    <3>2. \A r \in routes : r.session \in Session
      BY <1>1 DEF Types
    <3>3. \A s \in Session : ledger[s].state = "done" => ledger'[s] = ledger[s]
      BY <2>6, <3>1
    <3> QED
      BY <1>2, <2>11, <3>0, <3>1, <3>2, <3>3 DEF ThreadsInv, Same
  <2>16. DoneInv'
    <3>0. DoneInv
      BY DEF IInv, StoreInv
    <3>1. \A d \in Effect : /\ ledger'[d].state = "done" => ledger'[d] = ledger[d]
                            /\ ledger[d].state = "done" => ledger'[d] = ledger[d]
      BY <1>6, <2>2, <2>5, <2>6
    <3>2. \A s, r : HasTurn(s, r)' <=> HasTurn(s, r)
      BY <1>2 DEF HasTurn
    <3>3. \A i \in inbox \cup folded : i.key \in Effect
      BY <1>1 DEF Types
    <3>4. \A d \in Post : ledger'[d].state = "done" => [thread |-> RootThread, key |-> d, id |-> ledger'[d].id] \in messages'
      BY <1>2, <1>3, <3>0, <3>1 DEF DoneInv
    <3>5. \A s \in Session : ledger'[s].state = "done" =>
            /\ session'[s] = ledger'[s].id /\ [thread |-> ledger'[s].id, session |-> s] \in routes'
            /\ HasTurn(s, ledger[s].id)
      BY <1>2, <1>3, <3>0, <3>1 DEF DoneInv
    <3>6. \A s \in Session : ledger'[s].state = "done" => HasTurn(s, ledger[s].id)'
      BY <1>2, <1>3, <3>1, <3>5 DEF HasTurn
    <3>7. \A i \in inbox' \cup folded' : i.key \in Post => ledger'[i.key].state = "done" /\ ledger'[i.key].id = i.id
      BY <1>2, <1>3, <3>0, <3>1, <3>3 DEF DoneInv
    <3> QED
      BY <2>11, <3>4, <3>5, <3>6, <3>7 DEF DoneInv, Same
  <2>17. RefusedMeansOwed'
    <3>1. RefusedMeansOwed
      BY DEF IInv, StoreInv
    <3> QED
      BY <1>2, <1>3, <2>2, <2>5, <2>11, <3>1 DEF RefusedMeansOwed, Same
  <2>18. EffectInv(h)'
    BY <1>3, <2>3, <2>11 DEF EffectInv, Same
  <2>19. WalkInv(h)'
    BY <1>3, <2>2, <2>3, <2>5, <2>6, <2>7, <2>11 DEF WalkInv, Walking, Same
  <2>20. ASSUME Stalls # "inside" PROVE OnceWorld' /\ OnlyInv(h)'
    <3>1. OnceWorld /\ (e \in Signal => signals[e] = 0)
      BY <1>1, <1>6, <2>20 DEF OnceWorld, Types
    <3>2. OnceWorld'
      BY <1>2, <1>3, <2>5, <2>6, <2>11, <3>1 DEF OnceWorld, Same
    <3>3. OnlyInv(h)'
      BY <1>2, <2>3, <2>5, <2>6, <2>11, <3>1 DEF OnlyInv, Same
    <3> QED
      BY <3>2, <3>3
  <2> QED
    BY <1>1, <1>2, <2>10, <2>12, <2>13, <2>14, <2>15, <2>16, <2>17, <2>18, <2>19, <2>20, HostMoves DEF StoreInv
<1> QED
  BY <1>4, <1>5, <1>6 DEF WriteEntry

\* entry_set's compare-and-set: what the entry says is in the world.
LEMMA SetDoneKeeps ==
  ASSUME IInv, NEW h \in Hosts, SetDone(h)
  PROVE  IInv'
<1> DEFINE e == host[h].effect
<1>1. /\ Types /\ host[h] \in HostType /\ Active(h) /\ faults \in 0..MaxFaults /\ host[h].pc = "cas" /\ e \in Effect
      /\ WalkInv(h) /\ EffectInv(h) /\ (Stalls # "inside" => OnlyInv(h) /\ OnceWorld)
  BY HostNow DEF SetDone, Active, Types
<1>2. /\ UNCHANGED <<given, lease, refused, opened, messages, routes, session, spawned, signals, inbox, folded, faults>>
      /\ faults' \in 0..MaxFaults
  BY <1>1 DEF SetDone, chatVars, routeVars
<1>3. /\ Post \cap Session = {} /\ Post \cap Signal = {} /\ Session \cap Signal = {}
      /\ Effect = Post \cup Session \cup Signal
  BY <1>1, Kinds
<1>4. CASE Drop(h) /\ UNCHANGED ledger
  <2>1. At(h, "idle", e, host[h].thread, host[h].id)
    BY <1>1, <1>2, <1>4, DropShape
  <2> QED
    BY <1>1, <1>2, <1>4, <2>1, RestKeeps DEF Quiet
<1>5. CASE NextEffect(h) /\ UNCHANGED ledger
  <2>1. At(h, "check", e, host[h].thread, host[h].id)
    BY <1>1, <1>2, <1>5, GotoShape DEF NextEffect, Pc
  <2> QED
    BY <1>1, <1>2, <1>5, <2>1, RestKeeps DEF Quiet
<1>6. ASSUME ~Fenced(h), Goto(h, AfterDone(e)),
             ledger' = [ledger EXCEPT ![e] = [state |-> "done", epoch |-> host[h].epoch,
                                              id |-> IF e \in Session THEN host[h].thread ELSE host[h].id]]
      PROVE  IInv'
  <2> DEFINE id == IF e \in Session THEN host[h].thread ELSE host[h].id
             entry == [state |-> "done", epoch |-> host[h].epoch, id |-> id]
             pc == AfterDone(e)
  <2>1. /\ e \in Post \cup Session /\ ledger[e] # NoEntry /\ ledger[e].state = "pending" /\ ~refused
        /\ e \in Session => /\ host[h].thread = ledger[e].id /\ HasTurn(e, host[h].thread)
                            /\ [thread |-> host[h].thread, session |-> e] \in routes /\ session[e] = host[h].thread
        /\ e \in Post => [thread |-> RootThread, key |-> e, id |-> host[h].id] \in messages
    BY <1>1, <1>3, <1>6 DEF WalkInv, EffectInv, Walking
  <2>2. entry \in Entry /\ entry.state = "done" /\ entry.id = id /\ id \in Nat
    BY <1>1 DEF Entry, HostType
  <2>3. (pc = "spawn" /\ e \in Session) \/ (pc = "result" /\ e \in Post)
    BY <1>3, <2>1 DEF AfterDone
  <2>4. pc \in Pc
    BY <2>3 DEF Pc
  <2>5. ledger'[e] = entry /\ (\A d \in Effect \ {e} : ledger'[d] = ledger[d]) /\ ledger' \in [Effect -> Entry]
    BY <1>1, <1>6, <2>2 DEF Types
  <2>6. entry # NoEntry /\ NoEntry.state = "none"
    BY <2>2 DEF NoEntry
  <2>7. (e \in Session => id = ledger[e].id /\ id = host[h].thread) /\ (e \in Post => id = host[h].id)
    BY <1>3, <2>1
  <2> HIDE DEF entry, id, pc
  <2>8. At(h, pc, e, host[h].thread, host[h].id)
    BY <1>1, <1>2, <1>6, <2>4, GotoShape DEF pc
  <2>9. Same /\ host'[h].pc = pc /\ host'[h].effect = e /\ host'[h].thread = host[h].thread /\ host'[h].id = host[h].id
    BY <2>8 DEF At
  <2>10. TypesNext
    BY <1>1, <1>2, <2>5 DEF Types, TypesNext
  <2>11. Grows(h)
    BY <1>1, <1>2, <1>6, <2>1, <2>2, <2>5, <2>6, <2>7 DEF Grows
  <2>12. \A s \in Session : (ledger'[s] # NoEntry <=> ledger[s] # NoEntry) /\ ledger'[s].id = ledger[s].id
    BY <1>3, <2>1, <2>2, <2>5, <2>6, <2>7
  <2>13. IdsInv'
    <3>0. IdsInv
      BY DEF IInv, StoreInv
    <3>1. \A d \in Effect : ledger'[d].state = "none" => ledger'[d] = NoEntry
      BY <2>2, <2>5, <3>0 DEF IdsInv
    <3>2. Entered' = Entered
      BY <2>9, <2>12 DEF Entered, Same
    <3> QED
      BY <2>9, <2>12, <3>0, <3>1, <3>2 DEF IdsInv, Same
  <2>14. ThreadsInv'
    <3>0. ThreadsInv
      BY DEF IInv, StoreInv
    <3>1. \A r \in routes : r.session \in Session
      BY <1>1 DEF Types
    <3>2. \A s \in Session : ledger[s].state = "done" => ledger'[s].state = "done"
      BY <1>3, <2>2, <2>5
    <3> QED
      BY <1>2, <2>9, <2>12, <3>0, <3>1, <3>2 DEF ThreadsInv, Same
  <2>15. DoneInv'
    <3>0. DoneInv
      BY DEF IInv, StoreInv
    <3>1. \A i \in inbox \cup folded : i.key \in Effect
      BY <1>1 DEF Types
    <3>2. ASSUME NEW d \in Post, ledger'[d].state = "done"
          PROVE  [thread |-> RootThread, key |-> d, id |-> ledger'[d].id] \in messages'
      BY <1>2, <1>3, <2>1, <2>2, <2>5, <2>7, <3>0, <3>2 DEF DoneInv
    <3>3. ASSUME NEW s \in Session, ledger'[s].state = "done"
          PROVE  /\ session'[s] = ledger'[s].id /\ [thread |-> ledger'[s].id, session |-> s] \in routes'
                 /\ \E m \in messages' : m.thread = ledger'[s].id /\ m.key = s
      <4>1. CASE s = e
        BY <1>2, <1>3, <2>1, <2>2, <2>5, <2>7, <4>1 DEF HasTurn
      <4>2. CASE s # e
        BY <1>2, <1>3, <2>5, <3>0, <3>3, <4>2 DEF DoneInv, HasTurn
      <4> QED
        BY <4>1, <4>2
    <3>4. \A i \in inbox' \cup folded' : i.key \in Post => ledger'[i.key].state = "done" /\ ledger'[i.key].id = i.id
      BY <1>2, <1>3, <2>1, <2>5, <3>0, <3>1 DEF DoneInv
    <3> QED
      BY <2>9, <3>2, <3>3, <3>4 DEF DoneInv, HasTurn, Same
  <2>16. RefusedMeansOwed'
    BY <1>2, <2>1 DEF RefusedMeansOwed
  <2>17. EffectInv(h)'
    BY <1>3, <2>3, <2>9 DEF EffectInv, Same
  <2>18. WalkInv(h)'
    BY <1>3, <2>2, <2>3, <2>5, <2>7, <2>9 DEF WalkInv, Walking, Same
  <2>19. Stalls # "inside" => OnceWorld' /\ OnlyInv(h)'
    <3>1. \A s \in Signal : ledger'[s] = ledger[s]
      BY <1>3, <2>1, <2>5
    <3>2. Stalls # "inside" => OnceWorld'
      BY <1>1, <1>2, <2>9, <3>1 DEF OnceWorld, Same
    <3>3. OnlyInv(h)'
      BY <2>3, <2>9 DEF OnlyInv
    <3> QED
      BY <3>2, <3>3
  <2> QED
    BY <1>1, <1>2, <2>8, <2>10, <2>11, <2>13, <2>14, <2>15, <2>16, <2>17, <2>18, <2>19, HostMoves DEF StoreInv
<1> QED
  BY <1>4, <1>5, <1>6 DEF SetDone

-----------------------------------------------------------------------------
(* The chat store.                                                         *)

\* A port that refuses is counted.
LEMMA RefusalCounts ==
  ASSUME Types, PortRefuses
  PROVE  faults' \in 0..MaxFaults
BY Kinds DEF Types, PortRefuses

\* A port that refuses ends the effect, or leads to the note of it.
LEMMA RefusalKeeps ==
  ASSUME IInv, NEW h \in Hosts, host[h].pc \in {"open", "find", "post"}, Quiet, PortRefuses, Goto(h, "mark")
  PROVE  IInv'
<1>1. Types /\ Active(h) /\ EffectInv(h) /\ WalkInv(h)
  BY HostNow DEF Active
<1>2. At(h, "mark", host[h].effect, host[h].thread, host[h].id)
  BY <1>1, GotoShape DEF Pc, Quiet
<1>3. Same /\ host'[h].pc = "mark" /\ host'[h].effect = host[h].effect /\ host'[h].thread = host[h].thread
      /\ host'[h].epoch = host[h].epoch
  BY <1>2 DEF At
<1>4. EffectInv(h)'
  BY <1>1, <1>3 DEF EffectInv, Same, Post
<1>5. WalkInv(h)'
  BY <1>1, <1>3 DEF WalkInv, Walking, Same, Fenced, Quiet
<1>6. OnlyInv(h)'
  BY <1>3 DEF OnlyInv
<1> QED
  BY <1>1, <1>2, <1>4, <1>5, <1>6, RefusalCounts, QuietMoves

\* open_thread: the thread is the one in the ledger.
LEMMA OpenThreadKeeps ==
  ASSUME IInv, NEW h \in Hosts, OpenThread(h)
  PROVE  IInv'
<1> DEFINE e == host[h].effect
           t == host[h].thread
<1>1. /\ Types /\ host[h] \in HostType /\ Active(h) /\ faults \in 0..MaxFaults /\ host[h].pc = "open" /\ t \in Nat
      /\ WalkInv(h) /\ EffectInv(h) /\ (Stalls # "inside" => OnlyInv(h) /\ OnceWorld)
  BY HostNow DEF OpenThread, Active, Types
<1>2. UNCHANGED <<given, lease, ledger, refused, messages, routes, session, spawned, signals, inbox, folded>>
  BY DEF OpenThread, routeVars
<1>3. CASE PortRefuses /\ UNCHANGED opened /\ Goto(h, "mark")
  BY <1>1, <1>2, <1>3, RefusalKeeps DEF Quiet
<1>4. CASE PortRefuses /\ UNCHANGED opened /\ Goto(h, "check")
  <2>1. At(h, "check", e, t, host[h].id)
    BY <1>1, <1>2, <1>4, GotoShape DEF Pc
  <2>2. faults' \in 0..MaxFaults /\ Quiet
    BY <1>1, <1>2, <1>4, RefusalCounts DEF Quiet
  <2> QED
    BY <1>1, <2>1, <2>2, RestKeeps
<1>5. CASE opened' = opened \cup {[session |-> e, thread |-> t]} /\ Goto(h, "find") /\ UNCHANGED faults
  <2>1. At(h, "find", e, t, host[h].id)
    BY <1>1, <1>2, <1>5, GotoShape DEF Pc
  <2>2. Same /\ host'[h].pc = "find" /\ host'[h].effect = e /\ host'[h].thread = t /\ host'[h].epoch = host[h].epoch
    BY <2>1 DEF At
  <2>3. e \in Session \cup {RootKey} /\ ledger[e] # NoEntry /\ t = (IF e \in Session THEN ledger[e].id ELSE RootThread)
    BY <1>1 DEF EffectInv, WalkInv, Walking
  <2>4. TypesNext
    <3>1. opened' \subseteq [session : Session \cup {RootKey}, thread : Nat]
      BY <1>1, <1>5, <2>3 DEF Types
    <3> QED
      BY <1>1, <1>2, <1>5, <3>1 DEF Types, TypesNext
  <2>5. Grows(h)
    BY <1>2 DEF Grows
  <2>6. IdsInv' /\ RefusedMeansOwed'
    BY <1>2, <2>2 DEF IInv, StoreInv, IdsInv, Entered, RefusedMeansOwed, Same
  <2>7. ThreadsInv'
    <3>1. ThreadsInv
      BY DEF IInv, StoreInv
    <3>2. \A a \in opened' : \/ a = [session |-> RootKey, thread |-> RootThread]
                             \/ a.session \in Session /\ ledger[a.session] # NoEntry /\ a.thread = ledger[a.session].id
      BY <1>5, <2>3, <3>1 DEF ThreadsInv
    <3> QED
      BY <1>2, <2>2, <3>1, <3>2 DEF ThreadsInv, Same
  <2>8. DoneInv'
    BY <1>2, <2>2 DEF IInv, StoreInv, DoneInv, HasTurn, Same
  <2>9. EffectInv(h)'
    BY <2>2, <2>3 DEF EffectInv, Same, Post
  <2>10. WalkInv(h)'
    BY <1>1, <1>2, <2>2 DEF WalkInv, Walking, Same, Fenced
  <2>11. Stalls # "inside" => OnceWorld' /\ OnlyInv(h)'
    BY <1>1, <1>2, <2>2 DEF OnceWorld, OnlyInv, Same
  <2> QED
    BY <1>1, <1>2, <2>1, <2>4, <2>5, <2>6, <2>7, <2>8, <2>9, <2>10, <2>11, HostMoves DEF StoreInv
<1> QED
  BY <1>3, <1>4, <1>5 DEF OpenThread

\* find_or_post's find.
LEMMA FindKeeps ==
  ASSUME IInv, NEW h \in Hosts, Find(h)
  PROVE  IInv'
<1> DEFINE e == host[h].effect
           t == host[h].thread
<1>1. /\ Types /\ host[h] \in HostType /\ Active(h) /\ faults \in 0..MaxFaults /\ host[h].pc = "find" /\ t \in Nat
      /\ WalkInv(h) /\ EffectInv(h)
  BY HostNow DEF Find, Active, Types
<1>2. Quiet /\ given' = given
  BY DEF Find, chatVars, routeVars, Quiet
<1>3. CASE PortRefuses /\ Goto(h, "mark")
  BY <1>1, <1>2, <1>3, RefusalKeeps
<1>4. CASE Found(h) = {} /\ Goto(h, "post") /\ UNCHANGED faults
  <2>1. At(h, "post", e, t, host[h].id)
    BY <1>1, <1>2, <1>4, GotoShape DEF Pc
  <2>2. Same /\ host'[h].pc = "post" /\ host'[h].effect = e /\ host'[h].thread = t /\ host'[h].epoch = host[h].epoch
    BY <2>1 DEF At
  <2>3. EffectInv(h)'
    BY <1>1, <2>2 DEF EffectInv, Same
  <2>4. WalkInv(h)'
    BY <1>1, <1>2, <2>2 DEF WalkInv, Walking, Same, Fenced, Quiet
  <2>5. Found(h)' = {}
    BY <1>2, <1>4, <2>2 DEF Found, Quiet
  <2>6. OnlyInv(h)'
    BY <2>2, <2>5 DEF OnlyInv
  <2> QED
    BY <1>1, <1>2, <1>4, <2>1, <2>3, <2>4, <2>6, QuietMoves
<1>5. ASSUME NEW m \in Found(h), host' = [host EXCEPT ![h].pc = "clear", ![h].id = m.id], UNCHANGED faults PROVE IInv'
  <2> DEFINE new == [host[h] EXCEPT !.pc = "clear", !.id = m.id]
  <2>1. host' = [host EXCEPT ![h] = new]
    BY <1>5
  <2>2. m \in messages /\ m.thread = t /\ m.key = e /\ m.id \in Nat /\ m = [thread |-> t, key |-> e, id |-> m.id]
    BY <1>1 DEF Found, Types
  <2>3. new \in HostType /\ new.pc = "clear" /\ new.effect = e /\ new.thread = t /\ new.id = m.id /\ new.epoch = host[h].epoch
    BY <1>1, <2>2 DEF HostType, Pc
  <2> HIDE DEF new
  <2>4. At(h, "clear", e, t, m.id)
    BY <1>1, <1>2, <2>1, <2>3, Updated
  <2>5. Same /\ host'[h].pc = "clear" /\ host'[h].effect = e /\ host'[h].thread = t /\ host'[h].id = m.id
        /\ host'[h].epoch = host[h].epoch
    BY <2>4 DEF At
  <2>6. EffectInv(h)'
    BY <1>1, <2>5 DEF EffectInv, Same
  <2>7. HasTurn(e, t)'
    BY <1>2, <2>2, <2>5 DEF HasTurn, Quiet
  <2>8. e \in Post => [thread |-> RootThread, key |-> e, id |-> m.id] \in messages
    BY <1>1, <2>2, Kinds DEF WalkInv, Walking
  <2>9. WalkInv(h)'
    <3>1. HasTurn(host[h].effect, host[h].thread)'
      BY <2>5, <2>7 DEF HasTurn
    <3> QED
      BY <1>1, <1>2, <2>5, <2>8, <3>1 DEF WalkInv, Walking, Same, Fenced, Quiet
  <2>10. OnlyInv(h)'
    BY <2>5 DEF OnlyInv
  <2> QED
    BY <1>1, <1>2, <1>5, <2>4, <2>6, <2>9, <2>10, QuietMoves
<1> QED
  BY <1>3, <1>4, <1>5 DEF Find

\* find_or_post's post.
LEMMA PostMessageKeeps ==
  ASSUME IInv, NEW h \in Hosts, PostMessage(h)
  PROVE  IInv'
<1> DEFINE e == host[h].effect
           t == host[h].thread
           n == Cardinality(messages) + 1
           m == [thread |-> t, key |-> e, id |-> n]
<1>1. /\ Types /\ host[h] \in HostType /\ Active(h) /\ faults \in 0..MaxFaults /\ host[h].pc = "post" /\ t \in Nat
      /\ WalkInv(h) /\ EffectInv(h) /\ (Stalls # "inside" => OnlyInv(h) /\ OnceWorld)
  BY HostNow DEF PostMessage, Active, Types
<1>2. UNCHANGED <<given, lease, ledger, refused, opened, routes, session, spawned, signals, inbox, folded>>
  BY DEF PostMessage, routeVars
<1>3. CASE PortRefuses /\ UNCHANGED messages /\ Goto(h, "mark")
  BY <1>1, <1>2, <1>3, RefusalKeeps DEF Quiet
<1>4. CASE PortRefuses /\ UNCHANGED messages /\ NextEffect(h)
  <2>1. At(h, "check", e, t, host[h].id)
    BY <1>1, <1>2, <1>4, GotoShape DEF Pc, NextEffect
  <2>2. faults' \in 0..MaxFaults /\ Quiet
    BY <1>1, <1>2, <1>4, RefusalCounts DEF Quiet
  <2> QED
    BY <1>1, <2>1, <2>2, RestKeeps
<1>5. ASSUME messages' = messages \cup {m}, host' = [host EXCEPT ![h].pc = "clear", ![h].id = n], UNCHANGED faults
      PROVE  IInv'
  <2> DEFINE new == [host[h] EXCEPT !.pc = "clear", !.id = n]
  <2>1. host' = [host EXCEPT ![h] = new]
    BY <1>5
  <2>2. n \in Nat /\ IsFiniteSet(messages')
    <3>1. IsFiniteSet(messages)
      BY <1>1 DEF Types
    <3>2. Cardinality(messages) \in Nat
      BY <3>1, FS_CardinalityType
    <3>3. IsFiniteSet(messages \cup {m})
      BY <3>1, FS_AddElement
    <3> QED
      BY <1>5, <3>2, <3>3
  <2>3. e \in Post \cup Session /\ m.thread = t /\ m.key = e /\ m.id = n /\ (e \in Post => t = RootThread)
    BY <1>1, Kinds DEF WalkInv, Walking, EffectInv
  <2>4. m \in [thread : Nat, key : Post \cup Session, id : Nat] /\ m \in messages' /\ messages \subseteq messages'
    BY <1>1, <1>5, <2>2, <2>3
  <2>5. e \in Post => [thread |-> RootThread, key |-> e, id |-> n] \in messages'
    BY <2>3, <2>4
  <2> HIDE DEF m, n
  <2>6. new \in HostType /\ new.pc = "clear" /\ new.effect = e /\ new.thread = t /\ new.id = n /\ new.epoch = host[h].epoch
    BY <1>1, <2>2 DEF HostType, Pc
  <2> HIDE DEF new
  <2>7. At(h, "clear", e, t, n)
    BY <1>1, <1>2, <2>1, <2>6, Updated
  <2>8. Same /\ host'[h].pc = "clear" /\ host'[h].effect = e /\ host'[h].thread = t /\ host'[h].id = n
        /\ host'[h].epoch = host[h].epoch
    BY <2>7 DEF At
  <2>9. TypesNext
    <3>1. messages' \subseteq [thread : Nat, key : Post \cup Session, id : Nat]
      BY <1>1, <1>5, <2>4 DEF Types
    <3> QED
      BY <1>1, <1>2, <1>5, <2>2, <3>1 DEF Types, TypesNext
  <2>10. Grows(h)
    BY <1>2, <2>4 DEF Grows
  <2>11. IdsInv' /\ ThreadsInv' /\ RefusedMeansOwed'
    BY <1>2, <2>8 DEF IInv, StoreInv, IdsInv, Entered, ThreadsInv, RefusedMeansOwed, Same
  <2>12. DoneInv'
    <3>1. DoneInv
      BY DEF IInv, StoreInv
    <3>2. \A d \in Post : ledger'[d].state = "done" => [thread |-> RootThread, key |-> d, id |-> ledger'[d].id] \in messages'
      BY <1>2, <2>4, <3>1 DEF DoneInv
    <3>3. \A s \in Session : ledger'[s].state = "done" =>
            /\ session'[s] = ledger'[s].id /\ [thread |-> ledger'[s].id, session |-> s] \in routes'
            /\ \E x \in messages' : x.thread = ledger'[s].id /\ x.key = s
      BY <1>2, <2>4, <3>1 DEF DoneInv, HasTurn
    <3>4. \A i \in inbox' \cup folded' : i.key \in Post => ledger'[i.key].state = "done" /\ ledger'[i.key].id = i.id
      BY <1>2, <3>1 DEF DoneInv
    <3> QED
      BY <2>8, <3>2, <3>3, <3>4 DEF DoneInv, HasTurn, Same
  <2>13. EffectInv(h)'
    BY <2>3, <2>8 DEF EffectInv, Same
  <2>14. WalkInv(h)'
    <3>1. HasTurn(host[h].effect, host[h].thread)'
      BY <2>3, <2>4, <2>8 DEF HasTurn
    <3> QED
      BY <1>1, <1>2, <2>5, <2>8, <3>1 DEF WalkInv, Walking, Same, Fenced
  <2>15. ASSUME Stalls # "inside" PROVE OnceWorld' /\ OnlyInv(h)'
    <3>1. OnceWorld /\ \A x \in messages : ~(x.thread = t /\ x.key = e)
      BY <1>1, <2>15 DEF OnlyInv, Found
    <3>2. \A x, y \in messages' : x.thread = y.thread /\ x.key = y.key => x = y
      BY <1>5, <2>3, <3>1 DEF OnceWorld
    <3>3. OnceWorld'
      BY <1>2, <2>8, <3>1, <3>2 DEF OnceWorld, Same
    <3> QED
      BY <2>8, <3>3 DEF OnlyInv
  <2> QED
    BY <1>1, <1>2, <2>7, <2>9, <2>10, <2>11, <2>12, <2>13, <2>14, <2>15, HostMoves DEF StoreInv
<1> QED
  BY <1>3, <1>4, <1>5 DEF PostMessage

\* mark_chat_refused: the note of a refusal is the owner's, and its post is still to be made.
LEMMA MarkRefusedKeeps ==
  ASSUME IInv, NEW h \in Hosts, MarkRefused(h)
  PROVE  IInv'
<1> DEFINE e == host[h].effect
<1>1. /\ Types /\ host[h] \in HostType /\ Active(h) /\ faults \in 0..MaxFaults /\ host[h].pc = "mark" /\ e \in Effect
      /\ WalkInv(h) /\ EffectInv(h) /\ (Stalls # "inside" => OnlyInv(h) /\ OnceWorld)
  BY HostNow DEF MarkRefused, Active, Types
<1>2. /\ UNCHANGED <<given, lease, ledger, opened, messages, routes, session, spawned, signals, inbox, folded, faults>>
      /\ refused' = (refused \/ ~Fenced(h)) /\ Goto(h, "check")
  BY DEF MarkRefused, chatVars, routeVars, NextEffect
<1>3. At(h, "check", e, host[h].thread, host[h].id)
  BY <1>1, <1>2, GotoShape DEF Pc
<1>4. Same /\ host'[h].pc = "check"
  BY <1>3 DEF At
<1>5. refused' \in BOOLEAN
  BY <1>2, Zenon
<1>6. refused' => refused \/ ~Fenced(h)
  BY <1>2, Zenon
<1>7. TypesNext
  BY <1>1, <1>2, <1>5 DEF Types, TypesNext
<1>8. Grows(h)
  BY <1>1, <1>2, <1>6 DEF Grows
<1>9. IdsInv' /\ ThreadsInv' /\ DoneInv'
  <2>1. IdsInv' /\ ThreadsInv'
    BY <1>2, <1>4 DEF IInv, StoreInv, IdsInv, Entered, ThreadsInv, Same
  <2>2. DoneInv'
    BY <1>2, <1>4 DEF IInv, StoreInv, DoneInv, HasTurn, Same
  <2> QED
    BY <2>1, <2>2
<1>10. RefusedMeansOwed'
  <2>1. ~Fenced(h) => e \in Post \cup Session /\ ledger[e].state # "done"
    BY <1>1 DEF WalkInv, Walking, EffectInv
  <2>2. RefusedMeansOwed
    BY DEF IInv, StoreInv
  <2> QED
    BY <1>2, <1>4, <1>6, <2>1, <2>2 DEF RefusedMeansOwed, Same
<1>11. EffectInv(h)' /\ WalkInv(h)' /\ OnlyInv(h)'
  BY <1>4, AtRest
<1>12. Stalls # "inside" => OnceWorld'
  BY <1>1, <1>2, <1>4 DEF OnceWorld, Same
<1> QED
  BY <1>1, <1>2, <1>3, <1>7, <1>8, <1>9, <1>10, <1>11, <1>12, HostMoves DEF StoreInv

\* clear_chat_refused.
LEMMA ClearRefusedKeeps ==
  ASSUME IInv, NEW h \in Hosts, ClearRefused(h)
  PROVE  IInv'
<1> DEFINE e == host[h].effect
           pc == AfterPost(e)
<1>1. /\ Types /\ host[h] \in HostType /\ Active(h) /\ faults \in 0..MaxFaults /\ host[h].pc = "clear" /\ e \in Effect
      /\ WalkInv(h) /\ EffectInv(h) /\ (Stalls # "inside" => OnlyInv(h) /\ OnceWorld)
  BY HostNow DEF ClearRefused, Active, Types
<1>2. /\ UNCHANGED <<given, lease, ledger, opened, messages, routes, session, spawned, signals, inbox, folded, faults>>
      /\ refused' = FALSE /\ Goto(h, pc)
  BY DEF ClearRefused, chatVars, routeVars
<1>3. (pc = "route" /\ e \in Session) \/ (pc = "set" /\ e \in Post /\ e \notin Session)
  BY <1>1, Kinds DEF AfterPost, EffectInv
<1>4. pc \in Pc
  BY <1>3 DEF Pc
<1> HIDE DEF pc
<1>5. At(h, pc, e, host[h].thread, host[h].id)
  BY <1>1, <1>2, <1>4, GotoShape
<1>6. Same /\ host'[h].pc = pc /\ host'[h].effect = e /\ host'[h].thread = host[h].thread /\ host'[h].id = host[h].id
      /\ host'[h].epoch = host[h].epoch
  BY <1>5 DEF At
<1>7. TypesNext
  BY <1>1, <1>2 DEF Types, TypesNext
<1>8. Grows(h)
  BY <1>2 DEF Grows
<1>9. IdsInv' /\ ThreadsInv' /\ DoneInv' /\ RefusedMeansOwed'
  <2>1. IdsInv' /\ ThreadsInv'
    BY <1>2, <1>6 DEF IInv, StoreInv, IdsInv, Entered, ThreadsInv, Same
  <2>2. DoneInv'
    BY <1>2, <1>6 DEF IInv, StoreInv, DoneInv, HasTurn, Same
  <2>3. RefusedMeansOwed'
    BY <1>2 DEF RefusedMeansOwed
  <2> QED
    BY <2>1, <2>2, <2>3
<1>10. EffectInv(h)'
  BY <1>3, <1>6 DEF EffectInv, Same
<1>11. WalkInv(h)'
  <2>1. e \in Session => HasTurn(host[h].effect, host[h].thread)'
    BY <1>1, <1>2, <1>6 DEF HasTurn, WalkInv
  <2> QED
    BY <1>1, <1>2, <1>3, <1>6, <2>1 DEF WalkInv, Walking, Same, Fenced
<1>12. Stalls # "inside" => OnceWorld' /\ OnlyInv(h)'
  BY <1>1, <1>2, <1>3, <1>6 DEF OnceWorld, OnlyInv, Same
<1> QED
  BY <1>1, <1>2, <1>5, <1>7, <1>8, <1>9, <1>10, <1>11, <1>12, HostMoves DEF StoreInv

-----------------------------------------------------------------------------
(* Sessions, signals and results.                                          *)

\* write_route: a route of the thread that is there is this session's.
LEMMA WriteRouteKeeps ==
  ASSUME IInv, NEW h \in Hosts, WriteRoute(h)
  PROVE  IInv'
<1> DEFINE e == host[h].effect
           t == host[h].thread
           r == [thread |-> t, session |-> e]
<1>1. /\ Types /\ host[h] \in HostType /\ Active(h) /\ faults \in 0..MaxFaults /\ host[h].pc = "route" /\ t \in Nat
      /\ WalkInv(h) /\ EffectInv(h) /\ (Stalls # "inside" => OnlyInv(h) /\ OnceWorld)
  BY HostNow DEF WriteRoute, Active, Types
<1>2. /\ UNCHANGED <<given, lease, ledger, refused, opened, messages, session, spawned, signals, inbox, folded, faults>>
      /\ Goto(h, "session")
      /\ routes' = IF \E q \in routes : q.thread = t THEN routes ELSE routes \cup {r}
  BY DEF WriteRoute, chatVars
<1>3. At(h, "session", e, t, host[h].id)
  BY <1>1, <1>2, GotoShape DEF Pc
<1>4. Same /\ host'[h].pc = "session" /\ host'[h].effect = e /\ host'[h].thread = t /\ host'[h].id = host[h].id
      /\ host'[h].epoch = host[h].epoch
  BY <1>3 DEF At
<1>5. e \in Session /\ e \notin Post /\ ledger[e] # NoEntry /\ t = ledger[e].id /\ HasTurn(e, t)
  BY <1>1, Kinds DEF EffectInv, WalkInv, Walking
<1>6. IdsInv /\ ThreadsInv /\ DoneInv /\ RefusedMeansOwed
  BY DEF IInv, StoreInv
<1>7. routes \subseteq routes' /\ r \in routes' /\ routes' \subseteq routes \cup {r}
  <2>1. CASE \E q \in routes : q.thread = t
    <3>1. PICK q \in routes : q.thread = t
      BY <2>1
    <3>2. q.session \in Session /\ q = [thread |-> q.thread, session |-> q.session]
      BY <1>1 DEF Types
    <3>3. q.session = e
      BY <1>5, <1>6, <3>1, <3>2 DEF IdsInv, ThreadsInv
    <3> QED
      BY <1>2, <2>1, <3>1, <3>2, <3>3
  <2>2. CASE ~\E q \in routes : q.thread = t
    BY <1>2, <2>2
  <2> QED
    BY <2>1, <2>2
<1>8. r \in [thread : Nat, session : Session] /\ r.thread = t /\ r.session = e
  BY <1>1, <1>5
<1>10. TypesNext
  <2>1. routes' \subseteq [thread : Nat, session : Session]
    BY <1>1, <1>7, <1>8 DEF Types
  <2> QED
    BY <1>1, <1>2, <2>1 DEF Types, TypesNext
<1>11. Grows(h)
  BY <1>2, <1>7 DEF Grows
<1>12. IdsInv' /\ RefusedMeansOwed'
  BY <1>2, <1>4, <1>6 DEF IdsInv, Entered, RefusedMeansOwed, Same
<1>13. ThreadsInv'
  <2>1. \A q \in routes' : ledger'[q.session] # NoEntry /\ q.thread = ledger'[q.session].id
    BY <1>2, <1>5, <1>6, <1>7, <1>8 DEF ThreadsInv
  <2> QED
    BY <1>2, <1>4, <1>6, <2>1 DEF ThreadsInv, Same
<1>14. DoneInv'
  BY <1>2, <1>4, <1>6, <1>7 DEF DoneInv, HasTurn, Same
<1>15. EffectInv(h)'
  BY <1>4, <1>5 DEF EffectInv, Same
<1>16. WalkInv(h)'
  <2>1. HasTurn(host[h].effect, host[h].thread)'
    BY <1>2, <1>4, <1>5 DEF HasTurn
  <2>2. [thread |-> t, session |-> e] \in routes'
    BY <1>7
  <2> QED
    BY <1>1, <1>2, <1>4, <1>5, <2>1, <2>2 DEF WalkInv, Walking, Same, Fenced
<1>17. Stalls # "inside" => OnceWorld' /\ OnlyInv(h)'
  BY <1>1, <1>2, <1>4 DEF OnceWorld, OnlyInv, Same
<1> QED
  BY <1>1, <1>2, <1>3, <1>10, <1>11, <1>12, <1>13, <1>14, <1>15, <1>16, <1>17, HostMoves DEF StoreInv

\* The route from the session to its thread.
LEMMA WriteSessionKeeps ==
  ASSUME IInv, NEW h \in Hosts, WriteSession(h)
  PROVE  IInv'
<1> DEFINE e == host[h].effect
           t == host[h].thread
<1>1. /\ Types /\ host[h] \in HostType /\ Active(h) /\ faults \in 0..MaxFaults /\ host[h].pc = "session" /\ t \in Nat
      /\ WalkInv(h) /\ EffectInv(h) /\ (Stalls # "inside" => OnlyInv(h) /\ OnceWorld)
  BY HostNow DEF WriteSession, Active, Types
<1>2. /\ UNCHANGED <<given, lease, ledger, refused, opened, messages, routes, spawned, signals, inbox, folded, faults>>
      /\ Goto(h, "set")
      /\ session' = [session EXCEPT ![e] = IF session[e] = NoThread THEN t ELSE session[e]]
  BY DEF WriteSession, chatVars
<1>3. At(h, "set", e, t, host[h].id)
  BY <1>1, <1>2, GotoShape DEF Pc
<1>4. Same /\ host'[h].pc = "set" /\ host'[h].effect = e /\ host'[h].thread = t /\ host'[h].id = host[h].id
      /\ host'[h].epoch = host[h].epoch
  BY <1>3 DEF At
<1>5. /\ e \in Session /\ e \notin Post /\ ledger[e] # NoEntry /\ t = ledger[e].id /\ HasTurn(e, t)
      /\ [thread |-> t, session |-> e] \in routes
  BY <1>1, Kinds DEF EffectInv, WalkInv, Walking
<1>6. IdsInv /\ ThreadsInv /\ DoneInv /\ RefusedMeansOwed
  BY DEF IInv, StoreInv
<1>7. session'[e] = t /\ (session[e] = NoThread \/ session[e] = t)
  BY <1>1, <1>2, <1>5, <1>6 DEF ThreadsInv, Types
<1>8. session' \in [Session -> Nat \cup {NoThread}] /\ \A s \in Session \ {e} : session'[s] = session[s]
  BY <1>1, <1>2, <1>5, <1>7 DEF Types
<1>9. TypesNext
  BY <1>1, <1>2, <1>8 DEF Types, TypesNext
<1>10. Grows(h)
  BY <1>2, <1>7, <1>8 DEF Grows
<1>11. IdsInv' /\ RefusedMeansOwed'
  BY <1>2, <1>4, <1>6 DEF IdsInv, Entered, RefusedMeansOwed, Same
<1>12. ThreadsInv'
  <2>1. \A s \in Session : session'[s] # NoThread => ledger'[s] # NoEntry /\ session'[s] = ledger'[s].id
    BY <1>2, <1>5, <1>6, <1>7, <1>8 DEF ThreadsInv
  <2> QED
    BY <1>2, <1>4, <1>6, <2>1 DEF ThreadsInv, Same
<1>13. DoneInv'
  <2>1. \A s \in Session : ledger'[s].state = "done" => session'[s] = ledger'[s].id
    BY <1>2, <1>5, <1>6, <1>7, <1>8 DEF DoneInv
  <2> QED
    BY <1>2, <1>4, <1>6, <2>1 DEF DoneInv, HasTurn, Same
<1>14. EffectInv(h)'
  BY <1>4, <1>5 DEF EffectInv, Same
<1>15. WalkInv(h)'
  <2>1. HasTurn(host[h].effect, host[h].thread)'
    BY <1>2, <1>4, <1>5 DEF HasTurn
  <2> QED
    BY <1>1, <1>2, <1>4, <1>5, <1>7, <2>1 DEF WalkInv, Walking, Same, Fenced
<1>16. Stalls # "inside" => OnceWorld' /\ OnlyInv(h)'
  BY <1>1, <1>2, <1>4 DEF OnceWorld, OnlyInv, Same
<1> QED
  BY <1>1, <1>2, <1>3, <1>9, <1>10, <1>11, <1>12, <1>13, <1>14, <1>15, <1>16, HostMoves DEF StoreInv

\* backend.start.
LEMMA SpawnKeeps ==
  ASSUME IInv, NEW h \in Hosts, Spawn(h)
  PROVE  IInv'
<1> DEFINE e == host[h].effect
           t == host[h].thread
<1>1. /\ Types /\ host[h] \in HostType /\ Active(h) /\ faults \in 0..MaxFaults /\ host[h].pc = "spawn" /\ t \in Nat
      /\ WalkInv(h) /\ EffectInv(h) /\ (Stalls # "inside" => OnlyInv(h) /\ OnceWorld)
  BY HostNow DEF Spawn, Active, Types
<1>2. UNCHANGED <<given, lease, ledger, refused, opened, messages, routes, session, signals, inbox, folded>>
  BY DEF Spawn, chatVars
<1>3. CASE PortRefuses /\ NextEffect(h) /\ UNCHANGED spawned
  <2>1. At(h, "check", e, t, host[h].id)
    BY <1>1, <1>2, <1>3, GotoShape DEF Pc, NextEffect
  <2>2. faults' \in 0..MaxFaults /\ Quiet
    BY <1>1, <1>2, <1>3, RefusalCounts DEF Quiet
  <2> QED
    BY <1>1, <2>1, <2>2, RestKeeps
<1>4. ASSUME spawned' = [spawned EXCEPT ![e] = IF spawned[e] = NoThread THEN t ELSE spawned[e]],
             host' = [host EXCEPT ![h].pc = "check", ![h].started = host[h].started \cup {e}], UNCHANGED faults
      PROVE  IInv'
  <2> DEFINE new == [host[h] EXCEPT !.pc = "check", !.started = host[h].started \cup {e}]
  <2>1. host' = [host EXCEPT ![h] = new]
    BY <1>4
  <2>2. e \in Session /\ ledger[e].state = "done" /\ t = ledger[e].id
    BY <1>1 DEF EffectInv, WalkInv
  <2>3. new \in HostType /\ new.pc = "check" /\ new.epoch = host[h].epoch
    BY <1>1, <2>2 DEF HostType, Pc
  <2> HIDE DEF new
  <2>4. At(h, "check", new.effect, new.thread, new.id)
    BY <1>1, <1>2, <2>1, <2>3, Updated
  <2>5. Same /\ host'[h].pc = "check"
    BY <2>4 DEF At
  <2>6. IdsInv /\ ThreadsInv /\ DoneInv /\ RefusedMeansOwed
    BY DEF IInv, StoreInv
  <2>7. spawned'[e] = t /\ spawned' \in [Session -> Nat \cup {NoThread}] /\ \A s \in Session \ {e} : spawned'[s] = spawned[s]
    BY <1>1, <1>4, <2>2, <2>6 DEF Types, ThreadsInv
  <2>8. TypesNext
    BY <1>1, <1>2, <1>4, <2>7 DEF Types, TypesNext
  <2>9. Grows(h)
    BY <1>2 DEF Grows
  <2>10. IdsInv' /\ RefusedMeansOwed'
    BY <1>2, <2>5, <2>6 DEF IdsInv, Entered, RefusedMeansOwed, Same
  <2>11. ThreadsInv'
    <3>1. \A s \in Session : spawned'[s] # NoThread => ledger'[s].state = "done" /\ spawned'[s] = ledger'[s].id
      BY <1>2, <2>2, <2>6, <2>7 DEF ThreadsInv
    <3> QED
      BY <1>2, <2>5, <2>6, <3>1 DEF ThreadsInv, Same
  <2>12. DoneInv'
    BY <1>2, <2>5, <2>6 DEF DoneInv, HasTurn, Same
  <2>13. EffectInv(h)' /\ WalkInv(h)' /\ OnlyInv(h)'
    BY <2>5, AtRest
  <2>14. Stalls # "inside" => OnceWorld'
    BY <1>1, <1>2, <2>5 DEF OnceWorld, Same
  <2> QED
    BY <1>1, <1>2, <2>4, <2>8, <2>9, <2>10, <2>11, <2>12, <2>13, <2>14, HostMoves DEF StoreInv
<1> QED
  BY <1>3, <1>4 DEF Spawn

\* The signal itself.
LEMMA SendSignalKeeps ==
  ASSUME IInv, NEW h \in Hosts, SendSignal(h)
  PROVE  IInv'
<1> DEFINE e == host[h].effect
<1>1. /\ Types /\ host[h] \in HostType /\ Active(h) /\ faults \in 0..MaxFaults /\ host[h].pc = "send"
      /\ WalkInv(h) /\ EffectInv(h) /\ (Stalls # "inside" => OnlyInv(h) /\ OnceWorld)
  BY HostNow DEF SendSignal, Active, Types
<1>2. /\ UNCHANGED <<given, lease, ledger, refused, opened, messages, routes, session, spawned, inbox, folded>>
      /\ Goto(h, "result")
  BY DEF SendSignal, chatVars, routeVars
<1>3. At(h, "result", e, host[h].thread, host[h].id)
  BY <1>1, <1>2, GotoShape DEF Pc
<1>4. Same /\ host'[h].pc = "result" /\ host'[h].effect = e
  BY <1>3 DEF At
<1>5. e \in Signal /\ e \notin Post /\ e \notin Session
  BY <1>1, Kinds DEF EffectInv
<1>6. faults' \in 0..MaxFaults
  BY <1>1, RefusalCounts DEF SendSignal
<1>7. signals' = signals \/ signals' = [signals EXCEPT ![e] = signals[e] + 1]
  BY DEF SendSignal
<1>8. signals' \in [Signal -> Nat]
  BY <1>1, <1>5, <1>7 DEF Types
<1>9. TypesNext
  BY <1>1, <1>2, <1>6, <1>8 DEF Types, TypesNext
<1>10. Grows(h)
  BY <1>2 DEF Grows
<1>11. IdsInv' /\ ThreadsInv' /\ DoneInv' /\ RefusedMeansOwed'
  <2>1. IdsInv' /\ ThreadsInv' /\ RefusedMeansOwed'
    BY <1>2, <1>4 DEF IInv, StoreInv, IdsInv, Entered, ThreadsInv, RefusedMeansOwed, Same
  <2>2. DoneInv'
    BY <1>2, <1>4 DEF IInv, StoreInv, DoneInv, HasTurn, Same
  <2> QED
    BY <2>1, <2>2
<1>12. EffectInv(h)'
  BY <1>4, <1>5 DEF EffectInv, Same
<1>13. WalkInv(h)'
  BY <1>4, <1>5 DEF WalkInv, Walking, Same
<1>14. ASSUME Stalls # "inside" PROVE OnceWorld' /\ OnlyInv(h)'
  <2>1. signals[e] = 0 /\ ledger[e] # NoEntry /\ OnceWorld
    BY <1>1, <1>14 DEF OnlyInv
  <2>2. \A s \in Signal : signals'[s] = signals[s] \/ (s = e /\ signals'[s] = 1)
    BY <1>1, <1>5, <1>7, <2>1 DEF Types
  <2>3. \A s \in Signal : signals'[s] <= 1 /\ (signals'[s] > 0 => ledger'[s] # NoEntry)
    BY <1>2, <2>1, <2>2 DEF OnceWorld
  <2>4. OnceWorld'
    BY <1>2, <1>4, <2>1, <2>3 DEF OnceWorld, Same
  <2> QED
    BY <1>4, <2>4 DEF OnlyInv
<1> QED
  BY <1>1, <1>2, <1>3, <1>9, <1>10, <1>11, <1>12, <1>13, <1>14, HostMoves DEF StoreInv

\* The input that ends the effect names what the ledger keeps.
LEMMA EnqueueResultKeeps ==
  ASSUME IInv, NEW h \in Hosts, EnqueueResult(h)
  PROVE  IInv'
<1> DEFINE e == host[h].effect
           x == [key |-> e, id |-> host[h].id]
<1>1. /\ Types /\ host[h] \in HostType /\ Active(h) /\ faults \in 0..MaxFaults /\ host[h].pc = "result" /\ e \in Effect
      /\ host[h].id \in Nat /\ WalkInv(h) /\ EffectInv(h) /\ (Stalls # "inside" => OnlyInv(h) /\ OnceWorld)
  BY HostNow DEF EnqueueResult, Active, Types
<1>2. /\ UNCHANGED <<given, lease, ledger, refused, opened, messages, routes, session, spawned, signals, folded, faults>>
      /\ Goto(h, "check")
  BY DEF EnqueueResult, chatVars, routeVars, NextEffect
<1>3. inbox' = inbox \/ inbox' = inbox \cup {x}
  BY DEF EnqueueResult, Enqueue
<1>4. At(h, "check", e, host[h].thread, host[h].id)
  BY <1>1, <1>2, GotoShape DEF Pc
<1>5. Same /\ host'[h].pc = "check"
  BY <1>4 DEF At
<1>6. x \in [key : Effect, id : Nat] /\ x.key = e /\ x.id = host[h].id
  BY <1>1
<1>7. e \in Post => ledger[e].state = "done" /\ ledger[e].id = host[h].id
  BY <1>1 DEF WalkInv
<1>8. TypesNext
  <2>1. inbox' \subseteq [key : Effect, id : Nat]
    BY <1>1, <1>3, <1>6 DEF Types
  <2> QED
    BY <1>1, <1>2, <2>1 DEF Types, TypesNext
<1>9. Grows(h)
  BY <1>2 DEF Grows
<1>10. IdsInv' /\ ThreadsInv' /\ RefusedMeansOwed'
  BY <1>2, <1>5 DEF IInv, StoreInv, IdsInv, Entered, ThreadsInv, RefusedMeansOwed, Same
<1>11. DoneInv'
  <2>1. DoneInv
    BY DEF IInv, StoreInv
  <2>2. \A i \in inbox' \cup folded' : i.key \in Post => ledger'[i.key].state = "done" /\ ledger'[i.key].id = i.id
    BY <1>2, <1>3, <1>6, <1>7, <2>1 DEF DoneInv
  <2> QED
    BY <1>2, <1>5, <2>1, <2>2 DEF DoneInv, HasTurn, Same
<1>12. EffectInv(h)' /\ WalkInv(h)' /\ OnlyInv(h)'
  BY <1>5, AtRest
<1>13. Stalls # "inside" => OnceWorld'
  BY <1>1, <1>2, <1>5 DEF OnceWorld, Same
<1> QED
  BY <1>1, <1>2, <1>4, <1>8, <1>9, <1>10, <1>11, <1>12, <1>13, HostMoves DEF StoreInv

-----------------------------------------------------------------------------
(* The lease, crashes and time.                                            *)

\* Where the world stays as it is, hosts that stand still, lose the lease or come to rest keep what they have.
LEMMA HostsSettle ==
  ASSUME IInv, given' = given, UNCHANGED <<ledger, refused, messages, routes, session, signals>>,
         \A g \in Hosts : \/ host'[g] = host[g] /\ (Fenced(g) => Fenced(g)')
                          \/ host'[g].pc \in {"idle", "dead", "fold", "check"}
  PROVE  HostsInv' /\ OnceInv'
<1>1. Same
  BY Given
<1>2. ASSUME NEW g \in Hosts PROVE EffectInv(g)' /\ WalkInv(g)' /\ (Stalls # "inside" => OnlyInv(g)')
  <2>1. CASE host'[g].pc \in {"idle", "dead", "fold", "check"}
    BY <2>1, AtRest
  <2>2. CASE host'[g] = host[g] /\ (Fenced(g) => Fenced(g)')
    <3>1. EffectInv(g) /\ WalkInv(g) /\ (Stalls # "inside" => OnlyInv(g))
      BY HostNow
    <3>2. EffectInv(g)'
      BY <1>1, <2>2, <3>1 DEF EffectInv, Same
    <3>3. HasTurn(host[g].effect, host[g].thread)' <=> HasTurn(host[g].effect, host[g].thread)
      BY <2>2 DEF HasTurn
    <3>4. WalkInv(g)'
      BY <1>1, <2>2, <3>1, <3>3 DEF WalkInv, Same
    <3>5. OnlyInv(g) => OnlyInv(g)'
      BY <1>1, <2>2 DEF OnlyInv, Found, Same
    <3> QED
      BY <3>1, <3>2, <3>4, <3>5
  <2> QED
    BY <2>1, <2>2
<1>3. HostsInv'
  BY <1>1, <1>2 DEF HostsInv, Same
<1>4. OnceInv'
  BY <1>1, <1>2 DEF IInv, OnceInv, Same
<1> QED
  BY <1>3, <1>4

\* The world stays as it is.
Still == UNCHANGED <<given, ledger, refused, opened, messages, routes, session, spawned, signals, inbox, folded, faults>>

\* A step of the lease and of the hosts' places in the tick.
LEMMA StillKeeps ==
  ASSUME IInv, Still, lease' \in [owner : Hosts \cup {NoHost}, epoch : 0..MaxEpoch, expired : BOOLEAN],
         host' \in [Hosts -> HostType], LeaseInv', HostsInv', OnceInv'
  PROVE  IInv'
<1>1. Same
  BY Given DEF Still
<1>2. Types'
  BY <1>1 DEF IInv, Types, Still, Same
<1>3. IdsInv' /\ ThreadsInv' /\ DoneInv' /\ RefusedMeansOwed'
  <2>1. IdsInv' /\ ThreadsInv' /\ RefusedMeansOwed'
    BY <1>1 DEF IInv, StoreInv, IdsInv, Entered, ThreadsInv, RefusedMeansOwed, Same, Still
  <2>2. DoneInv'
    BY <1>1 DEF IInv, StoreInv, DoneInv, HasTurn, Same, Still
  <2> QED
    BY <2>1, <2>2
<1> QED
  BY <1>2, <1>3 DEF IInv, StoreInv

\* acquire_or_renew: a new owner has an epoch of its own.
LEMMA AcquireKeeps ==
  ASSUME IInv, NEW h \in Hosts, Acquire(h)
  PROVE  IInv'
<1>1. /\ Types /\ host[h] \in HostType /\ host \in [Hosts -> HostType] /\ host[h].pc = "idle" /\ LeaseInv
      /\ MaxEpoch \in Nat /\ lease.epoch \in 0..MaxEpoch /\ \A g \in Hosts : host[g].epoch \in 0..MaxEpoch
      /\ lease \in [owner : Hosts \cup {NoHost}, epoch : 0..MaxEpoch, expired : BOOLEAN]
  BY HostNow, Kinds DEF Acquire, IInv, Types, HostType
<1>2. Still
  BY DEF Acquire, chatVars, routeVars, Still
<1>3. Same
  BY <1>2, Given DEF Still
<1>4. ASSUME lease.expired, lease.epoch < MaxEpoch, lease' = [owner |-> h, epoch |-> lease.epoch + 1, expired |-> FALSE],
             host' = [host EXCEPT ![h].pc = "fold", ![h].epoch = lease.epoch + 1]
      PROVE  IInv'
  <2> DEFINE new == [host[h] EXCEPT !.pc = "fold", !.epoch = lease.epoch + 1]
  <2>0. lease.epoch + 1 \in 0..MaxEpoch
    BY <1>1, <1>4
  <2>1. host' = [host EXCEPT ![h] = new]
    BY <1>1, <1>4
  <2>2. new \in HostType /\ new.pc = "fold" /\ new.epoch = lease.epoch + 1
    BY <1>1, <2>0 DEF HostType, Pc
  <2> HIDE DEF new
  <2>3. host' \in [Hosts -> HostType] /\ host'[h] = new /\ \A g \in Hosts \ {h} : host'[g] = host[g]
    BY <1>1, <2>1, <2>2
  <2>4. lease'.owner = h /\ lease'.epoch = lease.epoch + 1 /\ lease'.expired = FALSE
        /\ lease' \in [owner : Hosts \cup {NoHost}, epoch : 0..MaxEpoch, expired : BOOLEAN]
    BY <1>4, <2>0
  <2>5. \A g \in Hosts \ {h} : Fenced(g)' /\ host'[g].epoch <= lease'.epoch
    BY <1>1, <2>3, <2>4 DEF Fenced, LeaseInv
  <2>6. \A g \in Hosts \ {h} : Stalls # "inside" => ~Active(g)'
    BY <1>1, <1>4, <2>3 DEF Active, LeaseInv
  <2>7. host'[h].epoch = lease'.epoch /\ ~Fenced(h)'
    BY <2>2, <2>3, <2>4 DEF Fenced
  <2>8. LeaseInv'
    BY <1>1, <1>3, <2>4, <2>5, <2>6, <2>7 DEF LeaseInv, Same
  <2>9. HostsInv' /\ OnceInv'
    BY <1>2, <2>2, <2>3, <2>5, HostsSettle DEF Still
  <2> QED
    BY <1>2, <2>3, <2>4, <2>8, <2>9, StillKeeps
<1>5. ASSUME ~lease.expired, lease.owner = h, UNCHANGED lease,
             host' = [host EXCEPT ![h].pc = "fold", ![h].epoch = lease.epoch]
      PROVE  IInv'
  <2> DEFINE new == [host[h] EXCEPT !.pc = "fold", !.epoch = lease.epoch]
  <2>1. host' = [host EXCEPT ![h] = new]
    BY <1>1, <1>5
  <2>2. new \in HostType /\ new.pc = "fold" /\ new.epoch = lease.epoch
    BY <1>1 DEF HostType, Pc
  <2> HIDE DEF new
  <2>3. host' \in [Hosts -> HostType] /\ host'[h] = new /\ \A g \in Hosts \ {h} : host'[g] = host[g]
    BY <1>1, <2>1, <2>2
  <2>4. \A g \in Hosts \ {h} : (Fenced(g)' <=> Fenced(g)) /\ (Active(g)' <=> Active(g))
    BY <1>5, <2>3 DEF Fenced, Active
  <2>5. host'[h].epoch = lease'.epoch /\ ~Fenced(h)'
    BY <1>5, <2>2, <2>3 DEF Fenced
  <2>6. LeaseInv'
    BY <1>1, <1>3, <1>5, <2>3, <2>4, <2>5 DEF LeaseInv, Same
  <2>7. HostsInv' /\ OnceInv'
    BY <1>2, <2>2, <2>3, <2>4, HostsSettle DEF Still
  <2> QED
    BY <1>1, <1>2, <1>5, <2>3, <2>6, <2>7, StillKeeps
<1>6. ASSUME Drop(h), UNCHANGED lease PROVE IInv'
  <2>1. At(h, "idle", host[h].effect, host[h].thread, host[h].id)
    BY <1>1, <1>2, <1>6, DropShape DEF Still
  <2>2. /\ host' \in [Hosts -> HostType] /\ (\A g \in Hosts \ {h} : host'[g] = host[g]) /\ host'[h].pc = "idle"
        /\ host'[h].epoch = host[h].epoch
    BY <2>1 DEF At
  <2>3. \A g \in Hosts : (Fenced(g)' <=> Fenced(g)) /\ (Active(g)' <=> Active(g)) /\ host'[g].epoch = host[g].epoch
    BY <1>1, <1>6, <2>2 DEF Fenced, Active
  <2>4. LeaseInv'
    BY <1>1, <1>3, <1>6, <2>3 DEF LeaseInv, Same
  <2>5. HostsInv' /\ OnceInv'
    BY <1>2, <2>2, <2>3, HostsSettle DEF Still
  <2> QED
    BY <1>1, <1>2, <1>6, <2>2, <2>4, <2>5, StillKeeps
<1> QED
  BY <1>4, <1>5, <1>6 DEF Acquire

\* A host that has read nothing.
LEMMA FreshIsAHost ==
  ASSUME MaxEpoch \in Nat
  PROVE  Fresh \in HostType /\ Fresh.pc = "idle" /\ Fresh.epoch = 0
<1>1. NoEntry \in Entry /\ RootKey \in Effect /\ "idle" \in Pc /\ RootThread \in Nat /\ 0 \in 0..MaxEpoch
  BY DEF NoEntry, Entry, Effect, Post, Pc, RootThread
<1> QED
  BY <1>1 DEF Fresh, HostType

\* A host that dies leaves the world as it is.
LEMMA CrashKeeps ==
  ASSUME IInv, NEW h \in Hosts, Crash(h)
  PROVE  IInv'
<1> DEFINE new == [Fresh EXCEPT !.pc = "dead"]
<1>1. /\ Types /\ host \in [Hosts -> HostType] /\ LeaseInv /\ lease.epoch \in Nat /\ MaxEpoch \in Nat
      /\ lease \in [owner : Hosts \cup {NoHost}, epoch : 0..MaxEpoch, expired : BOOLEAN]
  BY HostNow, Kinds DEF IInv, Types
<1>2. Still /\ UNCHANGED lease /\ host' = [host EXCEPT ![h] = new]
  BY DEF Crash, chatVars, routeVars, Still
<1>3. Same
  BY <1>2, Given DEF Still
<1>4. new \in HostType /\ new.pc = "dead" /\ new.epoch = 0
  <2>1. Fresh \in HostType /\ Fresh.epoch = 0
    BY <1>1, FreshIsAHost
  <2> QED
    BY <2>1 DEF HostType, Pc
<1> HIDE DEF new
<1>5. host' \in [Hosts -> HostType] /\ host'[h] = new /\ \A g \in Hosts \ {h} : host'[g] = host[g]
  BY <1>1, <1>2, <1>4
<1>6. \A g \in Hosts \ {h} : (Fenced(g)' <=> Fenced(g)) /\ (Active(g)' <=> Active(g))
  BY <1>2, <1>5 DEF Fenced, Active
<1>7. ~Active(h)' /\ host'[h].epoch <= lease'.epoch
  BY <1>1, <1>2, <1>4, <1>5 DEF Active
<1>8. LeaseInv'
  BY <1>1, <1>2, <1>3, <1>5, <1>6, <1>7 DEF LeaseInv, Same
<1>9. HostsInv' /\ OnceInv'
  BY <1>2, <1>4, <1>5, <1>6, HostsSettle DEF Still
<1> QED
  BY <1>1, <1>2, <1>5, <1>8, <1>9, StillKeeps

\* The lease runs out under a host that is not inside a tick, unless hosts may outlast it there.
LEMMA ExpireKeeps ==
  ASSUME IInv, Expire
  PROVE  IInv'
<1>1. /\ Types /\ host \in [Hosts -> HostType] /\ LeaseInv
      /\ lease \in [owner : Hosts \cup {NoHost}, epoch : 0..MaxEpoch, expired : BOOLEAN]
  BY DEF IInv, Types
<1>2. Still /\ UNCHANGED host /\ lease' = [lease EXCEPT !.expired = TRUE]
  BY DEF Expire, chatVars, routeVars, Still
<1>3. Same
  BY <1>2, Given DEF Still
<1>4. /\ lease'.owner = lease.owner /\ lease'.epoch = lease.epoch
      /\ lease' \in [owner : Hosts \cup {NoHost}, epoch : 0..MaxEpoch, expired : BOOLEAN]
  BY <1>1, <1>2
<1>5. \A g \in Hosts : (Fenced(g)' <=> Fenced(g)) /\ (Active(g)' <=> Active(g))
  BY <1>2, <1>4 DEF Fenced, Active
<1>6. ASSUME NEW g \in Hosts, Stalls # "inside" PROVE ~Active(g)
  <2>1. host[lease.owner].pc \in {"idle", "dead"}
    BY <1>6 DEF Expire
  <2> QED
    BY <1>1, <1>6, <2>1 DEF LeaseInv, Active
<1>7. LeaseInv'
  BY <1>1, <1>2, <1>3, <1>4, <1>5, <1>6 DEF LeaseInv, Same
<1>8. HostsInv' /\ OnceInv'
  BY <1>2, <1>5, HostsSettle DEF Still
<1> QED
  BY <1>1, <1>2, <1>4, <1>7, <1>8, StillKeeps

\* The report of a session is about no message.
LEMMA ReportStartKeeps ==
  ASSUME IInv, NEW s \in Session, ReportStart(s)
  PROVE  IInv'
<1> DEFINE x == [key |-> s, id |-> spawned[s]]
<1>1. Types /\ LeaseInv /\ DoneInv /\ spawned[s] \in Nat /\ s \in Effect /\ s \notin Post
  BY Kinds DEF IInv, StoreInv, Types, ReportStart
<1>2. UNCHANGED <<given, lease, ledger, refused, opened, messages, routes, session, spawned, signals, folded, host, faults>>
  BY DEF ReportStart, chatVars, routeVars
<1>3. inbox' = inbox \/ inbox' = inbox \cup {x}
  BY DEF ReportStart, Enqueue
<1>4. Same
  BY <1>2, Given
<1>5. x \in [key : Effect, id : Nat] /\ x.key = s
  BY <1>1
<1>6. Types'
  <2>1. inbox' \subseteq [key : Effect, id : Nat]
    BY <1>1, <1>3, <1>5 DEF Types
  <2> QED
    BY <1>1, <1>2, <1>4, <2>1 DEF Types, Same
<1>7. LeaseInv'
  BY <1>1, <1>2, <1>4 DEF LeaseInv, Active, Fenced, Same
<1>8. IdsInv' /\ ThreadsInv' /\ RefusedMeansOwed'
  BY <1>2, <1>4 DEF IInv, StoreInv, IdsInv, Entered, ThreadsInv, RefusedMeansOwed, Same
<1>9. DoneInv'
  <2>1. \A i \in inbox' \cup folded' : i.key \in Post => ledger'[i.key].state = "done" /\ ledger'[i.key].id = i.id
    BY <1>1, <1>2, <1>3, <1>5 DEF DoneInv
  <2> QED
    BY <1>1, <1>2, <1>4, <2>1 DEF DoneInv, HasTurn, Same
<1>10. HostsInv' /\ OnceInv'
  BY <1>2, HostsSettle DEF Fenced
<1> QED
  BY <1>6, <1>7, <1>8, <1>9, <1>10 DEF IInv, StoreInv

-----------------------------------------------------------------------------
(* The theorems.                                                           *)

\* The invariant holds of an empty store.
LEMMA InitIInv == Init => IInv
<1> SUFFICES ASSUME Init PROVE IInv
  OBVIOUS
<1>1. given \in DOMAIN Settings
  BY DEF Init
<1>2. MaxEpoch \in Nat \ {0} /\ MaxFaults \in Nat
  BY <1>1, SettingsAssumption DEF MaxEpoch, MaxFaults
<1>3. NoEntry \in Entry /\ NoEntry.state = "none"
  BY DEF NoEntry, Entry
<1>4. Fresh \in HostType /\ Fresh.pc = "idle" /\ Fresh.epoch = 0
  BY <1>2, FreshIsAHost
<1>5. Types
  <2>1. lease \in [owner : Hosts \cup {NoHost}, epoch : 0..MaxEpoch, expired : BOOLEAN] /\ faults \in 0..MaxFaults
    BY <1>2 DEF Init
  <2>2. ledger \in [Effect -> Entry] /\ host \in [Hosts -> HostType] /\ signals \in [Signal -> Nat]
        /\ session \in [Session -> Nat \cup {NoThread}] /\ spawned \in [Session -> Nat \cup {NoThread}]
    BY <1>3, <1>4 DEF Init
  <2>3. IsFiniteSet(messages)
    BY FS_EmptySet DEF Init
  <2> QED
    BY <1>1, <2>1, <2>2, <2>3 DEF Init, Types
<1>6. \A h \in Hosts : host[h].pc = "idle" /\ host[h].epoch = 0
  BY <1>4 DEF Init
<1>7. LeaseInv
  BY <1>6 DEF Init, LeaseInv, Active
<1>8. StoreInv
  BY <1>3, Kinds, <1>5 DEF Init, StoreInv, IdsInv, ThreadsInv, DoneInv, RefusedMeansOwed
<1>9. HostsInv
  BY <1>6 DEF HostsInv, EffectInv, WalkInv, Walking
<1>10. OnceInv
  BY <1>6 DEF Init, OnceInv, OnlyInv
<1> QED
  BY <1>5, <1>7, <1>8, <1>9, <1>10 DEF IInv

\* Every step keeps the invariant.
LEMMA NextIInv == IInv /\ [Next]_vars => IInv'
<1> SUFFICES ASSUME IInv, [Next]_vars PROVE IInv'
  OBVIOUS
<1>1. ASSUME NEW h \in Hosts, HostStep(h) PROVE IInv'
  BY <1>1, AcquireKeeps, FoldKeeps, CheckKeeps, ReadEntryKeeps, WriteEntryKeeps, ReadForSetKeeps, SetDoneKeeps,
     OpenThreadKeeps, FindKeeps, PostMessageKeeps, MarkRefusedKeeps, ClearRefusedKeeps, WriteRouteKeeps,
     WriteSessionKeeps, SpawnKeeps, FindSignalKeeps, SendSignalKeeps, EnqueueResultKeeps DEF HostStep
<1>2. ASSUME UNCHANGED vars PROVE IInv'
  <2>1. Still /\ UNCHANGED <<lease, host>>
    BY <1>2 DEF vars, Still
  <2>2. Same
    BY <2>1, Given DEF Still
  <2>3. LeaseInv'
    BY <2>1, <2>2 DEF IInv, LeaseInv, Active, Fenced, Same
  <2>4. HostsInv' /\ OnceInv'
    BY <2>1, HostsSettle DEF Still, Fenced
  <2>5. lease' \in [owner : Hosts \cup {NoHost}, epoch : 0..MaxEpoch, expired : BOOLEAN] /\ host' \in [Hosts -> HostType]
    BY <2>1 DEF IInv, Types
  <2> QED
    BY <2>1, <2>3, <2>4, <2>5, StillKeeps
<1> QED
  BY <1>1, <1>2, CrashKeeps, ReportStartKeeps, ExpireKeeps DEF Next

\* What the runs check follows from the invariant.
LEMMA IInvSays == IInv => DoneOnce /\ RecordsAgree
<1> SUFFICES ASSUME IInv PROVE DoneOnce /\ RecordsAgree
  OBVIOUS
<1>1. Types /\ IdsInv /\ ThreadsInv /\ DoneInv /\ RefusedMeansOwed /\ OnceInv
  BY DEF IInv, StoreInv
<1>2. PostedOnce /\ SignalledOnce
  BY <1>1 DEF OnceInv, PostedOnce, SignalledOnce
<1>3. OneThreadPerSession
  <2>1. \A s \in Session : ledger[s] # NoEntry => ledger[s].id # RootThread
    <3>1. IsFiniteSet(Entered)
      <4>1. IsFiniteSet(Session) /\ Entered \subseteq Session
        BY <1>1, Kinds DEF Entered
      <4> QED
        BY <4>1, FS_Subset
    <3>2. Cardinality(Entered) \in Nat
      BY <3>1, FS_CardinalityType
    <3> QED
      BY <1>1, <3>2 DEF IdsInv, RootThread
  <2>2. RootKey \notin Session
    BY <1>1, Kinds
  <2>3. \A a, b \in opened : a.session = b.session <=> a.thread = b.thread
    BY <1>1, <2>1, <2>2 DEF IdsInv, ThreadsInv
  <2> QED
    BY <2>3 DEF OneThreadPerSession
<1>4. TypeOK
  <2>1. Hosts \subseteq Host
    BY <1>1, Kinds
  <2>2. \A h \in Hosts : host[h] \in HostType
    BY <1>1 DEF Types
  <2> QED
    BY <1>1, <2>1, <2>2 DEF TypeOK, Types, HostType, Pc
<1>5. DeliveredAgrees
  BY <1>1 DEF DoneInv, DeliveredAgrees
<1>6. SpawnedIsRouted
  BY <1>1 DEF ThreadsInv, DoneInv, HasTurn, SpawnedIsRouted
<1> QED
  BY <1>1, <1>2, <1>3, <1>4, <1>5, <1>6 DEF DoneOnce, RecordsAgree

\* Through every crash and every change of owner, a session has one thread, and a message is posted and a signal sent
\* once where no host outlasts its lease inside a tick (effects.rs find_or_post, stop; start.rs open_step_thread).
THEOREM EffectsAreDoneOnce == Spec => []DoneOnce
<1>1. Spec => []IInv
  BY InitIInv, NextIInv, PTL DEF Spec
<1> QED
  BY <1>1, IInvSays, PTL

\* What the inputs, the ledger, the routes and the note of a refusal say is so in the world, wherever hosts crash or
\* stand still.
THEOREM RecordsAgreeWithTheWorld == Spec => []RecordsAgree
<1>1. Spec => []IInv
  BY InitIInv, NextIInv, PTL DEF Spec
<1> QED
  BY <1>1, IInvSays, PTL
=============================================================================
