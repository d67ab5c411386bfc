--------------------------- MODULE PrefixesProofs ---------------------------
(* Proofs about Prefixes, for any replicas, processes, prefixes, candidates   *)
(* and any number of crashes.  The registry and the client are proved apart:  *)
(* what the relay holds is right whatever the clients do, and what a replica  *)
(* does with its answer rests on that alone.                                  *)
EXTENDS Prefixes, FiniteSetTheorems, TLAPS

\* ---------------------------------------------------------------------- types

PassType ==
    [pc : {"lookup", "claim", "race", "answer", "remap", "adopt", "push", "pull"}, asked : Prefixes,
     attempt : Nat, prefix : Prefixes \cup {None}, exported : SUBSET Op]

\* Every variable has its type.
Types ==
    /\ given \in DOMAIN Settings
    /\ owner \in [Prefixes -> Replicas \cup {None}]
    /\ uuid \in [Replicas -> Prefixes \cup {None}]
    /\ toml \in [Replicas -> Prefixes]
    /\ writer \in [Replicas -> Prefixes \cup {None}]
    /\ made \in [Replicas -> Nat]
    /\ ops \in [Replicas -> SUBSET Op]
    /\ views \in [Replicas -> SUBSET Op]
    /\ pushed \subseteq Op
    /\ pass \in [Processes -> PassType \cup {NoPass}]
    /\ answers \in [Replicas -> SUBSET Prefixes]
    /\ raced \subseteq Replicas
    /\ \A p \in Processes : pass[p] # NoPass => pass[p].attempt <= Len(Candidates[Home[p]])

\* ------------------------------------------------------------ what is invariant

\* What the relay holds and what passes know of it: a replica's item names a
\* prefix whose item names the replica, and whoever was told anything was told
\* what the replica's item says.
Registered ==
    /\ \A r \in Replicas : uuid[r] # None => owner[uuid[r]] = r
    /\ \A r \in Replicas : \A a \in answers[r] : a = uuid[r]
    /\ \A p \in Processes :
         /\ pass[p].pc = "race" => uuid[Home[p]] # None
         /\ pass[p].pc \in {"answer", "remap", "adopt", "push", "pull"} =>
              pass[p].prefix = uuid[Home[p]] /\ uuid[Home[p]] # None

\* The ops a replica made itself are under its registered prefix.
OwnSettled(r) == \A o \in ops[r] : o.by = r => o.prefix = uuid[r]

\* The log has nothing of another replica.
OwnOnly(r) == \A o \in ops[r] : o.by = r

\* A pass in state s of replica r, while nothing is written during a pass: it
\* asked for the minted prefix or the registered one.  Before a remap the log
\* is the export but for ids that got the registered prefix meanwhile; after
\* it the replica's own ids are the registered ones.  As long as a remap is to
\* come nothing was pulled, or the replica is one that raced.
PassSettled(s, r) ==
    /\ s # NoPass => /\ s.asked \in {Minted[r], uuid[r]}
                     /\ s.asked = uuid[r] => toml[r] = uuid[r]
    /\ s.pc = "remap" => /\ s.asked # s.prefix
                         /\ \A o \in ops[r] : o.by = r => o \in s.exported \/ o.prefix = uuid[r]
    /\ s.pc \in {"adopt", "push", "pull"} => OwnSettled(r)
    /\ s.pc \in {"push", "pull"} => toml[r] = uuid[r]
    /\ r \notin raced => /\ Stale(s, r) => OwnOnly(r)
                         /\ s.pc = "remap" =>
                              Renamed(s.exported, s.asked, s.prefix) = Renamed(ops[r], s.asked, s.prefix)

\* The log and the views of a replica: own ids of the prefix in replica.toml or
\* of the registered one; nothing pulled before the registered prefix is the
\* one in replica.toml; shown as they are and pulled as sent, unless it raced.
LogSettled(r) ==
    /\ toml[r] \in {Minted[r], uuid[r]}
    /\ \A o \in ops[r] : o.by = r => o.prefix \in {toml[r], uuid[r]}
    /\ toml[r] # uuid[r] => OwnOnly(r)
    /\ r \notin raced => views[r] = ops[r] /\ PulledUnchanged(r)

\* Only registered ids are pushed.
Settled ==
    /\ \A o \in pushed : o.prefix = uuid[o.by]
    /\ \A r \in Replicas : LogSettled(r)
    /\ \A p \in Processes : PassSettled(pass[p], Home[p])

Kept == Writers = "quiet" => Settled

IInv == Types /\ Registered /\ Kept

\* --------------------------------------------------------------------- lemmas

\* A candidate list of the setting is a list of prefixes.
LEMMA CandidatesType ==
    ASSUME Types, NEW r \in Replicas
    PROVE  Candidates[r] \in Seq(Prefixes)
BY SettingsAssumption DEF Types, Candidates

\* The prefix a pass asks for next is a prefix.
LEMMA WantedType ==
    ASSUME Types, NEW p \in Processes, pass[p] # NoPass
    PROVE  Wanted(p) \in Prefixes
<1>1. Candidates[Home[p]] \in Seq(Prefixes) /\ Home[p] \in Replicas
  BY CandidatesType, HomeAssumption
<1>2. pass[p] \in PassType /\ pass[p].attempt <= Len(Candidates[Home[p]])
  BY DEF Types
<1> QED
  BY <1>1, <1>2 DEF Wanted, PassType

\* Renaming ids gives ops.
LEMMA RenamedType ==
    ASSUME NEW entries \in SUBSET Op, NEW old, NEW new \in Prefixes
    PROVE  Renamed(entries, old, new) \in SUBSET Op
BY DEF Renamed, Op

\* So does writing exported ops again; and whose they are stays.
LEMMA RewrittenType ==
    ASSUME NEW log \in SUBSET Op, NEW exported, NEW old, NEW new \in Prefixes
    PROVE  /\ Rewritten(log, exported, old, new) \in SUBSET Op
           /\ \A o \in Rewritten(log, exported, old, new) : \E e \in log : e.by = o.by
BY DEF Rewritten, Op

\* Where no id has the old prefix, nothing is renamed.
LEMMA NoneRenamed ==
    ASSUME NEW entries \in SUBSET Op, NEW old, NEW new \in Prefixes, \A o \in entries : o.prefix # old
    PROVE  Renamed(entries, old, new) = entries
BY DEF Renamed, Op

\* Renaming twice is renaming once.
LEMMA RenamedTwice ==
    ASSUME NEW entries \in SUBSET Op, NEW old, NEW new \in Prefixes, old # new
    PROVE  Renamed(Renamed(entries, old, new), old, new) = Renamed(entries, old, new)
<1>1. \A o \in Renamed(entries, old, new) : o.prefix # old
  BY DEF Renamed, Op
<1>2. Renamed(entries, old, new) \in SUBSET Op
  BY RenamedType
<1> DEFINE once == Renamed(entries, old, new)
<1> HIDE DEF once
<1>3. once \in SUBSET Op /\ \A o \in once : o.prefix # old
  BY <1>1, <1>2 DEF once
<1>4. Renamed(once, old, new) = once
  BY <1>3, NoneRenamed
<1> QED
  BY <1>4 DEF once

\* The ids r made in a log have one of two prefixes, and the export holds those not renamed.
Covers(exported, log, old, new, r) ==
    \A o \in log : o.by = r => o.prefix \in {old, new} /\ (o \in exported \/ o.prefix = new)

\* Then the ids r made have the new prefix when the export is written again.
LEMMA RewrittenOwn ==
    ASSUME NEW log \in SUBSET Op, NEW exported \in SUBSET Op, NEW old \in Prefixes, NEW new \in Prefixes,
           NEW r \in Replicas, Covers(exported, log, old, new, r)
    PROVE  \A o \in Rewritten(log, exported, old, new) : o.by = r => o.prefix = new
<1> SUFFICES ASSUME NEW o \in Rewritten(log, exported, old, new), o.by = r PROVE o.prefix = new
  OBVIOUS
<1>1. PICK e \in log : o = [e EXCEPT !.prefix = IF \E f \in exported : f.by = e.by /\ f.n = e.n /\ f.prefix = old
                                                THEN new ELSE e.prefix]
  BY DEF Rewritten
<1>2. e \in Op
  OBVIOUS
<1>3. o.by = e.by /\ o.prefix = (IF \E f \in exported : f.by = e.by /\ f.n = e.n /\ f.prefix = old
                                THEN new ELSE e.prefix)
  BY <1>1, <1>2 DEF Op
<1> QED
  BY <1>3 DEF Covers

\* And a log of r's ops alone is the renamed one.
LEMMA RewrittenAll ==
    ASSUME NEW log \in SUBSET Op, NEW exported \in SUBSET Op, NEW old \in Prefixes, NEW new \in Prefixes,
           NEW r \in Replicas, Covers(exported, log, old, new, r), \A o \in log : o.by = r
    PROVE  Rewritten(log, exported, old, new) = Renamed(log, old, new)
<1>1. \A o \in log : /\ (IF \E e \in exported : e.by = o.by /\ e.n = o.n /\ e.prefix = old THEN new ELSE o.prefix) = new
                     /\ (IF o.prefix = old THEN new ELSE o.prefix) = new
  BY DEF Covers
<1> QED
  BY <1>1 DEF Rewritten, Renamed

\* ---------------------------------------------------------------------- steps

\* The initial states.
LEMMA InitIInv == Init => IInv
<1> SUFFICES ASSUME Init PROVE IInv
  OBVIOUS
<1>1. Types
  BY MintedAssumption DEF Init, Types, NoPass, PassType
<1>2. Registered
  BY DEF Init, Registered, NoPass
<1>3. Kept
  <2>1. \A r \in Replicas : LogSettled(r)
    BY DEF Init, LogSettled, OwnOnly, PulledUnchanged
  <2>2. \A p \in Processes : PassSettled(pass[p], Home[p])
    BY DEF Init, PassSettled, NoPass, Stale
  <2> QED
    BY <2>1, <2>2 DEF Init, Kept, Settled
<1> QED
  BY <1>1, <1>2, <1>3 DEF IInv

\* Every step keeps the types.
LEMMA TypesStep ==
    ASSUME Types, Registered, Next
    PROVE  Types'
<1> USE HomeAssumption
<1>1. ASSUME NEW r \in Replicas, OpenWorkspace(r) PROVE Types'
  BY <1>1 DEF OpenWorkspace, Candidates, Types
<1>2. ASSUME NEW r \in Replicas, Create(r) PROVE Types'
  <2> DEFINE prefix == IF Writers = "any" THEN writer[r] ELSE toml[r]
             new == [by |-> r, n |-> made[r] + 1, prefix |-> prefix]
  <2>1. new \in Op
    BY <1>2 DEF Create, Types, Op
  <2>2. /\ ops' = [ops EXCEPT ![r] = @ \cup {new}]
        /\ views' = [views EXCEPT ![r] = @ \cup {new}]
        /\ made' = [made EXCEPT ![r] = @ + 1]
        /\ UNCHANGED <<owner, uuid, toml, writer, pushed, pass, answers, raced, trouble, given>>
    BY <1>2 DEF Create
  <2> HIDE DEF new
  <2> QED
    BY <2>1, <2>2 DEF Candidates, Types
<1>3. ASSUME NEW p \in Processes, Begin(p) PROVE Types'
  <2> DEFINE new == [pc |-> "lookup", asked |-> toml[Home[p]], attempt |-> 0, prefix |-> None, exported |-> {}]
  <2>1. new \in PassType /\ new.attempt = 0
    BY DEF PassType, Types
  <2>2. /\ pass' = [pass EXCEPT ![p] = new]
        /\ UNCHANGED <<owner, uuid, toml, writer, made, ops, views, pushed, answers, raced, trouble, given>>
    BY <1>3 DEF Begin
  <2>3. Len(Candidates[Home[p]]) \in Nat
    BY CandidatesType
  <2> HIDE DEF new
  <2> QED
    BY <2>1, <2>2, <2>3 DEF Candidates, Types
<1>4. ASSUME NEW p \in Processes, Lookup(p) \/ ResolveRace(p) PROVE Types'
  <2>1. pass[p] \in PassType /\ pass[p] # NoPass
    BY <1>4 DEF Lookup, ResolveRace, NoPass, Types
  <2>2. UNCHANGED <<owner, uuid, toml, writer, made, ops, views, pushed, raced, given>>
    BY <1>4 DEF Lookup, ResolveRace
  <2>3. \/ Told(p, uuid[Home[p]]) /\ uuid[Home[p]] \in Prefixes
        \/ pass' = [pass EXCEPT ![p].pc = "claim"] /\ UNCHANGED answers
    BY <1>4 DEF Lookup, ResolveRace, Registered, Types
  <2>4. CASE Told(p, uuid[Home[p]]) /\ uuid[Home[p]] \in Prefixes
    <3>1. [pass[p] EXCEPT !.pc = "answer", !.prefix = uuid[Home[p]]] \in PassType
      BY <2>1, <2>4 DEF PassType
    <3> QED
      BY <2>1, <2>2, <2>4, <3>1 DEF Told, Types, Candidates
  <2>5. CASE pass' = [pass EXCEPT ![p].pc = "claim"] /\ UNCHANGED answers
    <3>1. [pass[p] EXCEPT !.pc = "claim"] \in PassType
      BY <2>1 DEF PassType
    <3> QED
      BY <2>1, <2>2, <2>5, <3>1 DEF Types, Candidates
  <2> QED
    BY <2>3, <2>4, <2>5
<1>5. ASSUME NEW p \in Processes, TryClaim(p) PROVE Types'
  <2>1. /\ pass[p] \in PassType /\ pass[p] # NoPass /\ Wanted(p) \in Prefixes
        /\ Len(Candidates[Home[p]]) \in Nat /\ pass[p].attempt <= Len(Candidates[Home[p]])
    BY <1>5, WantedType, CandidatesType DEF TryClaim, NoPass, Types
  <2>2. UNCHANGED <<toml, writer, made, ops, views, pushed, raced, given>>
    BY <1>5 DEF TryClaim
  <2>3. CASE ClaimOutcome(p) = "claimed"
    <3>1. /\ owner' = [owner EXCEPT ![Wanted(p)] = Home[p]] /\ uuid' = [uuid EXCEPT ![Home[p]] = Wanted(p)]
          /\ Told(p, Wanted(p))
      BY <1>5, <2>3 DEF TryClaim
    <3>2. [pass[p] EXCEPT !.pc = "answer", !.prefix = Wanted(p)] \in PassType
      BY <2>1 DEF PassType
    <3>3. /\ owner' \in [Prefixes -> Replicas \cup {None}] /\ uuid' \in [Replicas -> Prefixes \cup {None}]
          /\ answers' \in [Replicas -> SUBSET Prefixes]
      BY <2>1, <3>1 DEF Types, Told
    <3> QED
      BY <2>1, <2>2, <3>1, <3>2, <3>3 DEF Told, Types, Candidates
  <2>4. CASE ClaimOutcome(p) = "race"
    <3>1. pass' = [pass EXCEPT ![p] = [pass[p] EXCEPT !.pc = "race"]] /\ UNCHANGED <<owner, uuid, answers>>
      BY <1>5, <2>4 DEF TryClaim
    <3>2. [pass[p] EXCEPT !.pc = "race"] \in PassType
      BY <2>1 DEF PassType
    <3> QED
      BY <2>1, <2>2, <3>1, <3>2 DEF Types, Candidates
  <2>5. CASE ClaimOutcome(p) = "taken"
    <3> DEFINE further == [pass[p] EXCEPT !.attempt = pass[p].attempt + 1]
    <3>1. /\ pass' = [pass EXCEPT ![p] = IF pass[p].attempt = Len(Candidates[Home[p]]) THEN NoPass ELSE further]
          /\ UNCHANGED <<owner, uuid, answers>>
      BY <1>5, <2>5 DEF TryClaim
    <3>2. /\ further \in PassType /\ further.attempt = pass[p].attempt + 1
          /\ pass[p].attempt # Len(Candidates[Home[p]]) => pass[p].attempt + 1 <= Len(Candidates[Home[p]])
      BY <2>1 DEF PassType
    <3> HIDE DEF further
    <3> QED
      BY <2>1, <2>2, <3>1, <3>2 DEF Types, Candidates
  <2> QED
    BY <2>3, <2>4, <2>5 DEF ClaimOutcome
<1>6. ASSUME NEW p \in Processes, Answered(p) PROVE Types'
  <2>1. pass[p] \in PassType /\ pass[p] # NoPass
    BY <1>6 DEF Answered, NoPass, Types
  <2> DEFINE same == [pass[p] EXCEPT !.pc = "push"]
             remap == [pass[p] EXCEPT !.pc = "remap", !.exported = ops[Home[p]]]
  <2>2. /\ same \in PassType /\ same.attempt = pass[p].attempt
        /\ remap \in PassType /\ remap.attempt = pass[p].attempt
    BY <2>1 DEF PassType, Types
  <2>3. /\ pass' = [pass EXCEPT ![p] = same] \/ pass' = [pass EXCEPT ![p] = remap]
        /\ UNCHANGED <<owner, uuid, toml, writer, made, ops, views, pushed, answers, raced, trouble, given>>
    BY <1>6 DEF Answered
  <2> HIDE DEF same, remap
  <2>5. CASE pass' = [pass EXCEPT ![p] = same]
    BY <2>1, <2>2, <2>3, <2>5 DEF Candidates, Types
  <2>6. CASE pass' = [pass EXCEPT ![p] = remap]
    BY <2>1, <2>2, <2>3, <2>6 DEF Candidates, Types
  <2> QED
    BY <2>3, <2>5, <2>6
<1>7. ASSUME NEW p \in Processes, Remap(p) PROVE Types'
  <2> DEFINE r == Home[p]
             log == ops[r]
             rewritten == Rewritten(log, pass[p].exported, pass[p].asked, pass[p].prefix)
             shown == Renamed(pass[p].exported, pass[p].asked, pass[p].prefix)
             next == [pass[p] EXCEPT !.pc = "adopt"]
  <2>1. /\ pass[p] \in PassType /\ pass[p] # NoPass /\ pass[p].prefix \in Prefixes
        /\ pass[p].exported \in SUBSET Op /\ r \in Replicas /\ log \in SUBSET Op
    BY <1>7 DEF Remap, NoPass, Registered, PassType, Types
  <2>2. rewritten \in SUBSET Op
    BY <2>1, RewrittenType
  <2>3. shown \in SUBSET Op
    BY <2>1, RenamedType
  <2>4. /\ \/ UNCHANGED <<ops, views>>
           \/ ops' = [ops EXCEPT ![r] = rewritten] /\ views' = [views EXCEPT ![r] = shown]
        /\ pass' = [pass EXCEPT ![p] = next]
        /\ UNCHANGED <<owner, uuid, toml, writer, made, pushed, answers, raced, trouble, given>>
    BY <1>7 DEF Remap
  <2>5. next \in PassType /\ next.attempt = pass[p].attempt
    BY <2>1 DEF PassType
  <2> HIDE DEF rewritten, shown, next
  <2> QED
    BY <2>1, <2>2, <2>3, <2>4, <2>5 DEF Candidates, Types
<1>8. ASSUME NEW p \in Processes, Adopt(p) PROVE Types'
  <2> DEFINE next == [pass[p] EXCEPT !.pc = "push"]
  <2>1. pass[p] \in PassType /\ pass[p] # NoPass /\ pass[p].prefix \in Prefixes
    BY <1>8 DEF Adopt, NoPass, Registered, Types
  <2>2. next \in PassType /\ next.attempt = pass[p].attempt
    BY <2>1 DEF PassType
  <2>3. /\ toml' = [toml EXCEPT ![Home[p]] = pass[p].prefix] /\ pass' = [pass EXCEPT ![p] = next]
        /\ UNCHANGED <<owner, uuid, writer, made, ops, views, pushed, answers, raced, trouble, given>>
    BY <1>8, <2>1 DEF Adopt
  <2> HIDE DEF next
  <2> QED
    BY <2>1, <2>2, <2>3 DEF Candidates, Types
<1>9. ASSUME NEW p \in Processes, Push(p) PROVE Types'
  <2> DEFINE next == [pass[p] EXCEPT !.pc = "pull"]
  <2>1. pass[p] \in PassType /\ pass[p] # NoPass
    BY <1>9 DEF Push, NoPass, Types
  <2>2. next \in PassType /\ next.attempt = pass[p].attempt
    BY <2>1 DEF PassType
  <2>3. pushed' \subseteq Op /\ pass' = [pass EXCEPT ![p] = next]
    BY <1>9 DEF Push, Types
  <2>4. UNCHANGED <<owner, uuid, toml, writer, made, ops, views, answers, raced, trouble, given>>
    BY <1>9 DEF Push
  <2> HIDE DEF next
  <2> QED
    BY <2>1, <2>2, <2>3, <2>4 DEF Candidates, Types
<1>10. ASSUME NEW p \in Processes, Pull(p) PROVE Types'
  <2>1. PICK page \in SUBSET pushed : /\ ops' = [ops EXCEPT ![Home[p]] = @ \cup page]
                                      /\ views' = [views EXCEPT ![Home[p]] = @ \cup page]
    BY <1>10 DEF Pull
  <2>2. page \in SUBSET Op /\ raced' \subseteq Replicas
    BY <1>10 DEF Pull, Types
  <2>3. UNCHANGED <<owner, uuid, toml, writer, made, pushed, pass, answers, trouble, given>>
    BY <1>10 DEF Pull
  <2> QED
    BY <2>1, <2>2, <2>3 DEF Candidates, Types
<1>11. ASSUME NEW p \in Processes, EndPass(p) \/ PassFails(p) PROVE Types'
  BY <1>11 DEF EndPass, PassFails, Candidates, Types
<1> QED
  BY <1>1, <1>2, <1>3, <1>4, <1>5, <1>6, <1>7, <1>8, <1>9, <1>10, <1>11 DEF Next

\* What the relay told a pass stays true: items are written once.
LEMMA RegisteredStep ==
    ASSUME Types, Registered, Next
    PROVE  Registered'
<1> USE HomeAssumption
<1>1. ASSUME NEW r \in Replicas, OpenWorkspace(r) \/ Create(r) \/ (\E p \in Processes : Pull(p)) PROVE Registered'
  BY <1>1 DEF OpenWorkspace, Create, Pull, Registered
<1>2. ASSUME NEW p \in Processes, Begin(p) \/ Answered(p) \/ Remap(p) \/ Adopt(p) \/ Push(p) \/ EndPass(p) \/ PassFails(p)
      PROVE  Registered'
  <2>1. UNCHANGED <<owner, uuid, answers>>
    BY <1>2 DEF Begin, Answered, Remap, Adopt, Push, EndPass, PassFails
  <2>2. \A q \in Processes \ {p} : pass'[q] = pass[q]
    BY <1>2 DEF Begin, Answered, Remap, Adopt, Push, EndPass, PassFails, Types
  <2>3. CASE Begin(p) \/ EndPass(p) \/ PassFails(p)
    <3>1. pass'[p].pc \in {"lookup", "none"}
      BY <2>3 DEF Begin, EndPass, PassFails, NoPass, Types
    <3> QED
      BY <2>1, <2>2, <3>1 DEF Registered
  <2>4. CASE Answered(p) \/ Remap(p) \/ Adopt(p) \/ Push(p)
    <3>1. pass[p].pc \in {"answer", "remap", "adopt", "push"} /\ pass[p] \in PassType
      BY <2>4 DEF Answered, Remap, Adopt, Push, NoPass, Types
    <3>2. pass'[p].prefix = pass[p].prefix /\ pass'[p].pc \in {"remap", "adopt", "push", "pull"}
      <4>1. CASE Answered(p)
        BY <3>1, <4>1 DEF Answered, PassType, Types
      <4>2. CASE Remap(p)
        BY <3>1, <4>2 DEF Remap, PassType, Types
      <4>3. CASE Adopt(p)
        BY <3>1, <4>3 DEF Adopt, PassType, Types
      <4>4. CASE Push(p)
        BY <3>1, <4>4 DEF Push, PassType, Types
      <4> QED
        BY <2>4, <4>1, <4>2, <4>3, <4>4
    <3> QED
      BY <2>1, <2>2, <3>1, <3>2 DEF Registered
  <2> QED
    BY <1>2, <2>3, <2>4
<1>3. ASSUME NEW p \in Processes, Lookup(p) \/ ResolveRace(p) PROVE Registered'
  <2>1. UNCHANGED <<owner, uuid>> /\ pass[p] \in PassType
    BY <1>3 DEF Lookup, ResolveRace, NoPass, Types
  <2>2. CASE Told(p, uuid[Home[p]]) /\ uuid[Home[p]] # None
    <3>1. /\ \A q \in Processes \ {p} : pass'[q] = pass[q]
          /\ pass'[p].pc = "answer" /\ pass'[p].prefix = uuid[Home[p]]
      BY <2>1, <2>2 DEF Told, PassType, Types
    <3>2. \A r \in Replicas : answers'[r] \subseteq answers[r] \cup (IF r = Home[p] THEN {uuid[r]} ELSE {})
      BY <2>2 DEF Told, Types
    <3> QED
      BY <2>1, <2>2, <3>1, <3>2 DEF Registered
  <2>3. CASE pass' = [pass EXCEPT ![p].pc = "claim"] /\ UNCHANGED answers
    <3>1. /\ \A q \in Processes \ {p} : pass'[q] = pass[q]
          /\ pass'[p].pc = "claim"
      BY <2>1, <2>3 DEF PassType, Types
    <3> QED
      BY <2>1, <2>3, <3>1 DEF Registered
  <2> QED
    BY <1>3, <2>2, <2>3 DEF Lookup, ResolveRace, Registered
<1>4. ASSUME NEW p \in Processes, TryClaim(p) PROVE Registered'
  <2> DEFINE r == Home[p]
             new == Wanted(p)
  <2>1. pass[p] \in PassType /\ pass[p] # NoPass /\ new \in Prefixes /\ r \in Replicas
    BY <1>4, WantedType DEF TryClaim, NoPass, Types
  <2>2. CASE ClaimOutcome(p) = "claimed"
    <3>1. /\ owner' = [owner EXCEPT ![new] = r] /\ uuid' = [uuid EXCEPT ![r] = new] /\ Told(p, new)
          /\ uuid[r] = None /\ owner[new] = None
      BY <1>4, <2>2 DEF TryClaim, ClaimOutcome
    <3> HIDE DEF new, r
    <3>2. \A q \in Replicas : uuid'[q] # None => owner'[uuid'[q]] = q
      BY <2>1, <3>1, NoneAssumption DEF Registered, Types
    <3>3. \A q \in Replicas : \A a \in answers'[q] : a = uuid'[q]
      <4>1. \A q \in Replicas : answers'[q] = IF q = r THEN answers[q] \cup {new} ELSE answers[q]
        BY <3>1 DEF Told, Types, r
      <4>2. answers[r] = {}
        BY <2>1, <3>1, NoneAssumption DEF Registered, Types
      <4>3. uuid'[r] = new /\ \A q \in Replicas \ {r} : uuid'[q] = uuid[q]
        BY <2>1, <3>1 DEF Types
      <4>4. \A a \in answers'[r] : a = uuid'[r]
        BY <2>1, <4>1, <4>2, <4>3
      <4>5. \A q \in Replicas \ {r} : \A a \in answers'[q] : a = uuid'[q]
        BY <4>1, <4>3 DEF Registered
      <4> QED
        BY <4>4, <4>5
    <3>4. /\ \A q \in Processes \ {p} : pass'[q] = pass[q]
          /\ pass'[p].pc = "answer" /\ pass'[p].prefix = new
      BY <2>1, <3>1 DEF Told, PassType, Types
    <3>5. uuid'[r] = new /\ new # None /\ \A q \in Replicas \ {r} : uuid'[q] = uuid[q]
      BY <2>1, <3>1, NoneAssumption DEF Types
    <3>6. Home[p] = r
      BY DEF r
    <3>7. ASSUME NEW q \in Processes
          PROVE  /\ pass'[q].pc = "race" => uuid'[Home[q]] # None
                 /\ pass'[q].pc \in {"answer", "remap", "adopt", "push", "pull"} =>
                      pass'[q].prefix = uuid'[Home[q]] /\ uuid'[Home[q]] # None
      BY <3>1, <3>4, <3>5, <3>6 DEF Registered
    <3> QED
      BY <3>2, <3>3, <3>7 DEF Registered
  <2>3. CASE ClaimOutcome(p) \in {"race", "taken"}
    <3>1. UNCHANGED <<owner, uuid, answers>> /\ \A q \in Processes \ {p} : pass'[q] = pass[q]
      BY <1>4, <2>3 DEF TryClaim, Types
    <3>2. pass'[p].pc \in {"race", "claim", "none"} /\ (pass'[p].pc = "race" => uuid[r] # None)
      <4>1. CASE ClaimOutcome(p) = "race"
        <5>1. pass' = [pass EXCEPT ![p] = [pass[p] EXCEPT !.pc = "race"]]
          BY <1>4, <4>1 DEF TryClaim
        <5> QED
          BY <2>1, <4>1, <5>1 DEF ClaimOutcome, PassType, Types
      <4>2. CASE ClaimOutcome(p) = "taken"
        <5>1. /\ pass' = [pass EXCEPT ![p] = IF pass[p].attempt = Len(Candidates[r]) THEN NoPass
                                             ELSE [pass[p] EXCEPT !.attempt = pass[p].attempt + 1]]
              /\ pass[p].pc = "claim"
          BY <1>4, <4>2 DEF TryClaim
        <5> QED
          BY <2>1, <5>1 DEF PassType, Types, NoPass
      <4> QED
        BY <2>3, <4>1, <4>2
    <3> QED
      BY <3>1, <3>2 DEF Registered
  <2> QED
    BY <2>2, <2>3 DEF ClaimOutcome
<1> QED
  BY <1>1, <1>2, <1>3, <1>4 DEF Next

\* A step that leaves the logs, the files and the registry alone keeps the logs.
LEMMA LogsStand ==
    ASSUME Settled, UNCHANGED <<uuid, toml, ops, views, pushed, raced>>
    PROVE  \A r \in Replicas : LogSettled(r)'
BY DEF Settled, LogSettled, OwnOnly, PulledUnchanged

\* It keeps what is known of a pass that does not change.
LEMMA PassStands ==
    ASSUME Settled, NEW p \in Processes, pass'[p] = pass[p], UNCHANGED <<uuid, toml, ops, raced>>
    PROVE  PassSettled(pass[p], Home[p])'
<1>1. PassSettled(pass[p], Home[p])
  BY DEF Settled
<1> QED
  BY <1>1 DEF PassSettled, OwnSettled, OwnOnly, Stale

\* While nothing is written during a pass, every step keeps the ids of a log
\* and of what was pushed of it.
LEMMA SettledStep ==
    ASSUME Types, Types', Registered, Registered', Settled, Writers = "quiet", Next
    PROVE  Settled'
<1> USE HomeAssumption
<1>1. ASSUME NEW r \in Replicas, OpenWorkspace(r) PROVE FALSE
  BY <1>1 DEF OpenWorkspace
<1>2. ASSUME NEW r \in Replicas, Create(r)
      PROVE  Settled'
  <2> DEFINE new == [by |-> r, n |-> made[r] + 1, prefix |-> toml[r]]
  <2>1. /\ ops' = [ops EXCEPT ![r] = @ \cup {new}]
        /\ views' = [views EXCEPT ![r] = @ \cup {new}]
        /\ UNCHANGED <<uuid, toml, pushed, pass, raced>>
        /\ ~InPass(r)
    BY <1>2 DEF Create
  <2>2. new.by = r /\ new.prefix = toml[r]
    OBVIOUS
  <2> HIDE DEF new
  <2>3. /\ ops'[r] = ops[r] \cup {new} /\ views'[r] = views[r] \cup {new}
        /\ \A q \in Replicas \ {r} : ops'[q] = ops[q] /\ views'[q] = views[q]
    BY <2>1 DEF Types
  <2>4. ASSUME NEW q \in Replicas PROVE LogSettled(q)'
    <3>1. LogSettled(q)
      BY DEF Settled
    <3>2. CASE q = r
      BY <2>1, <2>2, <2>3, <3>1, <3>2, ZenonT(60) DEF LogSettled, OwnOnly, PulledUnchanged
    <3>3. CASE q # r
      BY <2>1, <2>3, <3>1, <3>3 DEF LogSettled, OwnOnly, PulledUnchanged
    <3> QED
      BY <3>2, <3>3
  <2>5. ASSUME NEW p \in Processes PROVE PassSettled(pass[p], Home[p])'
    <3>1. CASE Home[p] = r
      <4>1. pass[p] = NoPass
        BY <2>1, <3>1 DEF InPass
      <4> QED
        BY <2>1, <4>1 DEF PassSettled, NoPass, Stale
    <3>2. CASE Home[p] # r
      <4>1. PassSettled(pass[p], Home[p]) /\ Home[p] \in Replicas
        BY DEF Settled
      <4> QED
        BY <2>1, <2>3, <3>2, <4>1 DEF PassSettled, OwnSettled, OwnOnly, Stale
    <3> QED
      BY <3>1, <3>2
  <2> QED
    BY <2>1, <2>4, <2>5 DEF Settled
<1>3. ASSUME NEW p \in Processes, Begin(p) \/ Lookup(p) \/ ResolveRace(p) \/ Answered(p) \/ EndPass(p) \/ PassFails(p)
      PROVE  Settled'
  <2> DEFINE r == Home[p]
  <2>1. UNCHANGED <<uuid, toml, ops, views, pushed, raced>> /\ r \in Replicas
    BY <1>3 DEF Begin, Lookup, ResolveRace, Answered, EndPass, PassFails
  <2>2. \A q \in Processes \ {p} : pass'[q] = pass[q]
    BY <1>3 DEF Begin, Lookup, ResolveRace, Answered, EndPass, PassFails, Told, Types
  <2>3. PassSettled(pass[p], r) /\ LogSettled(r)
    BY <2>1 DEF Settled
  <2>4. PassSettled(pass[p], r)'
    <3>1. CASE Begin(p)
      <4>1. pass'[p].asked = toml[r] /\ pass'[p].pc = "lookup"
        BY <3>1 DEF Begin, Types
      <4> QED
        BY <2>1, <2>3, <4>1 DEF PassSettled, LogSettled, OwnOnly, Stale
    <3>2. CASE EndPass(p) \/ PassFails(p)
      <4>1. pass'[p] = NoPass
        BY <3>2 DEF EndPass, PassFails, Types
      <4> QED
        BY <4>1 DEF PassSettled, NoPass, Stale
    <3>3. CASE Lookup(p) \/ ResolveRace(p)
      <4>1. pass[p] \in PassType /\ pass[p] # NoPass /\ pass[p].pc \in {"lookup", "race"}
        BY <3>3 DEF Lookup, ResolveRace, NoPass, Types
      <4>2. pass'[p].asked = pass[p].asked /\ pass'[p].pc \in {"answer", "claim"}
        <5>1. CASE \E x \in Prefixes \cup {None} : pass' = [pass EXCEPT ![p] = [pass[p] EXCEPT !.pc = "answer", !.prefix = x]]
          BY <4>1, <5>1 DEF PassType, Types
        <5>2. CASE pass' = [pass EXCEPT ![p].pc = "claim"]
          BY <4>1, <5>2 DEF PassType, Types
        <5> QED
          BY <3>3, <5>1, <5>2 DEF Lookup, ResolveRace, Told, Types
      <4> QED
        BY <2>1, <2>3, <4>1, <4>2 DEF PassSettled, OwnOnly, Stale
    <3>4. CASE Answered(p)
      <4>1. pass[p] \in PassType /\ pass[p] # NoPass /\ pass[p].pc = "answer" /\ pass[p].prefix = uuid[r]
        BY <3>4 DEF Answered, NoPass, Types, Registered
      <4>2. CASE pass[p].prefix = pass[p].asked
        <5>1. pass' = [pass EXCEPT ![p] = [pass[p] EXCEPT !.pc = "push"]]
          BY <3>4, <4>2 DEF Answered
        <5>2. pass'[p].asked = pass[p].asked /\ pass'[p].pc = "push"
          BY <4>1, <5>1 DEF PassType, Types
        <5> QED
          BY <2>1, <2>3, <4>1, <4>2, <5>2 DEF PassSettled, LogSettled, OwnSettled, Stale
      <4>3. CASE pass[p].prefix # pass[p].asked
        <5>1. pass' = [pass EXCEPT ![p] = [pass[p] EXCEPT !.pc = "remap", !.exported = ops[r]]]
          BY <3>4, <4>3 DEF Answered
        <5>2. /\ pass'[p].asked = pass[p].asked /\ pass'[p].pc = "remap" /\ pass'[p].exported = ops[r]
              /\ pass'[p].prefix = pass[p].prefix
          BY <4>1, <5>1 DEF PassType, Types
        <5> QED
          BY <2>1, <2>3, <4>1, <4>3, <5>2 DEF PassSettled, OwnOnly, Stale
      <4> QED
        BY <4>2, <4>3
    <3> QED
      BY <1>3, <3>1, <3>2, <3>3, <3>4
  <2>5. \A q \in Processes \ {p} : PassSettled(pass[q], Home[q])'
    BY <2>1, <2>2, PassStands
  <2> QED
    BY <2>1, <2>4, <2>5, LogsStand DEF Settled
<1>4. ASSUME NEW p \in Processes, TryClaim(p)
      PROVE  Settled'
  <2> DEFINE r == Home[p]
  <2>1. UNCHANGED <<toml, ops, views, pushed, raced>> /\ pass[p] \in PassType /\ pass[p] # NoPass /\ pass[p].pc = "claim"
    BY <1>4 DEF TryClaim, NoPass, Types
  <2>2. \A q \in Processes \ {p} : pass'[q] = pass[q]
    BY <1>4 DEF TryClaim, Told, Types
  <2>3. pass'[p] # NoPass => pass'[p].asked = pass[p].asked /\ pass'[p].pc \in {"answer", "race", "claim"}
    <3>1. CASE ClaimOutcome(p) = "claimed"
      <4>1. pass' = [pass EXCEPT ![p] = [pass[p] EXCEPT !.pc = "answer", !.prefix = Wanted(p)]]
        BY <1>4, <3>1 DEF TryClaim, Told
      <4> QED
        BY <2>1, <4>1 DEF PassType, Types
    <3>2. CASE ClaimOutcome(p) = "race"
      <4>1. pass' = [pass EXCEPT ![p] = [pass[p] EXCEPT !.pc = "race"]]
        BY <1>4, <3>2 DEF TryClaim
      <4> QED
        BY <2>1, <4>1 DEF PassType, Types
    <3>3. CASE ClaimOutcome(p) = "taken"
      <4>1. pass' = [pass EXCEPT ![p] = IF pass[p].attempt = Len(Candidates[r]) THEN NoPass
                                        ELSE [pass[p] EXCEPT !.attempt = pass[p].attempt + 1]]
        BY <1>4, <3>3 DEF TryClaim
      <4> QED
        BY <2>1, <4>1 DEF PassType, Types
    <3> QED
      BY <3>1, <3>2, <3>3 DEF ClaimOutcome
  <2>4. \A q \in Replicas : uuid'[q] = uuid[q] \/ uuid[q] = None
    BY <1>4 DEF TryClaim, ClaimOutcome, Types
  <2>5. \A o \in pushed' : o.prefix = uuid'[o.by]
    <3> SUFFICES ASSUME NEW o \in pushed PROVE o.prefix = uuid'[o.by]
      BY <2>1
    <3>1. o.by \in Replicas /\ o.prefix \in Prefixes /\ o.prefix = uuid[o.by]
      BY DEF Types, Settled, Op
    <3> QED
      BY <2>4, <3>1, NoneAssumption
  <2>6. ASSUME NEW q \in Replicas PROVE LogSettled(q)'
    <3>1. LogSettled(q) /\ toml[q] \in Prefixes /\ (uuid'[q] = uuid[q] \/ uuid[q] = None)
      BY <2>4 DEF Types, Settled
    <3>2. \A o \in ops[q] : o.prefix \in Prefixes
      BY DEF Types, Op
    <3> QED
      BY <2>1, <3>1, <3>2, NoneAssumption DEF LogSettled, OwnOnly, PulledUnchanged
  <2>7. ASSUME NEW q \in Processes PROVE PassSettled(pass[q], Home[q])'
    <3>1. /\ PassSettled(pass[q], Home[q]) /\ LogSettled(Home[q]) /\ toml[Home[q]] \in Prefixes
          /\ uuid'[Home[q]] = uuid[Home[q]] \/ uuid[Home[q]] = None
          /\ pass[q] # NoPass => pass[q].asked \in Prefixes
      BY <2>4 DEF Settled, Types, PassType
    <3>2. CASE uuid'[Home[q]] = uuid[Home[q]]
      <4>1. CASE q = p
        BY <2>1, <2>3, <3>1, <3>2, <4>1 DEF PassSettled, NoPass, OwnOnly, Stale
      <4>2. CASE q # p
        BY <2>1, <2>2, <3>1, <3>2, <4>2 DEF PassSettled, OwnSettled, OwnOnly, Stale
      <4> QED
        BY <4>1, <4>2
    <3>3. CASE uuid[Home[q]] = None
      <4>1. OwnOnly(Home[q])' /\ toml[Home[q]] = Minted[Home[q]]
        BY <2>1, <3>1, <3>3, NoneAssumption DEF LogSettled, OwnOnly
      <4>2. pass[q] # NoPass => pass[q].asked = Minted[Home[q]]
        BY <3>1, <3>3, NoneAssumption DEF PassSettled
      <4>3. pass'[q] # NoPass => pass[q] # NoPass /\ pass'[q].asked = pass[q].asked /\ pass'[q].pc \notin {"remap", "adopt", "push", "pull"}
        <5>1. CASE q = p
          BY <2>1, <2>3, <5>1
        <5>2. CASE q # p
          BY <2>2, <3>3, <5>2 DEF Registered
        <5> QED
          BY <5>1, <5>2
      <4>4. CASE pass'[q] = NoPass
        BY <4>4 DEF PassSettled, NoPass, Stale
      <4>5. CASE pass'[q] # NoPass
        BY <2>1, <4>1, <4>2, <4>3, <4>5 DEF PassSettled
      <4> QED
        BY <4>4, <4>5
    <3> QED
      BY <3>1, <3>2, <3>3
  <2> QED
    BY <2>5, <2>6, <2>7 DEF Settled
<1>5. ASSUME NEW p \in Processes, Remap(p)
      PROVE  Settled'
  <2> DEFINE r == Home[p]
             log == ops[r]
             old == pass[p].asked
             new == uuid[r]
             exported == pass[p].exported
             rewritten == Rewritten(log, exported, old, new)
             shown == Renamed(exported, old, new)
  <2>1. /\ pass[p] \in PassType /\ pass[p] # NoPass /\ pass[p].pc = "remap" /\ pass[p].prefix = new /\ new \in Prefixes
        /\ r \in Replicas /\ log \in SUBSET Op /\ exported \in SUBSET Op /\ old \in Prefixes
    BY <1>5 DEF Remap, NoPass, Types, PassType, Registered
  <2>2. PassSettled(pass[p], r) /\ LogSettled(r)
    BY <2>1 DEF Settled
  <2>3. /\ old # new /\ old = Minted[r] /\ toml[r] \in {old, new}
        /\ \A o \in log : o.by = r => o.prefix \in {old, new} /\ (o \in exported \/ o.prefix = new)
    BY <2>1, <2>2 DEF PassSettled, LogSettled
  <2>4. r \notin raced => /\ \A o \in log : o.by = r
                          /\ shown = Renamed(log, old, new)
                          /\ views[r] = log
    BY <2>1, <2>2, <2>3 DEF PassSettled, LogSettled, OwnOnly, Stale
  <2>5. /\ IF \A o \in exported : o.prefix # old THEN UNCHANGED <<ops, views>>
           ELSE ops' = [ops EXCEPT ![r] = rewritten] /\ views' = [views EXCEPT ![r] = shown]
        /\ pass' = [pass EXCEPT ![p] = [pass[p] EXCEPT !.pc = "adopt"]]
        /\ UNCHANGED <<uuid, toml, pushed, raced>>
    BY <1>5, <2>1 DEF Remap
  <2>6. /\ \A o \in rewritten : o.by = r => o.prefix = new
        /\ (\A o \in log : o.by = r) => rewritten = Renamed(log, old, new)
        /\ \A o \in rewritten : \E e \in log : e.by = o.by
    <3>1. \A o \in rewritten : \E e \in log : e.by = o.by
      BY <2>1, RewrittenType
    <3>2. /\ log \in SUBSET Op /\ exported \in SUBSET Op /\ old \in Prefixes /\ new \in Prefixes /\ r \in Replicas
          /\ Covers(exported, log, old, new, r)
      BY <2>1, <2>3 DEF Covers
    <3> HIDE DEF log, old, new, exported, r
    <3>3. \A o \in rewritten : o.by = r => o.prefix = new
      BY <3>2, RewrittenOwn
    <3>4. (\A o \in log : o.by = r) => rewritten = Renamed(log, old, new)
      BY <3>2, RewrittenAll
    <3> QED
      BY <3>1, <3>3, <3>4
  <2>7. r \notin raced => \A o \in log : o.by = r
    BY <2>4
  <2>8. log = ops[r] /\ r = Home[p] /\ old = pass[p].asked /\ new = uuid[r]
    OBVIOUS
  <2> HIDE DEF r, log, old, new, exported, rewritten, shown
  <2>9. /\ \A q \in Replicas \ {r} : ops'[q] = ops[q] /\ views'[q] = views[q]
        /\ \A o \in ops'[r] : o.by = r => o.prefix = new
        /\ \A o \in ops'[r] : \E e \in log : e.by = o.by
        /\ r \notin raced => views'[r] = ops'[r] /\ ops'[r] = Renamed(log, old, new)
    <3>1. CASE \A o \in exported : o.prefix # old
      <4>1. UNCHANGED <<ops, views>>
        BY <2>5, <3>1
      <4>2. \A o \in log : o.by = r => o.prefix = new
        BY <2>3, <3>1
      <4>3. r \notin raced => Renamed(log, old, new) = log
        <5> SUFFICES ASSUME r \notin raced PROVE Renamed(log, old, new) = log
          OBVIOUS
        <5>1. \A o \in log : o.prefix # old
          BY <2>3, <2>7, <4>2
        <5> QED
          BY <2>1, <5>1, NoneRenamed
      <4> QED
        BY <2>1, <2>4, <2>8, <4>1, <4>2, <4>3
    <3>2. CASE ~\A o \in exported : o.prefix # old
      <4>1. ops' = [ops EXCEPT ![r] = rewritten] /\ views' = [views EXCEPT ![r] = shown]
        BY <2>5, <3>2
      <4>2. ops'[r] = rewritten /\ views'[r] = shown /\ \A q \in Replicas \ {r} : ops'[q] = ops[q] /\ views'[q] = views[q]
        BY <2>1, <4>1 DEF Types
      <4> QED
        BY <2>4, <2>6, <4>2
    <3> QED
      BY <3>1, <3>2
  <2>10. /\ \A q \in Processes \ {p} : pass'[q] = pass[q]
         /\ pass'[p].pc = "adopt" /\ pass'[p].asked = old
    BY <2>1, <2>5, <2>8 DEF PassType, Types
  <2>11. r \notin raced => OwnOnly(r)'
    BY <2>4, <2>9 DEF OwnOnly
  <2>12. ASSUME NEW q \in Replicas PROVE LogSettled(q)'
    <3>1. LogSettled(q)
      BY DEF Settled
    <3>2. CASE q # r
      BY <2>5, <2>9, <3>1, <3>2 DEF LogSettled, OwnOnly, PulledUnchanged
    <3>3. CASE q = r
      <4>1. toml[r] # uuid[r] => OwnOnly(r)'
        BY <2>8, <2>9, <3>1, <3>3 DEF LogSettled, OwnOnly
      <4> QED
        BY <2>5, <2>8, <2>9, <2>11, <3>1, <3>3, <4>1 DEF LogSettled, OwnOnly, PulledUnchanged
    <3> QED
      BY <3>2, <3>3
  <2>13. ASSUME NEW q \in Processes PROVE PassSettled(pass[q], Home[q])'
    <3>1. PassSettled(pass[q], Home[q]) /\ Home[q] \in Replicas
      BY DEF Settled
    <3>2. CASE q = p
      BY <2>3, <2>5, <2>8, <2>9, <2>10, <3>2 DEF PassSettled, OwnSettled, Stale
    <3>3. CASE q # p /\ Home[q] # r
      BY <2>5, <2>9, <2>10, <3>1, <3>3 DEF PassSettled, OwnSettled, OwnOnly, Stale
    <3>4. CASE q # p /\ Home[q] = r
      <4>1. pass'[q] = pass[q] /\ (pass[q].pc = "remap" => pass[q].prefix = new)
        BY <2>8, <2>10, <3>4 DEF Registered
      <4>2. OwnSettled(r)'
        BY <2>5, <2>8, <2>9 DEF OwnSettled
      <4>3. ASSUME r \notin raced, pass[q].pc = "remap"
            PROVE  Renamed(pass[q].exported, pass[q].asked, pass[q].prefix) = Renamed(ops'[r], pass[q].asked, pass[q].prefix)
        <5>1. pass[q].asked = old /\ pass[q].prefix = new
          BY <2>3, <2>8, <3>1, <3>4, <4>1, <4>3 DEF PassSettled, NoPass
        <5>2. Renamed(pass[q].exported, old, new) = Renamed(log, old, new)
          BY <2>8, <3>1, <3>4, <4>3, <5>1 DEF PassSettled
        <5>3. Renamed(Renamed(log, old, new), old, new) = Renamed(log, old, new)
          BY <2>1, <2>3, RenamedTwice
        <5> QED
          BY <2>9, <4>3, <5>1, <5>2, <5>3
      <4>4. \A o \in ops'[r] : o.by = r => o.prefix = uuid'[r]
        BY <2>5, <2>8, <2>9
      <4> QED
        BY <2>5, <2>11, <3>1, <3>4, <4>1, <4>2, <4>3, <4>4 DEF PassSettled, Stale
    <3> QED
      BY <3>2, <3>3, <3>4
  <2> QED
    BY <2>5, <2>12, <2>13 DEF Settled
<1>6. ASSUME NEW p \in Processes, Adopt(p)
      PROVE  Settled'
  <2> DEFINE r == Home[p]
  <2>1. pass[p] \in PassType /\ pass[p].pc = "adopt" /\ pass[p].prefix = uuid[r] /\ r \in Replicas
    BY <1>6 DEF Adopt, NoPass, Types, Registered
  <2>2. OwnSettled(r) /\ pass[p].asked \in {Minted[r], uuid[r]}
    BY <2>1 DEF Settled, PassSettled, NoPass
  <2>3. /\ toml' = [toml EXCEPT ![r] = uuid[r]] /\ pass' = [pass EXCEPT ![p] = [pass[p] EXCEPT !.pc = "push"]]
        /\ UNCHANGED <<uuid, ops, views, pushed, raced>>
    BY <1>6, <2>1 DEF Adopt
  <2>4. /\ \A q \in Processes \ {p} : pass'[q] = pass[q]
        /\ pass'[p].pc = "push" /\ pass'[p].asked = pass[p].asked
        /\ toml'[r] = uuid[r] /\ \A q \in Replicas \ {r} : toml'[q] = toml[q]
    BY <2>1, <2>3 DEF PassType, Types
  <2>5. ASSUME NEW q \in Replicas PROVE LogSettled(q)'
    <3>1. LogSettled(q)
      BY DEF Settled
    <3>2. CASE q = r
      BY <2>2, <2>3, <2>4, <3>1, <3>2 DEF LogSettled, OwnSettled, OwnOnly, PulledUnchanged
    <3>3. CASE q # r
      BY <2>3, <2>4, <3>1, <3>3 DEF LogSettled, OwnOnly, PulledUnchanged
    <3> QED
      BY <3>2, <3>3
  <2>6. ASSUME NEW q \in Processes PROVE PassSettled(pass[q], Home[q])'
    <3>1. PassSettled(pass[q], Home[q]) /\ Home[q] \in Replicas
      BY DEF Settled
    <3>2. CASE q = p
      BY <2>2, <2>3, <2>4, <3>2 DEF PassSettled, OwnSettled, Stale
    <3>3. CASE q # p
      BY <2>3, <2>4, <3>1, <3>3 DEF PassSettled, OwnSettled, OwnOnly, Stale
    <3> QED
      BY <3>2, <3>3
  <2> QED
    BY <2>3, <2>5, <2>6 DEF Settled
<1>7. ASSUME NEW p \in Processes, Push(p)
      PROVE  Settled'
  <2> DEFINE r == Home[p]
  <2>1. pass[p] \in PassType /\ pass[p].pc = "push" /\ r \in Replicas
    BY <1>7 DEF Push, NoPass, Types
  <2>2. PassSettled(pass[p], r)
    BY DEF Settled
  <2>3. /\ UNCHANGED <<uuid, toml, ops, views, raced>> /\ pass' = [pass EXCEPT ![p] = [pass[p] EXCEPT !.pc = "pull"]]
        /\ pushed \subseteq pushed' /\ \A o \in pushed' \ pushed : o \in ops[r] /\ o.by = r
    BY <1>7 DEF Push
  <2>4. \A o \in pushed' : o.prefix = uuid'[o.by]
    <3>1. \A o \in ops[r] : o.by = r => o.prefix = uuid[r]
      BY <2>1, <2>2 DEF PassSettled, OwnSettled
    <3> QED
      BY <2>3, <3>1 DEF Settled
  <2>5. ASSUME NEW q \in Replicas PROVE LogSettled(q)'
    <3>1. LogSettled(q)
      BY DEF Settled
    <3> QED
      BY <2>3, <3>1 DEF LogSettled, OwnOnly, PulledUnchanged
  <2>6. /\ \A q \in Processes \ {p} : pass'[q] = pass[q]
        /\ pass'[p].pc = "pull" /\ pass'[p].asked = pass[p].asked
    BY <2>1, <2>3 DEF PassType, Types
  <2>7. ASSUME NEW q \in Processes PROVE PassSettled(pass[q], Home[q])'
    <3>1. CASE q = p
      BY <2>1, <2>2, <2>3, <2>6, <3>1 DEF PassSettled, OwnSettled, Stale, NoPass
    <3>2. CASE q # p
      BY <2>3, <2>6, <3>2, PassStands
    <3> QED
      BY <3>1, <3>2
  <2> QED
    BY <2>4, <2>5, <2>7 DEF Settled
<1>8. ASSUME NEW p \in Processes, Pull(p)
      PROVE  Settled'
  <2> DEFINE r == Home[p]
  <2>1. PICK page \in SUBSET pushed : /\ ops' = [ops EXCEPT ![r] = @ \cup page]
                                      /\ views' = [views EXCEPT ![r] = @ \cup page]
    BY <1>8 DEF Pull
  <2>2. /\ UNCHANGED <<uuid, toml, pushed, pass>> /\ pass[p].pc = "pull" /\ r \in Replicas
        /\ raced \subseteq raced' /\ raced' \subseteq raced \cup {r}
        /\ r \notin raced' => \A q \in Processes : Home[q] = r => ~Stale(pass[q], r)
    BY <1>8 DEF Pull
  <2>3. /\ ops'[r] = ops[r] \cup page /\ views'[r] = views[r] \cup page
        /\ \A q \in Replicas \ {r} : ops'[q] = ops[q] /\ views'[q] = views[q]
    BY <2>1, <2>2 DEF Types
  <2>4. toml[r] = uuid[r]
    BY <2>2 DEF Settled, PassSettled
  <2>5. \A o \in page : o \in pushed /\ (o.by = r => o.prefix = uuid[r])
    BY DEF Settled
  <2>6. ASSUME NEW q \in Replicas PROVE LogSettled(q)'
    <3>1. LogSettled(q)
      BY DEF Settled
    <3>2. CASE q = r
      BY <2>2, <2>3, <2>4, <2>5, <3>1, <3>2 DEF LogSettled, PulledUnchanged
    <3>3. CASE q # r
      BY <2>2, <2>3, <3>1, <3>3 DEF LogSettled, OwnOnly, PulledUnchanged
    <3> QED
      BY <3>2, <3>3
  <2>7. ASSUME NEW q \in Processes PROVE PassSettled(pass[q], Home[q])'
    <3>1. PassSettled(pass[q], Home[q]) /\ Home[q] \in Replicas
      BY DEF Settled
    <3>2. CASE Home[q] # r
      BY <2>2, <2>3, <3>1, <3>2 DEF PassSettled, OwnSettled, OwnOnly, Stale
    <3>3. CASE Home[q] = r
      <4>1. r \notin raced' => ~Stale(pass[q], r)
        BY <2>2, <3>3
      <4>2. r \notin raced' => pass[q].pc # "remap"
        <5>1. pass[q].pc = "remap" => pass[q] # NoPass /\ pass[q].asked # uuid[r]
          BY <3>1, <3>3 DEF PassSettled, Registered, NoPass
        <5> QED
          BY <4>1, <5>1 DEF Stale
      <4>3. OwnSettled(r) => OwnSettled(r)'
        BY <2>2, <2>3, <2>5 DEF OwnSettled
      <4>4. r \notin raced' => ~Stale(pass[q], r)'
        BY <2>2, <4>1 DEF Stale
      <4> QED
        BY <2>2, <2>3, <2>5, <3>1, <3>3, <4>2, <4>3, <4>4 DEF PassSettled
    <3> QED
      BY <3>2, <3>3
  <2> QED
    BY <2>2, <2>6, <2>7 DEF Settled
<1> QED
  BY <1>1, <1>2, <1>3, <1>4, <1>5, <1>6, <1>7, <1>8 DEF Next

\* ------------------------------------------------------------------- theorems

\* IInv is an inductive invariant.
LEMMA Invariant == Spec => []IInv
<1>1. IInv /\ [Next]_vars => IInv'
  <2> SUFFICES ASSUME IInv, [Next]_vars PROVE IInv'
    OBVIOUS
  <2>1. CASE Next
    <3>1. Types' /\ Registered'
      BY <2>1, TypesStep, RegisteredStep, ZenonT(60) DEF IInv
    <3>2. Writers' = Writers
      BY <2>1 DEF Next, OpenWorkspace, Create, Begin, Lookup, TryClaim, ResolveRace, Answered, Remap, Adopt, Push,
                  Pull, EndPass, PassFails, Writers
    <3>3. Kept'
      BY <2>1, <3>1, <3>2, SettledStep DEF IInv, Kept
    <3> QED
      BY <3>1, <3>3 DEF IInv
  <2>2. CASE UNCHANGED vars
    <3>1. Types' /\ Registered'
      BY <2>2 DEF vars, IInv, Types, Registered, Candidates
    <3>2. Settled => Settled'
      <4> SUFFICES ASSUME Settled PROVE Settled'
        OBVIOUS
      <4>1. \A r \in Replicas : LogSettled(r)'
        BY <2>2, LogsStand DEF vars
      <4>2. \A p \in Processes : PassSettled(pass[p], Home[p])'
        BY <2>2, PassStands DEF vars
      <4> QED
        BY <2>2, <4>1, <4>2 DEF vars, Settled
    <3> QED
      BY <2>2, <3>1, <3>2 DEF vars, IInv, Kept, Writers
  <2> QED
    BY <2>1, <2>2
<1> QED
  BY <1>1, InitIInv, PTL DEF Spec

\* Every request of a replica is told one and the same prefix, whatever its
\* requests lost, repeated or ran at the same time (PrefixRegistry::register).
THEOREM OneAnswerPerReplica == Spec => []OneAnswer
<1>1. IInv => OneAnswer
  <2> SUFFICES ASSUME IInv, NEW r \in Replicas PROVE Cardinality(answers[r]) <= 1
    BY DEF OneAnswer
  <2>1. answers[r] \subseteq {uuid[r]}
    BY DEF IInv, Registered
  <2>2. IsFiniteSet({uuid[r]}) /\ Cardinality({uuid[r]}) = 1
    BY FS_Singleton
  <2> QED
    BY <2>1, <2>2, FS_Subset
<1> QED
  BY <1>1, Invariant, PTL

\* What a replica writes and shows is under the prefix that is its own on the
\* stream and what it pulled is left alone (adopt_prefix, remap_prefix), through
\* every race for a prefix and a remap that is interrupted or done by two
\* passes, where nothing is written during a pass; the views and the pulled ops
\* where no page was applied while another pass was still to remap.
THEOREM PrefixesAreKept == Spec => []PrefixIsKept
<1>1. IInv => PrefixIsKept
  <2> SUFFICES ASSUME IInv PROVE PrefixIsKept
    OBVIOUS
  <2>1. TypeOK
    <3>1. \A p \in Processes : pass[p] = NoPass \/ pass[p].attempt \in 0..Len(Candidates[Home[p]])
      <4> SUFFICES ASSUME NEW p \in Processes, pass[p] # NoPass
                   PROVE  pass[p].attempt \in 0..Len(Candidates[Home[p]])
        OBVIOUS
      <4>1. Candidates[Home[p]] \in Seq(Prefixes)
        BY CandidatesType, HomeAssumption DEF IInv
      <4> QED
        BY <4>1 DEF IInv, Types, PassType
    <3> QED
      BY <3>1 DEF IInv, Types, TypeOK
  <2>2. OwnPrefixOnly
    <3> SUFFICES ASSUME Writers = "quiet", NEW o \in pushed PROVE owner[o.prefix] = o.by
      BY DEF OwnPrefixOnly
    <3>1. o.by \in Replicas /\ o.prefix \in Prefixes /\ o.prefix = uuid[o.by]
      BY DEF IInv, Types, Kept, Settled, Op
    <3> QED
      BY <3>1, NoneAssumption DEF IInv, Registered
  <2>3. ViewsAgree /\ PulledAsSent
    BY DEF IInv, Kept, Settled, LogSettled, ViewsAgree, PulledAsSent
  <2> QED
    BY <2>1, <2>2, <2>3 DEF PrefixIsKept
<1> QED
  BY <1>1, Invariant, PTL
=============================================================================
