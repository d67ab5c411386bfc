------------------------ MODULE SessionBackendProofs ------------------------
(* Proofs about SessionBackend, for any number of hosts, processes and lines. *)
(* spawn.json is the lock that no crash gives back, the offset is behind what *)
(* was enqueued, and a confirmed end is stable: those three make the          *)
(* invariant.                                                                 *)
EXTENDS SessionBackend, WellFoundedInduction, TLAPS

\* ----------------------------------------------------------------------- types

ProcState == {"up", "lingering", "gone"}
FactKind == {"fact", "ended", "lost", "group_lingering"}
HostPc == {"idle", "claim", "write", "spawn", "record", "look", "read", "enqueue", "alive"}
HostType == [pc : HostPc, cached : Int, started : BOOLEAN, proc : Nat, confirmed : BOOLEAN,
             batch : SUBSET Nat, next : Nat, quiet : BOOLEAN]

Types ==
  /\ given \in DOMAIN Settings
  /\ spawn \in {"none", "empty", "fresh", "old"} /\ child \in Nat
  /\ procs \in Seq(ProcState) /\ facts \in Seq(FactKind) /\ said \in BOOLEAN
  /\ offset \in Nat /\ slot \in {"live", "stopping", "ended"}
  /\ host \in [Host -> HostType] /\ overtaken \in BOOLEAN

\* --------------------------------------------------------------- the invariant

\* What a host holds names lines f and processes p that are there.
HostBound(r, f, p) ==
  /\ NoCache <= r.cached /\ r.cached <= Len(f) /\ r.next <= Len(f) /\ r.batch \subseteq DOMAIN f
  /\ r.pc = "record" => r.proc \in DOMAIN p

Bounds ==
  /\ child <= Len(procs) /\ Len(procs) <= MaxProcs
  /\ offset <= Len(facts) /\ keys \subseteq DOMAIN facts \cup {Stopped, StartLost}
  /\ \A h \in Host : HostBound(host[h], facts, procs)

\* Every line of f up to n is among the keys ks.
Told(n, f, ks) == \A line \in DOMAIN f : line <= n => line \in ks

\* Everything up to an offset is in the inbox, or in the hands of the host that is about to move its offset there.
HostDrain(r, f, ks, sl) ==
  /\ Told(r.cached, f, ks)
  /\ r.pc = "enqueue" => Told(r.next, f, ks \cup r.batch)
  /\ r.pc # "enqueue" => r.batch = {}
  /\ r.pc = "alive" => sl # "live"
  /\ \A n \in r.batch : IsEnd(f[n]) => r.confirmed

DrainInv == Told(offset, facts, keys) /\ \A h \in Host : HostDrain(host[h], facts, keys, slot)

\* Whoever is about to spawn holds the claim, and is alone in that; a claim is given back only before the spawn.
SpawnInv ==
  /\ spawn \in {"none", "empty"} => procs = <<>>
  /\ \A h \in Host : host[h].pc = "write" => spawn = "empty"
  /\ \A h \in Host : host[h].pc = "spawn" => spawn = "fresh" /\ procs = <<>>
  /\ \A h, g \in Host : host[h].pc \in {"write", "spawn"} /\ host[g].pc \in {"write", "spawn"} => h = g
  /\ Len(procs) <= 1
  /\ \A p \in DOMAIN procs : /\ spawn = "old" /\ procs[p] = "up" => child = p
                             /\ procs[p] = "lingering" => child # NoProc

\* The process is gone, and there was one.
AllGone == procs # <<>> /\ \A p \in DOMAIN procs : procs[p] = "gone"

\* What has been seen to end has ended; where alive answered for a slot that had no claim, no claim was written since.
EndInv ==
  /\ \A h \in Host : host[h].confirmed => AllGone
  /\ \A k \in keys : k \in DOMAIN facts /\ IsEnd(facts[k]) => AllGone
  /\ Stopped \in keys => \/ overtaken
                         \/ /\ slot # "live" /\ \A p \in DOMAIN procs : procs[p] = "gone"
                            /\ \A h \in Host : host[h].pc # "spawn"

IInv == Types /\ Bounds /\ DrainInv /\ (~RecordFails => SpawnInv /\ EndInv)

\* ----------------------------------------------------------------------- facts

\* Lines are only added.
Grown(f, g) == Len(f) <= Len(g) /\ DOMAIN f \subseteq DOMAIN g /\ \A n \in DOMAIN f : g[n] = f[n]

\* A line more leaves the others.
LEMMA AppendGrows ==
  ASSUME NEW S, NEW f \in Seq(S), NEW e \in S
  PROVE  /\ Append(f, e) \in Seq(S) /\ Grown(f, Append(f, e)) /\ Append(f, e)[Len(f) + 1] = e
         /\ DOMAIN Append(f, e) = 1..(Len(f) + 1) /\ DOMAIN f = 1..Len(f) /\ Len(f) \in Nat
         /\ Len(Append(f, e)) = Len(f) + 1
BY DEF Grown

\* The settings are what they are.
LEMMA Given ==
  ASSUME given' = given
  PROVE  RecordFails' = RecordFails /\ MaxProcs' = MaxProcs
BY DEF RecordFails, MaxProcs

\* A host that does nothing keeps what it has while lines and keys are added.
LEMMA HostStays ==
  ASSUME NEW r \in HostType, NEW f \in Seq(FactKind), NEW f2 \in Seq(FactKind), NEW p \in Seq(ProcState), NEW p2 \in Seq(ProcState),
         NEW ks, NEW ks2, NEW s, NEW s2, HostBound(r, f, p), HostDrain(r, f, ks, s),
         Grown(f, f2), DOMAIN p \subseteq DOMAIN p2, ks \subseteq ks2, s # "live" => s2 # "live"
  PROVE  HostBound(r, f2, p2) /\ HostDrain(r, f2, ks2, s2)
<1>1. Len(f) \in Nat /\ Len(f2) \in Nat /\ DOMAIN f = 1..Len(f) /\ DOMAIN f2 = 1..Len(f2) /\ Len(f) <= Len(f2)
  BY DEF Grown
<1>2. r.cached \in Int /\ r.next \in Nat
  BY DEF HostType
<1>3. HostBound(r, f2, p2)
  BY <1>1, <1>2 DEF HostBound, Grown, NoCache
<1>4. \A n \in Int : n <= Len(f) /\ Told(n, f, ks) => Told(n, f2, ks2)
  BY <1>1 DEF Told
<1>5. \A n \in Int : n <= Len(f) /\ Told(n, f, ks \cup r.batch) => Told(n, f2, ks2 \cup r.batch)
  BY <1>1 DEF Told
<1>6. \A n \in r.batch : n \in DOMAIN f /\ f2[n] = f[n]
  BY DEF HostBound, Grown
<1>7. Told(r.cached, f2, ks2) /\ (r.pc = "enqueue" => Told(r.next, f2, ks2 \cup r.batch))
  <2>1. r.cached <= Len(f) /\ r.next <= Len(f) /\ r.next \in Int
    BY <1>2 DEF HostBound
  <2>2. Told(r.cached, f, ks) /\ (r.pc = "enqueue" => Told(r.next, f, ks \cup r.batch))
    BY DEF HostDrain
  <2> QED
    BY <1>2, <1>4, <1>5, <2>1, <2>2, Zenon
<1>8. \A n \in r.batch : IsEnd(f2[n]) => r.confirmed
  BY <1>6, Zenon DEF HostDrain
<1>9. (r.pc # "enqueue" => r.batch = {}) /\ (r.pc = "alive" => s2 # "live")
  BY DEF HostDrain
<1> QED
  BY <1>3, <1>7, <1>8, <1>9, Zenon DEF HostDrain

\* The invariant after a step in which one host moved at most.
LEMMA Moves ==
  ASSUME IInv, NEW h \in Host, NEW new \in HostType, host' = [host EXCEPT ![h] = new], given' = given,
         overtaken' \in BOOLEAN, spawn' \in {"none", "empty", "fresh", "old"}, child' \in Nat, procs' \in Seq(ProcState), facts' \in Seq(FactKind),
         said' \in BOOLEAN, offset' \in Nat, slot' \in {"live", "stopping", "ended"},
         child' <= Len(procs'), Len(procs') <= MaxProcs, offset' <= Len(facts'),
         keys' \subseteq DOMAIN facts' \cup {Stopped, StartLost}, Told(offset', facts', keys'),
         HostBound(new, facts', procs'), HostDrain(new, facts', keys', slot'),
         Grown(facts, facts'), DOMAIN procs \subseteq DOMAIN procs', keys \subseteq keys', slot # "live" => slot' # "live",
         ~RecordFails => SpawnInv' /\ EndInv'
  PROVE  IInv'
<1>1. Types /\ Bounds /\ DrainInv /\ host \in [Host -> HostType] /\ facts \in Seq(FactKind) /\ procs \in Seq(ProcState)
  BY DEF IInv, Types
<1>2. host' \in [Host -> HostType] /\ \A g \in Host : host'[g] = IF g = h THEN new ELSE host[g]
  BY <1>1
<1>3. Types'
  BY <1>1, <1>2 DEF Types
<1>4. \A g \in Host : HostBound(host'[g], facts', procs') /\ HostDrain(host'[g], facts', keys', slot')
  <2> TAKE g \in Host
  <2>1. CASE g = h
    BY <1>2, <2>1
  <2>2. CASE g # h
    <3>1. host[g] \in HostType /\ HostBound(host[g], facts, procs) /\ HostDrain(host[g], facts, keys, slot) /\ host'[g] = host[g]
      BY <1>1, <1>2, <2>2 DEF Bounds, DrainInv
    <3> QED
      BY <1>1, <3>1, HostStays
  <2> QED
    BY <2>1, <2>2
<1>5. Bounds' /\ DrainInv'
  BY <1>4, Given DEF Bounds, DrainInv
<1> QED
  BY <1>3, <1>5, Given DEF IInv

\* A step in which no host moves: the same with the host as it was.
LEMMA Rests ==
  ASSUME IInv, UNCHANGED <<host, overtaken, given>>,
         spawn' \in {"none", "empty", "fresh", "old"}, child' \in Nat, procs' \in Seq(ProcState), facts' \in Seq(FactKind),
         slot' \in {"live", "stopping", "ended"}, UNCHANGED <<said, offset, keys>>,
         child' <= Len(procs'), Len(procs') <= MaxProcs,
         Grown(facts, facts'), DOMAIN procs \subseteq DOMAIN procs', slot # "live" => slot' # "live",
         ~RecordFails => SpawnInv' /\ EndInv'
  PROVE  IInv'
<1>1. Types /\ Bounds /\ DrainInv /\ host \in [Host -> HostType] /\ facts \in Seq(FactKind) /\ procs \in Seq(ProcState)
  BY DEF IInv, Types
<1>2. Types'
  BY <1>1 DEF Types
<1>3. \A g \in Host : HostBound(host[g], facts', procs') /\ HostDrain(host[g], facts', keys, slot')
  <2> TAKE g \in Host
  <2>1. host[g] \in HostType /\ HostBound(host[g], facts, procs) /\ HostDrain(host[g], facts, keys, slot)
    BY <1>1 DEF Bounds, DrainInv
  <2> QED
    BY <1>1, <2>1, HostStays
<1>4. offset <= Len(facts') /\ keys \subseteq DOMAIN facts' \cup {Stopped, StartLost} /\ Told(offset, facts', keys)
  <2>1. Len(facts) \in Nat /\ Len(facts') \in Nat /\ DOMAIN facts = 1..Len(facts) /\ DOMAIN facts' = 1..Len(facts') /\ offset \in Nat
    BY <1>1 DEF Types
  <2> QED
    BY <1>1, <2>1 DEF Bounds, DrainInv, Told, Grown
<1>5. Bounds' /\ DrainInv'
  BY <1>3, <1>4, Given DEF Bounds, DrainInv
<1> QED
  BY <1>2, <1>5, Given DEF IInv

\* Nobody comes to spawn.
LEMMA SpawnSame ==
  ASSUME SpawnInv, UNCHANGED <<spawn, procs, child>>,
         \A g \in Host : host'[g].pc \in {"write", "spawn"} => host'[g].pc = host[g].pc
  PROVE  SpawnInv'
BY DEF SpawnInv

\* What is said to have ended has ended.
LEMMA EndSame ==
  ASSUME EndInv, UNCHANGED procs, slot # "live" => slot' # "live", overtaken => overtaken',
         \A g \in Host : host'[g].confirmed => host[g].confirmed \/ AllGone,
         \A g \in Host : host'[g].pc = "spawn" => host[g].pc = "spawn" \/ slot = "live" \/ overtaken',
         \A k \in keys' : k \in DOMAIN facts' /\ IsEnd(facts'[k]) => AllGone \/ (k \in keys /\ k \in DOMAIN facts /\ IsEnd(facts[k])),
         Stopped \in keys' => \/ Stopped \in keys
                              \/ /\ slot' # "live" /\ \A p \in DOMAIN procs : procs[p] = "gone"
                                 /\ \A g \in Host : host'[g].pc # "spawn"
  PROVE  EndInv'
<1>1. AllGone' <=> AllGone
  BY DEF AllGone
<1>2. \A h \in Host : host'[h].confirmed => AllGone
  BY DEF EndInv
<1>3. \A k \in keys' : k \in DOMAIN facts' /\ IsEnd(facts'[k]) => AllGone
  BY DEF EndInv
<1>4. Stopped \in keys' => \/ overtaken'
                           \/ /\ slot' # "live" /\ \A p \in DOMAIN procs : procs[p] = "gone"
                              /\ \A g \in Host : host'[g].pc # "spawn"
  BY DEF EndInv
<1> QED
  BY <1>1, <1>2, <1>3, <1>4 DEF EndInv, IsEnd

\* What the invariant says of one host, and what a step that leaves the files alone may rely on.
LEMMA AtHost ==
  ASSUME IInv, NEW h \in Host
  PROVE  /\ Types /\ Bounds /\ DrainInv /\ (~RecordFails => SpawnInv /\ EndInv)
         /\ host \in [Host -> HostType] /\ host[h] \in HostType
         /\ HostBound(host[h], facts, procs) /\ HostDrain(host[h], facts, keys, slot)
         /\ Grown(facts, facts) /\ DOMAIN facts = 1..Len(facts) /\ Len(facts) \in Nat
         /\ DOMAIN procs = 1..Len(procs) /\ Len(procs) \in Nat
         /\ given \in DOMAIN Settings /\ spawn \in {"none", "empty", "fresh", "old"} /\ child \in Nat
         /\ procs \in Seq(ProcState) /\ facts \in Seq(FactKind) /\ said \in BOOLEAN
         /\ offset \in Nat /\ slot \in {"live", "stopping", "ended"} /\ overtaken \in BOOLEAN
         /\ child <= Len(procs) /\ Len(procs) <= MaxProcs /\ offset <= Len(facts)
         /\ keys \subseteq DOMAIN facts \cup {Stopped, StartLost} /\ Told(offset, facts, keys)
<1>1. Types /\ Bounds /\ DrainInv /\ (~RecordFails => SpawnInv /\ EndInv)
  BY DEF IInv
<1>2. /\ given \in DOMAIN Settings /\ spawn \in {"none", "empty", "fresh", "old"} /\ child \in Nat
      /\ procs \in Seq(ProcState) /\ facts \in Seq(FactKind) /\ said \in BOOLEAN
      /\ offset \in Nat /\ slot \in {"live", "stopping", "ended"} /\ host \in [Host -> HostType] /\ overtaken \in BOOLEAN
  BY <1>1 DEF Types
<1>3. Len(facts) \in Nat /\ DOMAIN facts = 1..Len(facts) /\ DOMAIN procs = 1..Len(procs) /\ Len(procs) \in Nat
  BY <1>2
<1>4. Grown(facts, facts)
  BY <1>3 DEF Grown
<1> QED
  BY <1>1, <1>2, <1>3, <1>4 DEF Bounds, DrainInv

\* -------------------------------------------------------------------- starting

\* A host claims the key, or finds it claimed.
LEMMA ClaimSpawnKeeps ==
  ASSUME IInv, NEW h \in Host, ClaimSpawn(h)
  PROVE  IInv'
<1> DEFINE pc == IF spawn = "none" THEN "write" ELSE "look"
           new == [host[h] EXCEPT !.pc = pc]
<1>1. UNCHANGED <<child, procs, facts, said, offset, keys, slot, overtaken, given>> /\ host[h].pc = "claim"
  BY DEF ClaimSpawn
<1>2. host' = [host EXCEPT ![h] = new] /\ spawn' = (IF spawn = "none" THEN "empty" ELSE spawn)
  BY DEF ClaimSpawn, Goto
<1>3. host[h] \in HostType /\ host \in [Host -> HostType]
  BY AtHost
<1>4. /\ new \in HostType /\ new.pc = pc /\ new.cached = host[h].cached /\ new.next = host[h].next
      /\ new.batch = host[h].batch /\ new.confirmed = host[h].confirmed
  BY <1>3 DEF HostType, HostPc
<1> HIDE DEF new
<1>5. \A g \in Host : host'[g] = IF g = h THEN new ELSE host[g]
  BY <1>2, <1>3
<1>6. HostBound(new, facts, procs)
  BY <1>4, AtHost DEF HostBound
<1>7. HostDrain(new, facts, keys, slot)
  BY <1>1, <1>4, AtHost DEF HostDrain
<1>8. ASSUME ~RecordFails PROVE SpawnInv' /\ EndInv'
  <2>1. SpawnInv /\ EndInv
    BY <1>8, AtHost
  <2>2. SpawnInv'
    BY <1>1, <1>2, <1>4, <1>5, <2>1 DEF SpawnInv
  <2>3. EndInv'
    BY <1>1, <1>4, <1>5, <2>1, EndSame DEF EndInv
  <2> QED
    BY <2>2, <2>3
<1>9. spawn' \in {"none", "empty", "fresh", "old"}
  BY <1>2, AtHost
<1> HIDE DEF pc
<1> QED
  BY <1>1, <1>2, <1>4, <1>6, <1>7, <1>8, <1>9, AtHost, Moves

\* Its record is written, before the stop of the session began or after it.
LEMMA WriteClaimKeeps ==
  ASSUME IInv, NEW h \in Host, WriteClaim(h)
  PROVE  IInv'
<1> DEFINE new == [host[h] EXCEPT !.pc = "spawn"]
<1>1. UNCHANGED <<child, procs, facts, said, offset, keys, slot, given>> /\ host[h].pc = "write"
  BY DEF WriteClaim
<1>2. host' = [host EXCEPT ![h] = new] /\ spawn' = "fresh" /\ overtaken' = (overtaken \/ slot # "live")
  BY DEF WriteClaim, Goto
<1>3. host[h] \in HostType /\ host \in [Host -> HostType] /\ overtaken \in BOOLEAN
  BY AtHost
<1>4. /\ new \in HostType /\ new.pc = "spawn" /\ new.cached = host[h].cached /\ new.next = host[h].next
      /\ new.batch = host[h].batch /\ new.confirmed = host[h].confirmed
  BY <1>3 DEF HostType, HostPc
<1> HIDE DEF new
<1>5. \A g \in Host : host'[g] = IF g = h THEN new ELSE host[g]
  BY <1>2, <1>3
<1>6. HostBound(new, facts, procs)
  BY <1>4, AtHost DEF HostBound
<1>7. HostDrain(new, facts, keys, slot)
  BY <1>1, <1>4, AtHost DEF HostDrain
<1>8. ASSUME ~RecordFails PROVE SpawnInv' /\ EndInv'
  <2>1. SpawnInv /\ EndInv
    BY <1>8, AtHost
  <2>2. procs = <<>> /\ \A g \in Host : g # h => host[g].pc \notin {"write", "spawn"}
    BY <1>1, <2>1 DEF SpawnInv
  <2>3. SpawnInv'
    BY <1>1, <1>2, <1>4, <1>5, <2>1, <2>2 DEF SpawnInv
  <2>4. \A g \in Host : host'[g].pc = "spawn" => host[g].pc = "spawn" \/ slot = "live" \/ overtaken'
    BY <1>2, <1>5
  <2>5. EndInv'
    BY <1>1, <1>2, <1>4, <1>5, <2>1, <2>4, EndSame
  <2> QED
    BY <2>3, <2>5
<1>9. overtaken' \in BOOLEAN
  BY <1>2
<1> QED
  BY <1>1, <1>2, <1>4, <1>6, <1>7, <1>8, <1>9, AtHost, Moves

\* The process is spawned, or the claim is given back before there is one.
LEMMA TrySpawnKeeps ==
  ASSUME IInv, NEW h \in Host, TrySpawn(h)
  PROVE  IInv'
<1>1. UNCHANGED <<child, facts, said, offset, keys, slot, overtaken, given>> /\ host[h].pc = "spawn"
  BY DEF TrySpawn
<1>2. host[h] \in HostType /\ host \in [Host -> HostType] /\ procs \in Seq(ProcState)
  BY AtHost
<1>3. ASSUME Len(procs) < MaxProcs, procs' = Append(procs, "up"), UNCHANGED spawn,
             host' = [host EXCEPT ![h].pc = "record", ![h].proc = Len(procs) + 1]
      PROVE  IInv'
  <2> DEFINE new == [host[h] EXCEPT !.pc = "record", !.proc = Len(procs) + 1]
  <2>1. host' = [host EXCEPT ![h] = new]
    BY <1>2, <1>3
  <2>2. /\ procs' \in Seq(ProcState) /\ DOMAIN procs' = 1..(Len(procs) + 1) /\ DOMAIN procs = 1..Len(procs) /\ Len(procs) \in Nat
        /\ Len(procs') = Len(procs) + 1 /\ Len(procs) + 1 \in Nat
    BY <1>2, <1>3, AppendGrows DEF ProcState
  <2>3. /\ new \in HostType /\ new.pc = "record" /\ new.cached = host[h].cached /\ new.next = host[h].next
        /\ new.batch = host[h].batch /\ new.confirmed = host[h].confirmed /\ new.proc = Len(procs) + 1
    BY <1>2, <2>2 DEF HostType, HostPc
  <2> HIDE DEF new
  <2>4. \A g \in Host : host'[g] = IF g = h THEN new ELSE host[g]
    BY <1>2, <2>1
  <2>5. HostBound(new, facts, procs')
    BY <2>2, <2>3, AtHost DEF HostBound
  <2>6. HostDrain(new, facts, keys, slot)
    BY <1>1, <2>3, AtHost DEF HostDrain
  <2>7. ASSUME ~RecordFails PROVE SpawnInv' /\ EndInv'
    <3>1. SpawnInv /\ EndInv
      BY <2>7, AtHost
    <3>2. procs = <<>> /\ spawn = "fresh" /\ (\A g \in Host : g # h => host[g].pc \notin {"write", "spawn"}) /\ Len(procs) = 0
      BY <1>1, <3>1 DEF SpawnInv
    <3>3. DOMAIN procs' = {1} /\ procs'[1] = "up" /\ Len(procs') = 1
      BY <1>3, <2>2, <3>2
    <3>4. SpawnInv'
      <4>1. (\A g \in Host : host'[g].pc \notin {"write", "spawn"}) /\ spawn' = "fresh"
        BY <1>3, <2>3, <2>4, <3>2
      <4>2. \A p \in DOMAIN procs' : procs'[p] = "up"
        BY <3>3
      <4> QED
        BY <3>3, <4>1, <4>2 DEF SpawnInv
    <3>5. ~AllGone
      BY <3>2 DEF AllGone
    <3>6. /\ \A g \in Host : ~host'[g].confirmed
          /\ \A k \in keys' : ~(k \in DOMAIN facts' /\ IsEnd(facts'[k]))
          /\ Stopped \in keys' => overtaken'
      BY <1>1, <2>3, <2>4, <3>1, <3>5 DEF EndInv
    <3>7. EndInv'
      BY <3>6 DEF EndInv, IsEnd
    <3> QED
      BY <3>4, <3>7
  <2>8. child' <= Len(procs') /\ Len(procs') <= MaxProcs /\ child' \in Nat
    <3>1. child \in Nat /\ child <= Len(procs) /\ MaxProcs \in Nat
      BY AtHost, SettingsAssumption DEF MaxProcs
    <3> QED
      BY <1>1, <1>3, <2>2, <3>1
  <2>9. DOMAIN procs \subseteq DOMAIN procs'
    BY <2>2
  <2> QED
    BY <1>1, <1>3, <2>1, <2>2, <2>3, <2>5, <2>6, <2>7, <2>8, <2>9, AtHost, Moves
<1>4. ASSUME spawn' = "none", UNCHANGED procs, host' = [host EXCEPT ![h].pc = "idle"]
      PROVE  IInv'
  <2> DEFINE new == [host[h] EXCEPT !.pc = "idle"]
  <2>1. host' = [host EXCEPT ![h] = new]
    BY <1>4
  <2>2. /\ new \in HostType /\ new.pc = "idle" /\ new.cached = host[h].cached /\ new.next = host[h].next
        /\ new.batch = host[h].batch /\ new.confirmed = host[h].confirmed
    BY <1>2 DEF HostType, HostPc
  <2> HIDE DEF new
  <2>3. \A g \in Host : host'[g] = IF g = h THEN new ELSE host[g]
    BY <1>2, <2>1
  <2>4. HostBound(new, facts, procs)
    BY <2>2, AtHost DEF HostBound
  <2>5. HostDrain(new, facts, keys, slot)
    BY <1>1, <2>2, AtHost DEF HostDrain
  <2>6. ASSUME ~RecordFails PROVE SpawnInv' /\ EndInv'
    <3>1. SpawnInv /\ EndInv
      BY <2>6, AtHost
    <3>2. procs = <<>> /\ (\A g \in Host : g # h => host[g].pc \notin {"write", "spawn"})
      BY <1>1, <3>1 DEF SpawnInv
    <3>3. SpawnInv'
      BY <1>1, <1>4, <2>2, <2>3, <3>1, <3>2 DEF SpawnInv
    <3>4. EndInv'
      BY <1>1, <1>4, <2>2, <2>3, <3>1, EndSame
    <3> QED
      BY <3>3, <3>4
  <2> QED
    BY <1>1, <1>4, <2>1, <2>2, <2>4, <2>5, <2>6, AtHost, Moves
<1> QED
  BY <1>3, <1>4 DEF TrySpawn, Goto

\* The child is on record, or, where that may fail, the claim is given back beside it.
LEMMA RecordChildKeeps ==
  ASSUME IInv, NEW h \in Host, RecordChild(h)
  PROVE  IInv'
<1>1. UNCHANGED <<procs, facts, said, offset, keys, slot, overtaken, given>> /\ host[h].pc = "record"
  BY DEF RecordChild
<1>2. host[h] \in HostType /\ host \in [Host -> HostType] /\ host[h].proc \in DOMAIN procs /\ DOMAIN procs = 1..Len(procs) /\ Len(procs) \in Nat
  BY <1>1, AtHost DEF HostBound
<1>3. PICK b \in BOOLEAN : host' = [host EXCEPT ![h] = [host[h] EXCEPT !.pc = "idle", !.started = b]]
  <2>1. host[h].started \in BOOLEAN /\ [host EXCEPT ![h].pc = "idle"] = [host EXCEPT ![h] = [host[h] EXCEPT !.pc = "idle", !.started = host[h].started]]
    BY <1>2 DEF HostType
  <2>2. [host EXCEPT ![h].pc = "idle", ![h].started = TRUE] = [host EXCEPT ![h] = [host[h] EXCEPT !.pc = "idle", !.started = TRUE]]
    BY <1>2
  <2> QED
    BY <2>1, <2>2 DEF RecordChild, Goto
<1> DEFINE new == [host[h] EXCEPT !.pc = "idle", !.started = b]
<1>4. host' = [host EXCEPT ![h] = new]
  BY <1>3
<1>5. /\ new \in HostType /\ new.pc = "idle" /\ new.cached = host[h].cached /\ new.next = host[h].next
      /\ new.batch = host[h].batch /\ new.confirmed = host[h].confirmed
  BY <1>2 DEF HostType, HostPc
<1> HIDE DEF new
<1>6. \A g \in Host : host'[g] = IF g = h THEN new ELSE host[g]
  BY <1>2, <1>4
<1>7. HostBound(new, facts, procs)
  BY <1>5, AtHost DEF HostBound
<1>8. HostDrain(new, facts, keys, slot)
  BY <1>1, <1>5, AtHost DEF HostDrain
<1>9. /\ child' = child \/ (child = NoProc /\ child' = host[h].proc)
      /\ spawn' = spawn \/ (RecordFails /\ spawn' = "none")
  BY DEF RecordChild
<1>10. child' \in Nat /\ child' <= Len(procs)
  BY <1>2, <1>9, AtHost
<1>11. ASSUME ~RecordFails PROVE SpawnInv' /\ EndInv'
  <2>1. SpawnInv /\ EndInv /\ spawn' = spawn
    BY <1>9, <1>11, AtHost
  <2>2. child = NoProc => \A p \in DOMAIN procs : p = child'  \/ child' = child
    BY <1>2, <1>9, <2>1 DEF SpawnInv
  <2>3. SpawnInv'
    BY <1>1, <1>2, <1>5, <1>6, <1>9, <2>1, <2>2 DEF SpawnInv, NoProc
  <2>4. EndInv'
    BY <1>1, <1>5, <1>6, <2>1, EndSame
  <2> QED
    BY <2>3, <2>4
<1>12. spawn' \in {"none", "empty", "fresh", "old"}
  BY <1>9, AtHost
<1> QED
  BY <1>1, <1>4, <1>5, <1>7, <1>8, <1>10, <1>11, <1>12, AtHost, Moves

\* A step of one host that leaves the files and its claim alone, its keys and its offset apart.
LEMMA HostMoves ==
  ASSUME IInv, NEW h \in Host, NEW new \in HostType, host' = [host EXCEPT ![h] = new],
         UNCHANGED <<spawn, child, procs, facts, said, slot, overtaken, given>>, offset' \in Nat, offset' <= Len(facts),
         keys' \subseteq DOMAIN facts \cup {Stopped, StartLost}, keys \subseteq keys', Told(offset', facts, keys'),
         HostBound(new, facts, procs), HostDrain(new, facts, keys', slot), new.pc \notin {"write", "spawn"},
         ~RecordFails => EndInv'
  PROVE  IInv'
<1>1. host \in [Host -> HostType]
  BY AtHost
<1>2. \A g \in Host : host'[g] = IF g = h THEN new ELSE host[g]
  BY <1>1
<1>3. ~RecordFails => SpawnInv'
  BY <1>2, AtHost, SpawnSame
<1> QED
  BY <1>3, AtHost, Moves

\* A start that finds its key claimed looks at the child.
LEMMA LookAtChildKeeps ==
  ASSUME IInv, NEW h \in Host, LookAtChild(h)
  PROVE  IInv'
<1> DEFINE new == [host[h] EXCEPT !.pc = "idle", !.started = TRUE]
<1>1. UNCHANGED <<spawn, child, procs, facts, said, offset, slot, overtaken, given>> /\ host[h].pc = "look" /\ keys' \in {keys, keys \cup {StartLost}}
  BY DEF LookAtChild
<1>2. host[h] \in HostType /\ host \in [Host -> HostType] /\ DOMAIN facts = 1..Len(facts)
  BY AtHost
<1>3. host' = [host EXCEPT ![h] = new]
  BY <1>2 DEF LookAtChild
<1>4. /\ new \in HostType /\ new.pc = "idle" /\ new.cached = host[h].cached /\ new.next = host[h].next
      /\ new.batch = host[h].batch /\ new.confirmed = host[h].confirmed
  BY <1>2 DEF HostType, HostPc
<1> HIDE DEF new
<1>5. \A g \in Host : host'[g] = IF g = h THEN new ELSE host[g]
  BY <1>2, <1>3
<1>6. HostBound(new, facts, procs)
  BY <1>4, AtHost DEF HostBound
<1>7. HostDrain(new, facts, keys', slot) /\ Told(offset, facts, keys')
  BY <1>1, <1>4, AtHost DEF HostDrain, Told
<1>8. StartLost \notin DOMAIN facts /\ StartLost # Stopped
  BY <1>2 DEF StartLost, Stopped
<1>9. ASSUME ~RecordFails PROVE EndInv'
  BY <1>1, <1>4, <1>5, <1>8, <1>9, AtHost, EndSame
<1>10. keys \subseteq keys' /\ keys' \subseteq DOMAIN facts \cup {Stopped, StartLost}
  BY <1>1, AtHost
<1> QED
  BY <1>1, <1>3, <1>4, <1>6, <1>7, <1>9, <1>10, AtHost, HostMoves

\* -------------------------------------------------------------------- draining

\* A drain looks at the process before it reads, and adds a line where one is due.
LEMMA ObserveKeeps ==
  ASSUME IInv, NEW h \in Host, Observe(h)
  PROVE  IInv'
<1> DEFINE new == [host[h] EXCEPT !.pc = "read", !.cached = From(h), !.confirmed = (EndState = "confirmed")]
<1>1. UNCHANGED <<spawn, child, procs, offset, keys, slot, overtaken, given>> /\ host[h].pc = "idle"
  BY DEF Observe
<1>2. /\ host[h] \in HostType /\ host \in [Host -> HostType] /\ facts \in Seq(FactKind) /\ offset \in Nat /\ Len(facts) \in Nat
      /\ HostBound(host[h], facts, procs) /\ HostDrain(host[h], facts, keys, slot) /\ offset <= Len(facts) /\ Told(offset, facts, keys)
      /\ DOMAIN facts = 1..Len(facts)
  BY AtHost
<1>3. host' = [host EXCEPT ![h] = new]
  BY <1>2 DEF Observe
<1>4. From(h) \in Int /\ NoCache <= From(h) /\ From(h) <= Len(facts) /\ Told(From(h), facts, keys)
  BY <1>2 DEF From, HostBound, HostDrain, HostType, NoCache
<1>5. /\ new \in HostType /\ new.pc = "read" /\ new.cached = From(h) /\ new.next = host[h].next
      /\ new.batch = host[h].batch /\ (new.confirmed <=> EndState = "confirmed")
  BY <1>2, <1>4 DEF HostType, HostPc
<1> HIDE DEF new
<1>6. \A g \in Host : host'[g] = IF g = h THEN new ELSE host[g]
  BY <1>2, <1>3
<1>7. said' \in BOOLEAN
  <2>1. said' = TRUE \/ said' = said
    BY DEF Observe
  <2> QED
    BY <2>1, AtHost
<1>8. facts' = facts \/ \E e \in FactKind : facts' = Append(facts, e)
  BY DEF Observe, FactKind
<1>9. facts' \in Seq(FactKind) /\ Grown(facts, facts')
  <2>1. CASE facts' = facts
    BY <2>1, AtHost
  <2>2. ASSUME NEW e \in FactKind, facts' = Append(facts, e) PROVE facts' \in Seq(FactKind) /\ Grown(facts, facts')
    BY <1>2, <2>2, AppendGrows
  <2> QED
    BY <1>8, <2>1, <2>2
<1>10. HostBound(new, facts', procs)
  <2>1. Len(facts') \in Nat
    BY <1>9
  <2>2. host[h].next \in Nat
    BY <1>2 DEF HostType
  <2> QED
    BY <1>2, <1>4, <1>5, <1>9, <2>1, <2>2 DEF HostBound, Grown
<1>11. \A n \in Int : n <= Len(facts) /\ Told(n, facts, keys) => Told(n, facts', keys)
  BY <1>2, <1>9 DEF Told, Grown
<1>12. HostDrain(new, facts', keys, slot)
  <2>1. host[h].batch = {}
    BY <1>1, <1>2 DEF HostDrain
  <2> QED
    BY <1>4, <1>5, <1>11, <2>1 DEF HostDrain
<1>13. Told(offset, facts', keys) /\ offset <= Len(facts') /\ keys \subseteq DOMAIN facts' \cup {Stopped, StartLost}
  <2>1. Len(facts') \in Nat /\ keys \subseteq DOMAIN facts \cup {Stopped, StartLost}
    BY <1>9, AtHost
  <2> QED
    BY <1>2, <1>9, <1>11, <2>1 DEF Grown
<1>14. ASSUME ~RecordFails PROVE SpawnInv' /\ EndInv'
  <2>1. SpawnInv /\ EndInv /\ Len(procs) \in Nat /\ DOMAIN procs = 1..Len(procs) /\ child \in Nat /\ child <= Len(procs) /\ procs \in Seq(ProcState)
    BY <1>14, AtHost
  <2>2. EndState = "confirmed" => AllGone
    <3> SUFFICES ASSUME EndState = "confirmed" PROVE AllGone
      OBVIOUS
    <3>1. child # NoProc /\ procs[child] # "up" /\ procs[child] # "lingering"
      BY DEF EndState
    <3>2. Len(procs) = 1 /\ child = 1 /\ DOMAIN procs = {1}
      BY <2>1, <3>1 DEF SpawnInv, NoProc
    <3>3. procs[1] = "gone"
      BY <2>1, <3>1, <3>2 DEF ProcState
    <3> QED
      BY <2>1, <3>2, <3>3 DEF AllGone
  <2>3. SpawnInv'
    BY <1>1, <1>5, <1>6, <2>1, SpawnSame
  <2>4. \A k \in keys : k \in DOMAIN facts' => k \in DOMAIN facts /\ facts'[k] = facts[k]
    <3>1. keys \subseteq DOMAIN facts \cup {Stopped, StartLost} /\ DOMAIN facts' = 1..Len(facts')
      BY <1>9, AtHost
    <3> QED
      BY <1>2, <1>9, <3>1 DEF Grown, Stopped, StartLost
  <2>5. EndInv'
    BY <1>1, <1>5, <1>6, <2>1, <2>2, <2>4, EndSame
  <2> QED
    BY <2>3, <2>5
<1>15. child' \in Nat /\ child' <= Len(procs') /\ Len(procs') <= MaxProcs /\ procs' \in Seq(ProcState) /\ spawn' \in {"none", "empty", "fresh", "old"}
       /\ offset' \in Nat /\ slot' \in {"live", "stopping", "ended"} /\ DOMAIN procs \subseteq DOMAIN procs'
       /\ overtaken' \in BOOLEAN
  BY <1>1, AtHost
<1> QED
  BY <1>1, <1>3, <1>5, <1>7, <1>9, <1>10, <1>12, <1>13, <1>14, <1>15, Moves

\* There is a least line among those that are held back.
LEMMA LeastLine ==
  ASSUME NEW S \in SUBSET Nat, S # {}
  PROVE  \E i \in S : \A j \in S : i <= j
<1>1. PICK i \in S : \A j \in S : ~(<<j, i>> \in OpToRel(<, Nat))
  BY NatLessThanWellFounded, WFMin
<1>2. \A j \in S : ~(j < i)
  BY <1>1, Zenon DEF OpToRel
<1> QED
  BY <1>2

\* Where a read ends, nothing before it is held back.
LEMMA ReadToHolds ==
  ASSUME NEW n \in Int, -1 <= n, n <= Len(facts), NEW c \in BOOLEAN, facts \in Seq(FactKind)
  PROVE  /\ ReadTo(n, c) \in Nat \/ n = -1
         /\ ReadTo(n, c) \in Int /\ n <= ReadTo(n, c) /\ ReadTo(n, c) <= Len(facts)
         /\ \A i \in (n + 1)..ReadTo(n, c) : i \in DOMAIN facts => i \in Delivered(n, c)
<1> DEFINE held == {i \in (n + 1)..Len(facts) : IsEnd(facts[i]) /\ ~c}
           least == CHOOSE i \in held : \A j \in held : i <= j
<1>1. Len(facts) \in Nat /\ DOMAIN facts = 1..Len(facts)
  OBVIOUS
<1>2. ReadTo(n, c) = IF held = {} THEN Len(facts) ELSE least - 1
  BY DEF ReadTo
<1>3. held \in SUBSET Nat
  BY <1>1
<1>4. held # {} => least \in held /\ \A j \in held : least <= j
  BY <1>3, LeastLine
<1>5. \A i \in (n + 1)..Len(facts) : i \notin held => i \in Delivered(n, c)
  BY DEF Delivered
<1>6. held # {} => least \in (n + 1)..Len(facts)
  BY <1>4
<1> HIDE DEF least, held
<1>7. CASE held = {}
  BY <1>1, <1>2, <1>5, <1>7
<1>8. CASE held # {}
  <2>1. ReadTo(n, c) = least - 1 /\ least \in Int /\ n + 1 <= least /\ least <= Len(facts)
    BY <1>1, <1>2, <1>6, <1>8
  <2>2. \A i \in (n + 1)..(least - 1) : i \notin held /\ i \in (n + 1)..Len(facts)
    BY <1>1, <1>3, <1>4, <1>8, <2>1
  <2> QED
    BY <1>1, <1>5, <2>1, <2>2
<1> QED
  BY <1>7, <1>8

\* A drain reads the lines behind its offset.
LEMMA ReadFactsKeeps ==
  ASSUME IInv, NEW h \in Host, ReadFacts(h)
  PROVE  IInv'
<1> DEFINE n == From(h)
           c == host[h].confirmed
           new == [host[h] EXCEPT !.pc = "enqueue", !.batch = Delivered(n, c), !.next = ReadTo(n, c),
                                  !.quiet = (Delivered(n, c) = {})]
<1>1. UNCHANGED <<spawn, child, procs, facts, said, offset, keys, slot, overtaken, given>> /\ host[h].pc = "read"
  BY DEF ReadFacts
<1>2. /\ host[h] \in HostType /\ host \in [Host -> HostType] /\ facts \in Seq(FactKind) /\ offset \in Nat /\ Len(facts) \in Nat
      /\ HostBound(host[h], facts, procs) /\ HostDrain(host[h], facts, keys, slot) /\ offset <= Len(facts) /\ Told(offset, facts, keys)
      /\ DOMAIN facts = 1..Len(facts)
  BY AtHost
<1>3. host' = [host EXCEPT ![h] = new]
  BY <1>2 DEF ReadFacts
<1>4. n \in Nat /\ n <= Len(facts) /\ Told(n, facts, keys) /\ c \in BOOLEAN
  BY <1>2 DEF From, HostBound, HostDrain, HostType, NoCache
<1>5. Delivered(n, c) \subseteq DOMAIN facts /\ DOMAIN facts \subseteq Nat /\ \A i \in Delivered(n, c) : IsEnd(facts[i]) => c
  BY <1>2, <1>4 DEF Delivered
<1>6. ReadTo(n, c) \in Nat /\ ReadTo(n, c) <= Len(facts) /\ \A i \in (n + 1)..ReadTo(n, c) : i \in DOMAIN facts => i \in Delivered(n, c)
  BY <1>2, <1>4, ReadToHolds
<1>7. Told(ReadTo(n, c), facts, keys \cup Delivered(n, c))
  BY <1>2, <1>4, <1>6 DEF Told
<1>8. /\ new \in HostType /\ new.pc = "enqueue" /\ new.cached = host[h].cached /\ new.next = ReadTo(n, c)
      /\ new.batch = Delivered(n, c) /\ new.confirmed = c
  BY <1>2, <1>5, <1>6 DEF HostType, HostPc
<1> HIDE DEF new, n, c
<1>9. \A g \in Host : host'[g] = IF g = h THEN new ELSE host[g]
  BY <1>2, <1>3
<1>10. HostBound(new, facts, procs)
  BY <1>2, <1>5, <1>6, <1>8 DEF HostBound
<1>11. HostDrain(new, facts, keys, slot)
  <2>1. Told(host[h].cached, facts, keys)
    BY <1>2 DEF HostDrain
  <2> QED
    BY <1>5, <1>7, <1>8, <2>1 DEF HostDrain
<1>12. ASSUME ~RecordFails PROVE EndInv'
  BY <1>1, <1>8, <1>9, <1>12, AtHost, EndSame DEF c
<1> QED
  BY <1>1, <1>3, <1>8, <1>10, <1>11, <1>12, AtHost, HostMoves

\* A line reaches the inbox.
LEMMA EnqueueFactKeeps ==
  ASSUME IInv, NEW h \in Host, EnqueueFact(h)
  PROVE  IInv'
<1>1. UNCHANGED <<spawn, child, procs, facts, said, offset, slot, overtaken, given>> /\ host[h].pc = "enqueue"
  BY DEF EnqueueFact
<1>2. PICK line \in host[h].batch : keys' = keys \cup {line} /\ host' = [host EXCEPT ![h].batch = @ \ {line}]
  BY DEF EnqueueFact
<1> DEFINE new == [host[h] EXCEPT !.batch = host[h].batch \ {line}]
<1>3. /\ host[h] \in HostType /\ host \in [Host -> HostType] /\ DOMAIN facts = 1..Len(facts)
      /\ HostBound(host[h], facts, procs) /\ HostDrain(host[h], facts, keys, slot) /\ Told(offset, facts, keys)
      /\ keys \subseteq DOMAIN facts \cup {Stopped, StartLost}
  BY AtHost
<1>4. host' = [host EXCEPT ![h] = new]
  BY <1>2, <1>3
<1>5. /\ new \in HostType /\ new.pc = "enqueue" /\ new.cached = host[h].cached /\ new.next = host[h].next
      /\ new.batch = host[h].batch \ {line} /\ new.confirmed = host[h].confirmed
  BY <1>1, <1>3 DEF HostType, HostPc
<1> HIDE DEF new
<1>6. \A g \in Host : host'[g] = IF g = h THEN new ELSE host[g]
  BY <1>3, <1>4
<1>7. line \in DOMAIN facts /\ (IsEnd(facts[line]) => host[h].confirmed) /\ line # Stopped
  BY <1>3 DEF HostBound, HostDrain, Stopped
<1>8. HostBound(new, facts, procs)
  BY <1>1, <1>3, <1>5 DEF HostBound
<1>9. HostDrain(new, facts, keys', slot)
  <2>1. keys' \cup (host[h].batch \ {line}) = keys \cup host[h].batch
    BY <1>2
  <2>2. Told(host[h].next, facts, keys' \cup (host[h].batch \ {line}))
    BY <1>1, <1>3, <2>1 DEF HostDrain
  <2>3. Told(host[h].cached, facts, keys')
    BY <1>2, <1>3 DEF HostDrain, Told
  <2> QED
    BY <1>3, <1>5, <2>2, <2>3 DEF HostDrain
<1>10. Told(offset, facts, keys') /\ keys \subseteq keys' /\ keys' \subseteq DOMAIN facts \cup {Stopped, StartLost}
  BY <1>2, <1>3, <1>7 DEF Told
<1>11. ASSUME ~RecordFails PROVE EndInv'
  <2>1. EndInv
    BY <1>11, AtHost
  <2>2. host[h].confirmed => AllGone
    BY <2>1 DEF EndInv
  <2> QED
    BY <1>1, <1>2, <1>5, <1>6, <1>7, <2>1, <2>2, EndSame
<1> QED
  BY <1>1, <1>4, <1>5, <1>8, <1>9, <1>10, <1>11, AtHost, HostMoves

\* A store that refuses a line ends the drain.
LEMMA RefuseFactKeeps ==
  ASSUME IInv, NEW h \in Host, RefuseFact(h)
  PROVE  IInv'
<1> DEFINE new == [host[h] EXCEPT !.pc = "idle", !.batch = {}]
<1>1. UNCHANGED <<spawn, child, procs, facts, said, offset, keys, slot, overtaken, given>>
  BY DEF RefuseFact
<1>2. host[h] \in HostType /\ host \in [Host -> HostType]
  BY AtHost
<1>3. host' = [host EXCEPT ![h] = new]
  BY <1>2 DEF RefuseFact
<1>4. /\ new \in HostType /\ new.pc = "idle" /\ new.cached = host[h].cached /\ new.next = host[h].next
      /\ new.batch = {} /\ new.confirmed = host[h].confirmed
  BY <1>2 DEF HostType, HostPc
<1> HIDE DEF new
<1>5. \A g \in Host : host'[g] = IF g = h THEN new ELSE host[g]
  BY <1>2, <1>3
<1>6. HostBound(new, facts, procs)
  BY <1>4, AtHost DEF HostBound
<1>7. HostDrain(new, facts, keys, slot)
  BY <1>4, AtHost DEF HostDrain
<1>8. ASSUME ~RecordFails PROVE EndInv'
  BY <1>1, <1>4, <1>5, <1>8, AtHost, EndSame
<1> QED
  BY <1>1, <1>3, <1>4, <1>6, <1>7, <1>8, AtHost, HostMoves

\* The offset moves to what was enqueued, or stays where writing it failed.
LEMMA StoreOffsetKeeps ==
  ASSUME IInv, NEW h \in Host, StoreOffset(h)
  PROVE  IInv'
<1> DEFINE pc == IF slot = "stopping" /\ host[h].quiet THEN "alive" ELSE "idle"
<1>1. UNCHANGED <<spawn, child, procs, facts, said, keys, slot, overtaken, given>> /\ host[h].pc = "enqueue" /\ host[h].batch = {}
  BY DEF StoreOffset
<1>2. /\ host[h] \in HostType /\ host \in [Host -> HostType] /\ offset \in Nat /\ offset <= Len(facts)
      /\ HostBound(host[h], facts, procs) /\ HostDrain(host[h], facts, keys, slot) /\ Told(offset, facts, keys)
  BY AtHost
<1>3. host[h].next \in Nat /\ host[h].next <= Len(facts) /\ Told(host[h].next, facts, keys) /\ Told(host[h].cached, facts, keys)
  <2>1. keys \cup {} = keys
    OBVIOUS
  <2> QED
    BY <1>1, <1>2, <2>1 DEF HostType, HostBound, HostDrain
<1>4. \/ host' = [host EXCEPT ![h].cached = host[h].next, ![h].pc = pc] /\ offset' \in {offset, host[h].next}
      \/ host' = [host EXCEPT ![h].pc = pc] /\ offset' = offset
  BY DEF StoreOffset, Goto
<1>5. pc \in {"alive", "idle"} /\ (pc = "alive" => slot # "live")
  OBVIOUS
<1> HIDE DEF pc
<1>6. PICK m \in {host[h].cached, host[h].next} : host' = [host EXCEPT ![h] = [host[h] EXCEPT !.cached = m, !.pc = pc]]
  <2>1. [host EXCEPT ![h].pc = pc] = [host EXCEPT ![h] = [host[h] EXCEPT !.cached = host[h].cached, !.pc = pc]]
    BY <1>2 DEF HostType
  <2>2. [host EXCEPT ![h].cached = host[h].next, ![h].pc = pc] = [host EXCEPT ![h] = [host[h] EXCEPT !.cached = host[h].next, !.pc = pc]]
    BY <1>2
  <2> QED
    BY <1>4, <2>1, <2>2
<1> DEFINE new == [host[h] EXCEPT !.cached = m, !.pc = pc]
<1>7. host' = [host EXCEPT ![h] = new]
  BY <1>6
<1>14. m \in Int /\ pc \in HostPc
  BY <1>2, <1>3, <1>5 DEF HostType, HostPc
<1>8. /\ new \in HostType /\ new.pc = pc /\ new.cached = m /\ new.next = host[h].next
      /\ new.batch = {} /\ new.confirmed = host[h].confirmed
  BY <1>1, <1>2, <1>14 DEF HostType
<1> HIDE DEF new
<1>9. \A g \in Host : host'[g] = IF g = h THEN new ELSE host[g]
  BY <1>2, <1>7
<1>10. HostBound(new, facts, procs)
  BY <1>2, <1>3, <1>5, <1>8 DEF HostBound, NoCache
<1>11. HostDrain(new, facts, keys, slot)
  BY <1>3, <1>5, <1>8 DEF HostDrain
<1>12. offset' \in Nat /\ offset' <= Len(facts) /\ Told(offset', facts, keys)
  BY <1>2, <1>3, <1>4
<1>13. ASSUME ~RecordFails PROVE EndInv'
  BY <1>1, <1>5, <1>8, <1>9, <1>13, AtHost, EndSame
<1> QED
  BY <1>1, <1>5, <1>7, <1>8, <1>10, <1>11, <1>12, <1>13, AtHost, HostMoves

\* A stopping slot with nothing to read asks whether the session is alive.
LEMMA AskAliveKeeps ==
  ASSUME IInv, NEW h \in Host, AskAlive(h)
  PROVE  IInv'
<1> DEFINE new == [host[h] EXCEPT !.pc = "idle"]
<1>1. UNCHANGED <<spawn, child, procs, facts, said, offset, slot, overtaken, given>> /\ host[h].pc = "alive"
  BY DEF AskAlive
<1>2. keys' = (IF Dead THEN keys \cup {Stopped} ELSE keys)
  BY DEF AskAlive
<1>3. /\ host[h] \in HostType /\ host \in [Host -> HostType] /\ DOMAIN facts = 1..Len(facts)
      /\ HostDrain(host[h], facts, keys, slot) /\ Told(offset, facts, keys) /\ keys \subseteq DOMAIN facts \cup {Stopped, StartLost}
  BY AtHost
<1>4. host' = [host EXCEPT ![h] = new]
  BY DEF AskAlive, Goto
<1>5. /\ new \in HostType /\ new.pc = "idle" /\ new.cached = host[h].cached /\ new.next = host[h].next
      /\ new.batch = host[h].batch /\ new.confirmed = host[h].confirmed
  BY <1>3 DEF HostType, HostPc
<1> HIDE DEF new
<1>6. \A g \in Host : host'[g] = IF g = h THEN new ELSE host[g]
  BY <1>3, <1>4
<1>7. HostBound(new, facts, procs)
  BY <1>5, AtHost DEF HostBound
<1>8. HostDrain(new, facts, keys', slot) /\ Told(offset, facts, keys') /\ slot # "live"
  BY <1>1, <1>2, <1>3, <1>5 DEF HostDrain, Told
<1>9. keys \subseteq keys' /\ keys' \subseteq DOMAIN facts \cup {Stopped, StartLost}
  BY <1>2, <1>3
<1>10. ASSUME ~RecordFails PROVE EndInv'
  <2>1. SpawnInv /\ EndInv /\ Len(procs) \in Nat /\ DOMAIN procs = 1..Len(procs) /\ child \in Nat /\ child <= Len(procs)
        /\ procs \in Seq(ProcState) /\ spawn \in {"none", "empty", "fresh", "old"}
    BY <1>10, AtHost
  <2>2. ASSUME Dead PROVE (\A p \in DOMAIN procs : procs[p] = "gone") /\ \A g \in Host : host[g].pc # "spawn"
    <3>1. CASE child = NoProc
      <4>1. spawn # "fresh"
        BY <2>2, <3>1 DEF Dead
      <4>2. \A p \in DOMAIN procs : procs[p] \in ProcState /\ p # NoProc
        BY <2>1 DEF NoProc
      <4>3. spawn \in {"none", "empty"} => DOMAIN procs = {}
        BY <2>1 DEF SpawnInv
      <4> QED
        BY <2>1, <3>1, <4>1, <4>2, <4>3 DEF SpawnInv, ProcState
    <3>2. CASE child # NoProc
      <4>1. procs[child] # "up" /\ procs[child] # "lingering"
        BY <2>2, <3>2 DEF Dead, EndState
      <4>2. DOMAIN procs = {1} /\ child = 1 /\ Len(procs) = 1
        BY <2>1, <3>2 DEF SpawnInv, NoProc
      <4>3. procs[1] = "gone"
        BY <2>1, <4>1, <4>2 DEF ProcState
      <4> QED
        BY <2>1, <4>2, <4>3 DEF SpawnInv
    <3> QED
      BY <3>1, <3>2
  <2>3. Stopped \notin DOMAIN facts
    BY <1>3 DEF Stopped
  <2> QED
    BY <1>1, <1>2, <1>5, <1>6, <1>8, <2>1, <2>2, <2>3, EndSame
<1> QED
  BY <1>1, <1>4, <1>5, <1>7, <1>8, <1>9, <1>10, AtHost, HostMoves

\* A host decides to start the session.
LEMMA DecideStartKeeps ==
  ASSUME IInv, NEW h \in Host, DecideStart(h)
  PROVE  IInv'
<1> DEFINE new == [host[h] EXCEPT !.pc = "claim"]
<1>1. UNCHANGED <<spawn, child, procs, facts, said, offset, keys, slot, overtaken, given>> /\ host[h].pc = "idle"
  BY DEF DecideStart
<1>2. host[h] \in HostType /\ host \in [Host -> HostType]
  BY AtHost
<1>3. host' = [host EXCEPT ![h] = new]
  BY DEF DecideStart, Goto
<1>4. /\ new \in HostType /\ new.pc = "claim" /\ new.cached = host[h].cached /\ new.next = host[h].next
      /\ new.batch = host[h].batch /\ new.confirmed = host[h].confirmed
  BY <1>2 DEF HostType, HostPc
<1> HIDE DEF new
<1>5. \A g \in Host : host'[g] = IF g = h THEN new ELSE host[g]
  BY <1>2, <1>3
<1>6. HostBound(new, facts, procs)
  BY <1>4, AtHost DEF HostBound
<1>7. HostDrain(new, facts, keys, slot)
  BY <1>1, <1>4, AtHost DEF HostDrain
<1>8. ASSUME ~RecordFails PROVE EndInv'
  BY <1>1, <1>4, <1>5, <1>8, AtHost, EndSame
<1> QED
  BY <1>1, <1>3, <1>4, <1>6, <1>7, <1>8, AtHost, HostMoves

\* The processes cannot be listed: the drain goes on without an end, or alive is the answer.
LEMMA ListingFailsKeeps ==
  ASSUME IInv, NEW h \in Host, ListingFails(h)
  PROVE  IInv'
<1>1. /\ UNCHANGED <<spawn, child, procs, facts, said, offset, keys, slot, overtaken, given>>
      /\ host[h].pc \in {"idle", "alive"}
  BY DEF ListingFails
<1>2. /\ host[h] \in HostType /\ host \in [Host -> HostType] /\ offset \in Nat /\ Len(facts) \in Nat
      /\ HostBound(host[h], facts, procs) /\ HostDrain(host[h], facts, keys, slot) /\ offset <= Len(facts) /\ Told(offset, facts, keys)
  BY AtHost
<1>3. From(h) \in Int /\ NoCache <= From(h) /\ From(h) <= Len(facts) /\ Told(From(h), facts, keys)
  BY <1>2 DEF From, HostBound, HostDrain, HostType, NoCache
<1>4. PICK pc \in {"idle", "read"}, m \in {host[h].cached, From(h)}, c \in {host[h].confirmed, FALSE} :
        host' = [host EXCEPT ![h] = [host[h] EXCEPT !.pc = pc, !.cached = m, !.confirmed = c]]
  <2>1. [host EXCEPT ![h].pc = "idle"]
          = [host EXCEPT ![h] = [host[h] EXCEPT !.pc = "idle", !.cached = host[h].cached, !.confirmed = host[h].confirmed]]
    BY <1>2 DEF HostType
  <2>2. [host EXCEPT ![h].pc = "read", ![h].cached = From(h), ![h].confirmed = FALSE]
          = [host EXCEPT ![h] = [host[h] EXCEPT !.pc = "read", !.cached = From(h), !.confirmed = FALSE]]
    BY <1>2
  <2> QED
    BY <2>1, <2>2 DEF ListingFails, Goto
<1> DEFINE new == [host[h] EXCEPT !.pc = pc, !.cached = m, !.confirmed = c]
<1>5. host' = [host EXCEPT ![h] = new]
  BY <1>4
<1>6. m \in Int /\ c \in BOOLEAN /\ pc \in HostPc
  BY <1>2, <1>3 DEF HostType, HostPc
<1>7. /\ new \in HostType /\ new.pc = pc /\ new.cached = m /\ new.next = host[h].next
      /\ new.batch = host[h].batch /\ new.confirmed = c
  BY <1>2, <1>6 DEF HostType
<1> HIDE DEF new
<1>8. \A g \in Host : host'[g] = IF g = h THEN new ELSE host[g]
  BY <1>2, <1>5
<1>9. HostBound(new, facts, procs)
  BY <1>2, <1>3, <1>7 DEF HostBound
<1>10. HostDrain(new, facts, keys, slot)
  <2>1. host[h].batch = {} /\ Told(m, facts, keys)
    BY <1>1, <1>2, <1>3 DEF HostDrain
  <2> QED
    BY <1>7, <2>1 DEF HostDrain
<1>11. ASSUME ~RecordFails PROVE EndInv'
  BY <1>1, <1>7, <1>8, <1>11, AtHost, EndSame
<1> QED
  BY <1>1, <1>5, <1>7, <1>9, <1>10, <1>11, AtHost, HostMoves

\* A host dies, and what it had read is forgotten.
LEMMA CrashKeeps ==
  ASSUME IInv, NEW h \in Host, Crash(h)
  PROVE  IInv'
<1>1. UNCHANGED <<spawn, child, procs, facts, said, offset, keys, slot, overtaken, given>> /\ host' = [host EXCEPT ![h] = Idle]
  BY DEF Crash
<1>2. /\ Idle \in HostType /\ Idle.pc = "idle" /\ Idle.cached = -1 /\ Idle.next = 0 /\ Idle.batch = {} /\ Idle.confirmed = FALSE
  BY DEF Idle, HostType, HostPc, NoCache, NoProc
<1>3. host \in [Host -> HostType] /\ Len(facts) \in Nat /\ DOMAIN facts = 1..Len(facts)
  BY AtHost
<1>4. \A g \in Host : host'[g] = IF g = h THEN Idle ELSE host[g]
  BY <1>1, <1>3
<1>5. HostBound(Idle, facts, procs)
  BY <1>2, <1>3 DEF HostBound, NoCache
<1>6. HostDrain(Idle, facts, keys, slot)
  BY <1>2, <1>3 DEF HostDrain, Told
<1>7. ASSUME ~RecordFails PROVE EndInv'
  BY <1>1, <1>2, <1>4, <1>7, AtHost, EndSame
<1> QED
  BY <1>1, <1>2, <1>5, <1>6, <1>7, AtHost, HostMoves

\* ------------------------------------------------------- the run, the process, time

\* What is there before any of these steps.
LEMMA Before ==
  ASSUME IInv
  PROVE  /\ Types /\ Bounds /\ DrainInv /\ (~RecordFails => SpawnInv /\ EndInv)
         /\ given \in DOMAIN Settings /\ spawn \in {"none", "empty", "fresh", "old"} /\ child \in Nat
         /\ procs \in Seq(ProcState) /\ facts \in Seq(FactKind) /\ slot \in {"live", "stopping", "ended"} /\ overtaken \in BOOLEAN
         /\ child <= Len(procs) /\ Len(procs) <= MaxProcs /\ keys \subseteq DOMAIN facts \cup {Stopped, StartLost}
         /\ DOMAIN procs = 1..Len(procs) /\ Len(procs) \in Nat /\ DOMAIN facts = 1..Len(facts) /\ Len(facts) \in Nat
         /\ Grown(facts, facts)
<1>1. Types /\ Bounds /\ DrainInv /\ (~RecordFails => SpawnInv /\ EndInv)
  BY DEF IInv
<1>2. /\ given \in DOMAIN Settings /\ spawn \in {"none", "empty", "fresh", "old"} /\ child \in Nat
      /\ procs \in Seq(ProcState) /\ facts \in Seq(FactKind) /\ slot \in {"live", "stopping", "ended"} /\ overtaken \in BOOLEAN
  BY <1>1 DEF Types
<1>3. DOMAIN procs = 1..Len(procs) /\ Len(procs) \in Nat /\ DOMAIN facts = 1..Len(facts) /\ Len(facts) \in Nat
  BY <1>2
<1> QED
  BY <1>1, <1>2, <1>3 DEF Bounds, Grown

\* The run stops the slot, or folds its end.
LEMMA SlotKeeps ==
  ASSUME IInv, StopSlot \/ FoldEnd
  PROVE  IInv'
<1>1. UNCHANGED <<spawn, child, procs, facts, said, offset, keys, host, overtaken, given>> /\ slot' \in {"stopping", "ended"}
  BY DEF StopSlot, FoldEnd
<1>2. ASSUME ~RecordFails PROVE SpawnInv' /\ EndInv'
  BY <1>1, <1>2, Before, SpawnSame, EndSame
<1> QED
  BY <1>1, <1>2, Before, Rests

\* A process moves on towards its end.
LEMMA ProcMoves ==
  ASSUME IInv, NEW p \in DOMAIN procs, procs[p] \in {"up", "lingering"}, NEW next \in {"lingering", "gone"},
         next = "lingering" => child # NoProc, procs' = [procs EXCEPT ![p] = next],
         UNCHANGED <<spawn, child, facts, said, offset, keys, slot, host, overtaken, given>>
  PROVE  IInv'
<1>1. procs' \in Seq(ProcState) /\ Len(procs') = Len(procs) /\ DOMAIN procs' = DOMAIN procs
  BY Before DEF ProcState
<1>2. \A q \in DOMAIN procs : procs'[q] = IF q = p THEN next ELSE procs[q]
  BY Before
<1>3. ASSUME ~RecordFails PROVE SpawnInv' /\ EndInv'
  <2>1. SpawnInv /\ EndInv
    BY <1>3, Before
  <2>2. procs # <<>> /\ Len(procs') <= 1
    BY <1>1, <2>1, Before DEF SpawnInv
  <2>3. SpawnInv'
    BY <1>1, <1>2, <2>1, <2>2 DEF SpawnInv
  <2>4. ~AllGone
    BY DEF AllGone
  <2>5. /\ \A h \in Host : ~host'[h].confirmed
        /\ \A k \in keys' : ~(k \in DOMAIN facts' /\ IsEnd(facts'[k]))
        /\ Stopped \in keys' => overtaken'
    BY <2>1, <2>4 DEF EndInv
  <2>6. EndInv'
    BY <2>5 DEF EndInv, IsEnd
  <2> QED
    BY <2>3, <2>6
<1> QED
  BY <1>1, <1>3, Before, Rests

\* The session is killed.
LEMMA KillKeeps ==
  ASSUME IInv, Kill
  PROVE  IInv'
<1>1. child \in DOMAIN procs
  BY Before DEF Kill, NoProc
<1> QED
  BY <1>1, ProcMoves DEF Kill

\* The leader exits, or what it left behind.
LEMMA ExitKeeps ==
  ASSUME IInv, NEW p \in DOMAIN procs, Exit(p)
  PROVE  IInv'
BY ProcMoves DEF Exit

\* The child records itself.
LEMMA RecordSelfKeeps ==
  ASSUME IInv, NEW p \in DOMAIN procs, RecordSelf(p)
  PROVE  IInv'
<1>1. UNCHANGED <<spawn, procs, facts, said, offset, keys, slot, host, overtaken, given>> /\ child' = p
  BY DEF RecordSelf
<1>2. child' \in Nat /\ child' <= Len(procs)
  BY <1>1, Before
<1>3. ASSUME ~RecordFails PROVE SpawnInv' /\ EndInv'
  <2>1. SpawnInv /\ EndInv
    BY <1>3, Before
  <2>2. \A q \in DOMAIN procs : q = p /\ p # NoProc
    BY <2>1, Before DEF SpawnInv, NoProc
  <2>3. SpawnInv'
    BY <1>1, <2>1, <2>2 DEF SpawnInv
  <2>4. EndInv'
    BY <1>1, <2>1, EndSame
  <2> QED
    BY <2>3, <2>4
<1> QED
  BY <1>1, <1>2, <1>3, Before, Rests

\* The process writes a line.
LEMMA WriteFactKeeps ==
  ASSUME IInv, NEW p \in DOMAIN procs, WriteFact(p)
  PROVE  IInv'
<1>1. UNCHANGED <<spawn, child, procs, said, offset, keys, slot, host, overtaken, given>>
  BY DEF WriteFact
<1>2. PICK e \in FactKind : facts' = Append(facts, e)
  BY DEF WriteFact, FactKind
<1>3. facts' \in Seq(FactKind) /\ Grown(facts, facts')
  BY <1>2, Before, AppendGrows
<1>4. ASSUME ~RecordFails PROVE SpawnInv' /\ EndInv'
  <2>1. SpawnInv /\ EndInv
    BY <1>4, Before
  <2>2. \A k \in keys : k \in DOMAIN facts' => k \in DOMAIN facts /\ facts'[k] = facts[k]
    <3>1. DOMAIN facts' = 1..Len(facts')
      BY <1>3
    <3> QED
      BY <1>3, <3>1, Before DEF Grown, Stopped, StartLost
  <2> QED
    BY <1>1, <2>1, <2>2, SpawnSame, EndSame
<1> QED
  BY <1>1, <1>3, <1>4, Before, Rests

\* The grace of a claim passes.
LEMMA AgeKeeps ==
  ASSUME IInv, Age
  PROVE  IInv'
<1>1. UNCHANGED <<child, procs, facts, said, offset, keys, slot, host, overtaken, given>> /\ spawn' = "old"
  BY DEF Age
<1>2. ASSUME ~RecordFails PROVE SpawnInv' /\ EndInv'
  <2>1. SpawnInv /\ EndInv
    BY <1>2, Before
  <2>2. /\ \A p \in DOMAIN procs : procs[p] = "up" => child = p
        /\ \A h \in Host : host[h].pc \notin {"write", "spawn"}
    BY <2>1 DEF Age, SpawnInv
  <2>3. SpawnInv'
    BY <1>1, <2>1, <2>2 DEF SpawnInv
  <2> QED
    BY <1>1, <2>1, <2>3, EndSame
<1> QED
  BY <1>1, <1>2, Before, Rests

\* -------------------------------------------------------------------- theorems

\* A key begins with nothing on file.
LEMMA InitIInv == Init => IInv
<1> SUFFICES ASSUME Init PROVE IInv
  OBVIOUS
<1>1. /\ given \in DOMAIN Settings /\ spawn = "none" /\ child = 0 /\ procs = <<>> /\ facts = <<>> /\ said = FALSE
      /\ offset = 0 /\ keys = {} /\ slot = "live" /\ host = [h \in Host |-> Idle] /\ overtaken = FALSE
  BY DEF Init, NoProc
<1>2. Idle \in HostType /\ Idle.pc = "idle" /\ Idle.cached = -1 /\ Idle.next = 0 /\ Idle.batch = {} /\ Idle.confirmed = FALSE
  BY DEF Idle, HostType, HostPc, NoCache, NoProc
<1>3. /\ procs \in Seq(ProcState) /\ facts \in Seq(FactKind) /\ Len(procs) = 0 /\ Len(facts) = 0
      /\ DOMAIN procs = {} /\ DOMAIN facts = {}
  BY <1>1
<1>4. Types
  BY <1>1, <1>2, <1>3 DEF Types
<1>5. MaxProcs \in Nat
  BY <1>1, SettingsAssumption DEF MaxProcs
<1>6. Bounds
  <2>1. HostBound(Idle, facts, procs)
    BY <1>2, <1>3 DEF HostBound, NoCache
  <2> QED
    BY <1>1, <1>3, <1>5, <2>1 DEF Bounds
<1>7. DrainInv
  <2>1. HostDrain(Idle, facts, keys, slot)
    BY <1>2, <1>3 DEF HostDrain, Told
  <2>2. Told(offset, facts, keys)
    BY <1>3 DEF Told
  <2> QED
    BY <1>1, <2>1, <2>2 DEF DrainInv
<1>8. SpawnInv /\ EndInv
  BY <1>1, <1>2, <1>3 DEF SpawnInv, EndInv
<1> QED
  BY <1>4, <1>6, <1>7, <1>8 DEF IInv

\* Every step keeps the invariant.
LEMMA NextIInv == IInv /\ [Next]_vars => IInv'
<1> SUFFICES ASSUME IInv, [Next]_vars PROVE IInv'
  OBVIOUS
<1>1. ASSUME NEW h \in Host, Start(h) PROVE IInv'
  BY <1>1, DecideStartKeeps, ClaimSpawnKeeps, WriteClaimKeeps, TrySpawnKeeps, RecordChildKeeps, LookAtChildKeeps DEF Start
<1>2. ASSUME NEW h \in Host, Drain(h) \/ ListingFails(h) \/ RefuseFact(h) \/ Crash(h) PROVE IInv'
  BY <1>2, ObserveKeeps, ReadFactsKeeps, EnqueueFactKeeps, StoreOffsetKeeps, AskAliveKeeps, ListingFailsKeeps, RefuseFactKeeps, CrashKeeps DEF Drain
<1>3. ASSUME NEW p \in DOMAIN procs, RecordSelf(p) \/ WriteFact(p) \/ Exit(p) PROVE IInv'
  BY <1>3, RecordSelfKeeps, WriteFactKeeps, ExitKeeps
<1>4. CASE StopSlot \/ FoldEnd \/ Kill \/ Age
  BY <1>4, SlotKeeps, KillKeeps, AgeKeeps
<1>5. CASE UNCHANGED vars
  <2>1. ~RecordFails => SpawnInv' /\ EndInv'
    BY <1>5, Before, SpawnSame, EndSame DEF vars
  <2> QED
    BY <1>5, <2>1, Before, Rests DEF vars
<1>6. Hosts \subseteq Host
  BY Before, SettingsAssumption DEF Hosts
<1> QED
  BY <1>1, <1>2, <1>3, <1>4, <1>5, <1>6 DEF Next

\* The invariant holds throughout.
LEMMA Invariance == Spec => []IInv
BY InitIInv, NextIInv, PTL DEF Spec

\* However many hosts start a session, and wherever they crash, it gets one process (lib.rs start, ledger.rs
\* claim_spawn), as long as the child can be put on record.
THEOREM OneProcessPerKey == Spec => []OneProcess
<1>1. IInv => OneProcess
  BY DEF IInv, SpawnInv, OneProcess
<1> QED
  BY <1>1, Invariance, PTL

\* The read position passes over no line of a session, whatever crashes, is refused or drains beside (host.rs
\* drain_run); an end that is read from its lines is the end, and so is one that alive answered, unless a claim was
\* written after the stop began (lib.rs drain_facts, start). Nothing is said of the end that start itself reports.
THEOREM FactsStayTrue == Spec => []FactsAreTrue
<1>1. ASSUME IInv PROVE TypeOK
  <2>1. Types /\ Bounds /\ MaxProcs \in Nat
    BY <1>1, SettingsAssumption DEF IInv, Types, MaxProcs
  <2>2. child \in 0..MaxProcs
    BY <1>1, <2>1, Before
  <2>3. \A h \in Host : host[h].cached \in NoCache..Len(facts) /\ host[h].next \in 0..Len(facts)
    <3>1. \A h \in Host : host[h].cached \in Int /\ host[h].next \in Nat
      BY <2>1 DEF Types, HostType
    <3> QED
      BY <1>1, <2>1, <3>1, Before DEF Bounds, HostBound, NoCache
  <2>4. offset \in 0..Len(facts)
    BY <1>1, <2>1, Before DEF Bounds, Types
  <2> QED
    BY <1>1, <2>1, <2>2, <2>3, <2>4, Before DEF TypeOK, Types, ProcState, FactKind
<1>2. ASSUME IInv PROVE NothingSkipped
  <2>1. Types /\ DrainInv /\ DOMAIN facts \subseteq Nat
    BY <1>2, Before
  <2>2. offset \in Nat /\ \A h \in Host : host[h].cached \in Int
    BY <2>1 DEF Types, HostType
  <2> QED
    BY <2>1, <2>2 DEF NothingSkipped, DrainInv, HostDrain, Told
<1>3. ASSUME IInv PROVE DrainedEndIsTheEnd
  <2>1. ~RecordFails => EndInv
    BY <1>3 DEF IInv
  <2> QED
    BY <2>1 DEF DrainedEndIsTheEnd, EndInv, AllGone
<1>4. IInv => FactsAreTrue
  BY <1>1, <1>2, <1>3 DEF FactsAreTrue
<1> QED
  BY <1>4, Invariance, PTL
=============================================================================
