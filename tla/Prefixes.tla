------------------------------ MODULE Prefixes ------------------------------
(* The id prefix of a replica: minted offline, claimed at the relay when the  *)
(* replica first syncs a stream, and exchanged for a free one when another     *)
(* replica has it (crates/server/src/store_ddb.rs, registry.rs; crates/sync/   *)
(* src/engine.rs register_prefix; crates/core/src/store.rs remap_prefix;       *)
(* crates/foundation/src/workspace.rs adopt_prefix).                           *)
(*                                                                             *)
(* A claim is one transaction over the prefix's and the replica's item; a      *)
(* transaction that conflicts is run again (claim_with_retry), which is the    *)
(* same step later.  An op is the replica that made it, its number there, and  *)
(* the prefix of the id it carries; what else the ids appear in is rewritten   *)
(* with it.  A pass that has its prefix pushes the ops of its replica and      *)
(* pulls the others', page by page (crates/nxs/src/sync/mod.rs pass).          *)
EXTENDS Integers, FiniteSets, Sequences

CONSTANTS
    Replicas,
    Processes,   \* processes that run sync passes
    Home,        \* the replica of a process
    Prefixes,
    Minted,      \* the prefix each replica minted offline
    None,
    Settings,    \* Settings[n]: who writes, and which prefixes are offered
    MaxTrouble   \* bound on crashes, lost answers and requests out of time

VARIABLE given   \* the setting of this stream

Candidates == Settings[given].candidates  \* candidate_prefix: each replica's sequence of other prefixes
Writers == Settings[given].writers        \* "quiet": nothing is written during a pass; "any": any process writes
MaxOps == Settings[given].max_ops         \* bound on the ops of a replica

ASSUME HomeAssumption == Home \in [Processes -> Replicas]
ASSUME MintedAssumption == Minted \in [Replicas -> Prefixes]
ASSUME NoneAssumption == None \notin Prefixes \cup Replicas
ASSUME SettingsAssumption ==
    \A n \in DOMAIN Settings :
        /\ Settings[n].writers \in {"quiet", "any"}
        /\ \A r \in Replicas : Settings[n].candidates[r] \in Seq(Prefixes)

VARIABLES
    owner,    \* the relay's item of each prefix
    uuid,     \* the relay's item of each replica
    toml,     \* the prefix in each replica.toml
    writer,   \* the prefix a writing process of the replica loaded
    made,     \* how many ops each replica made
    ops,      \* each replica's op log
    views,    \* the ops its views show, as they show them
    pushed,   \* the ops on the stream
    pass,     \* each process's pass
    answers,  \* the prefixes the relay told each replica
    raced,    \* the replicas that pulled while another pass of theirs was still to remap
    trouble

vars == <<owner, uuid, toml, writer, made, ops, views, pushed, pass, answers, raced, trouble, given>>

Op == [by : Replicas, n : Nat, prefix : Prefixes]

NoPass == [pc |-> "none"]

Init ==
    /\ given \in DOMAIN Settings
    /\ owner = [x \in Prefixes |-> None]
    /\ uuid = [r \in Replicas |-> None]
    /\ toml = Minted
    /\ writer = [r \in Replicas |-> None]
    /\ made = [r \in Replicas |-> 0]
    /\ ops = [r \in Replicas |-> {}]
    /\ views = [r \in Replicas |-> {}]
    /\ pushed = {}
    /\ pass = [p \in Processes |-> NoPass]
    /\ answers = [r \in Replicas |-> {}]
    /\ raced = {}
    /\ trouble = 0

\* Items, files and passes hold what they are read as.
TypeOK ==
    /\ owner \in [Prefixes -> Replicas \cup {None}]
    /\ uuid \in [Replicas -> Prefixes \cup {None}]
    /\ toml \in [Replicas -> Prefixes]
    /\ writer \in [Replicas -> Prefixes \cup {None}]
    /\ pushed \subseteq Op
    /\ \A r \in Replicas : ops[r] \subseteq Op /\ views[r] \subseteq Op
    /\ \A p \in Processes : pass[p] = NoPass \/ pass[p].attempt \in 0..Len(Candidates[Home[p]])

\* ------------------------------------------------------------------- writing

InPass(r) == \E p \in Processes : Home[p] = r /\ pass[p] # NoPass

\* A process opens the workspace: it keeps the prefix of replica.toml.
OpenWorkspace(r) ==
    /\ Writers = "any"
    /\ writer' = [writer EXCEPT ![r] = toml[r]]
    /\ UNCHANGED <<owner, uuid, toml, made, ops, views, pushed, pass, answers, raced, trouble, given>>

\* It creates an item under the prefix it keeps.
Create(r) ==
    LET prefix == IF Writers = "any" THEN writer[r] ELSE toml[r]
    IN /\ prefix # None
       /\ Writers = "quiet" => ~InPass(r)
       /\ made[r] < MaxOps
       /\ made' = [made EXCEPT ![r] = @ + 1]
       /\ ops' = [ops EXCEPT ![r] = @ \cup {[by |-> r, n |-> made[r] + 1, prefix |-> prefix]}]
       /\ views' = [views EXCEPT ![r] = @ \cup {[by |-> r, n |-> made[r] + 1, prefix |-> prefix]}]
       /\ UNCHANGED <<owner, uuid, toml, writer, pushed, pass, answers, raced, trouble, given>>

\* ----------------------------------------------------- the relay's registry

\* A pass opens the workspace and asks the relay for the prefix it finds there.
Begin(p) ==
    /\ pass[p] = NoPass
    /\ pass' = [pass EXCEPT ![p] = [pc |-> "lookup", asked |-> toml[Home[p]], attempt |-> 0,
                                    prefix |-> None, exported |-> {}]]
    /\ UNCHANGED <<owner, uuid, toml, writer, made, ops, views, pushed, answers, raced, trouble, given>>

\* stable_outcome: the relay answers with the prefix the replica has.
Told(p, prefix) ==
    /\ pass' = [pass EXCEPT ![p] = [@ EXCEPT !.pc = "answer", !.prefix = prefix]]
    /\ answers' = [answers EXCEPT ![Home[p]] = @ \cup {prefix}]

\* owned_prefix
Lookup(p) ==
    /\ pass[p].pc = "lookup"
    /\ IF uuid[Home[p]] # None THEN Told(p, uuid[Home[p]])
       ELSE pass' = [pass EXCEPT ![p].pc = "claim"] /\ UNCHANGED answers
    /\ UNCHANGED <<owner, uuid, toml, writer, made, ops, views, pushed, raced, trouble, given>>

\* The prefix asked for first, the candidates after it.
Wanted(p) == IF pass[p].attempt = 0 THEN pass[p].asked ELSE Candidates[Home[p]][pass[p].attempt]

\* Mutant of ClaimOutcome: only the prefix's item is looked at.
ClaimOutcomeByPrefix(p) == IF owner[Wanted(p)] # None THEN "taken" ELSE "claimed"

\* classify_cancellation: the replica's item outranks the prefix's.
ClaimOutcome(p) ==
    IF uuid[Home[p]] # None THEN "race" ELSE IF owner[Wanted(p)] # None THEN "taken" ELSE "claimed"

\* try_claim: both items are written, or the claim lost against this replica's
\* other request, or the next candidate is tried; without one the pass fails.
TryClaim(p) ==
    LET r == Home[p]
        outcome == ClaimOutcome(p)
    IN /\ pass[p].pc = "claim"
       /\ IF outcome = "claimed"
          THEN /\ owner' = [owner EXCEPT ![Wanted(p)] = r]
               /\ uuid' = [uuid EXCEPT ![r] = Wanted(p)]
               /\ Told(p, Wanted(p))
          ELSE /\ pass' = [pass EXCEPT ![p] =
                    CASE outcome = "race" -> [@ EXCEPT !.pc = "race"]
                      [] outcome = "taken" -> IF @.attempt = Len(Candidates[r]) THEN NoPass
                                              ELSE [@ EXCEPT !.attempt = pass[p].attempt + 1]]
               /\ UNCHANGED <<owner, uuid, answers>>
       /\ UNCHANGED <<toml, writer, made, ops, views, pushed, raced, trouble, given>>

\* resolve_uuid_race: what the other request claimed is the answer.
ResolveRace(p) ==
    /\ pass[p].pc = "race"
    /\ Told(p, uuid[Home[p]])
    /\ UNCHANGED <<owner, uuid, toml, writer, made, ops, views, pushed, raced, trouble, given>>

\* ----------------------------------------------------------------- the client

\* register_prefix: the prefix stands, or the log is exported to be rewritten.
Answered(p) ==
    /\ pass[p].pc = "answer"
    /\ pass' = [pass EXCEPT ![p] = IF @.prefix = @.asked THEN [@ EXCEPT !.pc = "push"]
                                   ELSE [@ EXCEPT !.pc = "remap", !.exported = ops[Home[p]]]]
    /\ UNCHANGED <<owner, uuid, toml, writer, made, ops, views, pushed, answers, raced, trouble, given>>

\* The ids of the old prefix, under the new one.
Renamed(entries, old, new) == {[o EXCEPT !.prefix = IF o.prefix = old THEN new ELSE o.prefix] : o \in entries}

\* The log after the exported ops that carry the old prefix were written again.
Rewritten(log, exported, old, new) ==
    {[o EXCEPT !.prefix = IF \E e \in exported : e.by = o.by /\ e.n = o.n /\ e.prefix = old
                          THEN new ELSE o.prefix] : o \in log}

\* Mutant of Remap: the views keep what they showed.
RemapLogOnly(p) ==
    LET r == Home[p]
        old == pass[p].asked
        new == pass[p].prefix
    IN /\ pass[p].pc = "remap"
       /\ ops' = [ops EXCEPT ![r] = Rewritten(@, pass[p].exported, old, new)]
       /\ pass' = [pass EXCEPT ![p].pc = "adopt"]
       /\ UNCHANGED <<owner, uuid, toml, writer, made, views, pushed, answers, raced, trouble, given>>

\* remap_prefix: the exported ops are rewritten, and the views rebuilt from
\* them, in one transaction; nothing is done where no id has the old prefix.
\* Whose ids they are is not asked.
Remap(p) ==
    LET r == Home[p]
        old == pass[p].asked
        new == pass[p].prefix
    IN /\ pass[p].pc = "remap"
       /\ IF \A o \in pass[p].exported : o.prefix # old THEN UNCHANGED <<ops, views>>
          ELSE /\ ops' = [ops EXCEPT ![r] = Rewritten(@, pass[p].exported, old, new)]
               /\ views' = [views EXCEPT ![r] = Renamed(pass[p].exported, old, new)]
       /\ pass' = [pass EXCEPT ![p].pc = "adopt"]
       /\ UNCHANGED <<owner, uuid, toml, writer, made, pushed, answers, raced, trouble, given>>

\* adopt_prefix
Adopt(p) ==
    /\ pass[p].pc = "adopt"
    /\ toml' = [toml EXCEPT ![Home[p]] = pass[p].prefix]
    /\ pass' = [pass EXCEPT ![p].pc = "push"]
    /\ UNCHANGED <<owner, uuid, writer, made, ops, views, pushed, answers, raced, trouble, given>>

Has(log, o) == \E e \in log : e.by = o.by /\ e.n = o.n

\* The pass pushes what its replica made and the stream does not have.
Push(p) ==
    LET r == Home[p]
    IN /\ pass[p].pc = "push"
       /\ pushed' = pushed \cup {o \in ops[r] : o.by = r /\ ~Has(pushed, o)}
       /\ pass' = [pass EXCEPT ![p].pc = "pull"]
       /\ UNCHANGED <<owner, uuid, toml, writer, made, ops, views, answers, raced, trouble, given>>

\* The pass has still to rewrite the log it finds, for another prefix than it asked for.
Stale(s, r) == s # NoPass /\ s.asked # uuid[r] /\ s.pc \in {"lookup", "claim", "race", "answer", "remap"}

\* It pulls a page and applies what the log does not have, to the log and the views.
Pull(p) ==
    LET r == Home[p]
    IN /\ pass[p].pc = "pull"
       /\ \E page \in SUBSET {o \in pushed : ~Has(ops[r], o)} \ {{}} :
            /\ ops' = [ops EXCEPT ![r] = @ \cup page]
            /\ views' = [views EXCEPT ![r] = @ \cup page]
       /\ raced' = IF \E q \in Processes : Home[q] = r /\ Stale(pass[q], r) THEN raced \cup {r} ELSE raced
       /\ UNCHANGED <<owner, uuid, toml, writer, made, pushed, pass, answers, trouble, given>>

\* The cursor stands still, or the pages or the time of a pass are used up.
EndPass(p) ==
    /\ pass[p].pc = "pull"
    /\ pass' = [pass EXCEPT ![p] = NoPass]
    /\ UNCHANGED <<owner, uuid, toml, writer, made, ops, views, pushed, answers, raced, trouble, given>>

\* The process is killed, the answer lost, or the request runs out of its time.
PassFails(p) ==
    /\ pass[p] # NoPass
    /\ trouble < MaxTrouble
    /\ trouble' = trouble + 1
    /\ pass' = [pass EXCEPT ![p] = NoPass]
    /\ UNCHANGED <<owner, uuid, toml, writer, made, ops, views, pushed, answers, raced, given>>

Next ==
    \/ \E r \in Replicas : OpenWorkspace(r) \/ Create(r)
    \/ \E p \in Processes :
        \/ Begin(p) \/ Lookup(p) \/ TryClaim(p) \/ ResolveRace(p)
        \/ Answered(p) \/ Remap(p) \/ Adopt(p) \/ Push(p) \/ Pull(p) \/ EndPass(p)
        \/ PassFails(p)

Spec == Init /\ [][Next]_vars

\* ----------------------------------------------------------------- properties

\* Every request of a replica is told one and the same prefix, whatever its
\* requests lost, repeated or ran at the same time.  (PrefixRegistry::register)
OneAnswer == \A r \in Replicas : Cardinality(answers[r]) <= 1

\* No op leaves a replica under a prefix that is not its own on the stream, so
\* no two replicas' ids are ever the same, where nothing is written meanwhile.
OwnPrefixOnly == Writers = "quiet" => \A o \in pushed : owner[o.prefix] = o.by

\* The views show every op of the log as the log has it, through a remap that
\* is interrupted or done twice, where nothing is written meanwhile and no page
\* was applied beside a remap to come.  (remap_prefix)
ViewsAgree == Writers = "quiet" => \A r \in Replicas \ raced : views[r] = ops[r]

\* What r pulled is in its log as the stream has it.
PulledUnchanged(r) == \A o \in ops[r] : o.by # r => o \in pushed

\* Another replica's ops stay as they are on the stream: a remap comes before
\* every pull, also where it is repeated, under the same two conditions.  (register_prefix)
PulledAsSent == Writers = "quiet" => \A r \in Replicas \ raced : PulledUnchanged(r)

\* What a replica writes and shows is under the prefix that is its own on the
\* stream, and what it pulled is left alone (adopt_prefix, remap_prefix).
PrefixIsKept == TypeOK /\ OwnPrefixOnly /\ ViewsAgree /\ PulledAsSent

\* "Remap the local store in place [...] BEFORE any push/pull" (engine.rs,
\* register_prefix): no remap touches an op that was pulled, whatever passes of
\* the replica run beside it.
RemapBeforePull == Writers = "quiet" => \A r \in Replicas : PulledUnchanged(r)
============================================================================
