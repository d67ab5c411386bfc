---------------------------- MODULE HostEffects ----------------------------
(***************************************************************************)
(* What a run owes, executed by the hosts that compete for it              *)
(* (crates/run-host: effects.rs, start.rs): messages posted to the chat    *)
(* store, threads opened for sessions, sessions spawned, signals sent.     *)
(*                                                                         *)
(* The world an effect changes is not the store that fences the hosts, so  *)
(* each effect is a walk through several calls with a ledger entry as its  *)
(* memory.  Every call is an action; between two of them the host may      *)
(* crash, or stand still for longer than its lease while another host      *)
(* takes the run over (Stalls says where).  The run's reducer is reduced   *)
(* to what matters here: an effect is owed until its result is folded.     *)
(***************************************************************************)
EXTENDS Integers, FiniteSets

CONSTANTS
  Host,         \* owner ids: a restarted service is another one
  RootKey,      \* the ledger key root/<run> of the commission's message
  Settings      \* Settings[n]: what a run owes, and what may happen to it meanwhile

VARIABLE given  \* the setting of this run

Delivery == Settings[given].delivery       \* ledger keys of the messages delivered to the root thread
Session == Settings[given].session         \* session keys, ledger key thread/<key>
Signal == Settings[given].signal           \* ledger keys stop/<session>/<nth>
Hosts == Settings[given].hosts             \* the hosts that run
Stalls == Settings[given].stalls           \* where a live host may outlast its lease: "never", "between" two ticks, or also "inside" one
MaxEpoch == Settings[given].max_epoch      \* bound: epochs of the lease
MaxFaults == Settings[given].max_faults    \* bound: refusals of the ports and the backend

ASSUME SettingsAssumption ==
  \A n \in DOMAIN Settings :
    /\ Settings[n].hosts \subseteq Host
    /\ Settings[n].stalls \in {"never", "between", "inside"}
    /\ Settings[n].max_epoch \in Nat \ {0} /\ Settings[n].max_faults \in Nat
    /\ IsFiniteSet(Settings[n].session)

\* The kinds of ledger keys have prefixes of their own.
ASSUME KeysAssumption ==
  \A n \in DOMAIN Settings :
    LET s == Settings[n]
    IN  /\ RootKey \notin s.delivery \cup s.session \cup s.signal
        /\ s.delivery \cap s.session = {} /\ s.delivery \cap s.signal = {} /\ s.session \cap s.signal = {}

Post == {RootKey} \cup Delivery
Effect == Post \cup Session \cup Signal
RootThread == 0

VARIABLES
  lease,     \* kv['owner/<run>'] with its expiry as a flag
  ledger,    \* kv['effect/<run>/<key>'] per effect
  refused,   \* kv['effect/<run>/waiting/chat_store'] exists
  opened,    \* threads of the chat store: [session, thread]
  messages,  \* messages of the chat store: [thread, key, id]
  routes,    \* kv['thread/<id>']: [thread, session]
  session,   \* kv['session/<key>']: the thread of a session, NoThread
  spawned,   \* the thread each session's process was given, NoThread
  signals,   \* how often each signal was sent
  inbox,     \* result inputs waiting
  folded,    \* result inputs in the log
  host,      \* each host's place in its tick and what it read
  faults     \* refusals so far

vars == <<lease, ledger, refused, opened, messages, routes, session, spawned, signals, inbox, folded, host, faults, given>>
chatVars == <<opened, messages>>
routeVars == <<routes, session, spawned>>

NoThread == -1
NoHost == "nobody"
NoEntry == [state |-> "none", id |-> 0, epoch |-> 0]
Entry == [state : {"none", "pending", "done"}, id : Nat, epoch : Nat]
Fresh == [pc |-> "idle", epoch |-> 0, effect |-> RootKey, todo |-> {}, read |-> NoEntry, thread |-> RootThread,
          id |-> 0, cached |-> FALSE, view |-> {}, started |-> {}]

Keys(inputs) == {i.key : i \in inputs}

Init ==
  /\ given \in DOMAIN Settings
  /\ lease = [owner |-> NoHost, epoch |-> 0, expired |-> TRUE]
  /\ ledger = [e \in Effect |-> NoEntry]
  /\ refused = FALSE
  /\ opened = {} /\ messages = {} /\ routes = {}
  /\ session = [s \in Session |-> NoThread] /\ spawned = [s \in Session |-> NoThread]
  /\ signals = [s \in Signal |-> 0]
  /\ inbox = {} /\ folded = {}
  /\ host = [h \in Hosts |-> Fresh]
  /\ faults = 0

-----------------------------------------------------------------------------
(* The lease and the tick around the effects.                              *)

\* pending_effects, as far as this module tells effects apart: everything waits for the root to be open.
Owed(known) == (IF RootKey \in known THEN Effect ELSE {RootKey}) \ known

\* runs.remove: the cached state and what this process started are forgotten.
Forget(r) == [r EXCEPT !.pc = "idle", !.cached = FALSE, !.view = {}, !.started = {}, !.todo = {}]

StillOurs(h) == lease.owner = h /\ lease.epoch = host[h].epoch /\ ~lease.expired
\* The store does not compare the epoch of a written entry.
FencedNever(h) == FALSE

\* check_effect_write: the epoch of the written value has to be the lease's.
Fenced(h) == host[h].epoch # lease.epoch

Goto(h, pc) == host' = [host EXCEPT ![h].pc = pc]
\* The effect is over for this tick: on to the next one.
NextEffect(h) == Goto(h, "check")
Drop(h) == host' = [host EXCEPT ![h] = Forget(@)]

\* acquire_or_renew at the top of the tick; a lease of another live owner is a skip, which drops the cache.
Acquire(h) ==
  /\ host[h].pc = "idle"
  /\ \/ /\ lease.expired /\ lease.epoch < MaxEpoch
        /\ lease' = [owner |-> h, epoch |-> lease.epoch + 1, expired |-> FALSE]
        /\ host' = [host EXCEPT ![h].pc = "fold", ![h].epoch = lease.epoch + 1]
     \/ /\ ~lease.expired /\ lease.owner = h
        /\ host' = [host EXCEPT ![h].pc = "fold", ![h].epoch = lease.epoch]
        /\ UNCHANGED lease
     \/ /\ ~lease.expired /\ lease.owner # h /\ host[h].cached
        /\ Drop(h)
        /\ UNCHANGED lease
  /\ UNCHANGED <<given, ledger, refused, chatVars, routeVars, signals, inbox, folded, faults>>

\* fold_run: the waiting inputs reach the log under the fence and are known to the cached state; without any, the
\* state is the cached one, however old, or a loaded one.
Fold(h) ==
  /\ host[h].pc = "fold"
  /\ \/ /\ inbox # {} /\ Fenced(h)
        /\ Drop(h)
        /\ UNCHANGED <<inbox, folded>>
     \/ /\ inbox = {} \/ ~Fenced(h)
        /\ folded' = folded \cup inbox
        /\ inbox' = {}
        /\ LET known == IF inbox = {} /\ host[h].cached THEN host[h].view ELSE Keys(folded')
           IN  host' = [host EXCEPT ![h].pc = "check", ![h].cached = TRUE, ![h].view = known, ![h].todo = Owed(known)]
  /\ UNCHANGED <<given, lease, ledger, refused, chatVars, routeVars, signals, faults>>

EntryPc(e) == IF e \in Signal THEN "found" ELSE "entry"

\* execute_run: one pass over the owed effects, each behind still_ours. A session this process already started is
\* passed over (start_session).
Check(h) ==
  /\ host[h].pc = "check"
  /\ \/ /\ host[h].todo = {}
        /\ Goto(h, "idle")
     \/ \E e \in host[h].todo :
          \/ /\ ~StillOurs(h)
             /\ Drop(h)
          \/ /\ StillOurs(h)
             /\ host' = [host EXCEPT ![h].todo = @ \ {e}, ![h].effect = e,
                                     ![h].pc = IF e \in host[h].started THEN "check" ELSE EntryPc(e)]
  /\ UNCHANGED <<given, lease, ledger, refused, chatVars, routeVars, signals, inbox, folded, faults>>

-----------------------------------------------------------------------------
(* The ledger entry.                                                       *)

\* Where a walk goes once its entry is known to be pending with this id.
AfterPending(e) ==
  CASE e \in Signal -> "send"
    [] e \in Delivery -> "find"
    [] OTHER -> "open"
\* A message found done was reported when it was posted.
AfterDoneReported(e) == IF e \in Session THEN "spawn" ELSE "check"

AfterDone(e) == IF e \in Session THEN "spawn" ELSE "result"

\* The id of a pending entry: a session's entry carries the id minted for its thread.
MintedId(e) == IF e \in Session THEN Cardinality({s \in Session : ledger[s] # NoEntry}) + 1 ELSE 0

\* entry_or_write's get, and what open_root, deliver and open_step_thread make of the entry found. A signal that
\* comes here found no entry one call earlier and is sent whatever this call finds (effects.rs stop).
ReadEntry(h) ==
  /\ host[h].pc = "entry"
  /\ LET e == host[h].effect
         found == ledger[e]
     IN  host' = [host EXCEPT
           ![h].thread = IF e \in Session THEN found.id ELSE RootThread,
           ![h].id = found.id,
           ![h].pc = CASE found.state = "none" -> "write"
                       [] found.state = "done" -> AfterDone(e)
                       [] OTHER -> AfterPending(e)]
  /\ UNCHANGED <<given, lease, ledger, refused, chatVars, routeVars, signals, inbox, folded, faults>>

\* entry_or_write's compare-and-set from absent.
WriteEntry(h) ==
  /\ host[h].pc = "write"
  /\ LET e == host[h].effect IN
     \/ /\ Fenced(h)
        /\ Drop(h)
        /\ UNCHANGED ledger
     \/ /\ ~Fenced(h) /\ ledger[e] # NoEntry
        /\ NextEffect(h)
        /\ UNCHANGED ledger
     \/ /\ ~Fenced(h) /\ ledger[e] = NoEntry
        /\ ledger' = [ledger EXCEPT ![e] = [state |-> "pending", id |-> MintedId(e), epoch |-> host[h].epoch]]
        /\ host' = [host EXCEPT ![h].pc = AfterPending(e), ![h].thread = IF e \in Session THEN MintedId(e) ELSE RootThread]
  /\ UNCHANGED <<given, lease, refused, chatVars, routeVars, signals, inbox, folded, faults>>

\* entry_set's get.
ReadForSet(h) ==
  /\ host[h].pc = "set"
  /\ host' = [host EXCEPT ![h].pc = "cas", ![h].read = ledger[host[h].effect]]
  /\ UNCHANGED <<given, lease, ledger, refused, chatVars, routeVars, signals, inbox, folded, faults>>

\* entry_set's compare-and-set to done:<id>.
SetDone(h) ==
  /\ host[h].pc = "cas"
  /\ LET e == host[h].effect IN
     \/ /\ Fenced(h)
        /\ Drop(h)
        /\ UNCHANGED ledger
     \/ /\ ~Fenced(h) /\ ledger[e] # host[h].read
        /\ NextEffect(h)
        /\ UNCHANGED ledger
     \/ /\ ~Fenced(h) /\ ledger[e] = host[h].read
        /\ ledger' = [ledger EXCEPT ![e] = [state |-> "done", epoch |-> host[h].epoch,
                                            id |-> IF e \in Session THEN host[h].thread ELSE host[h].id]]
        /\ Goto(h, AfterDone(e))
  /\ UNCHANGED <<given, lease, refused, chatVars, routeVars, signals, inbox, folded, faults>>

-----------------------------------------------------------------------------
(* The chat store.                                                         *)

\* The ledger key of a post is also its run_key; a session's turn is found by turn/<key> in its own thread.
Found(h) == {m \in messages : m.thread = host[h].thread /\ m.key = host[h].effect}

\* A port that refuses: bounded, so that retries can succeed.
PortRefuses == faults < MaxFaults /\ faults' = faults + 1

\* open_thread under an id the host knew before: a second open is the same op. A refused open of the root marks the
\* run as waiting for the chat store, one of a session's thread does not.
OpenThread(h) ==
  /\ host[h].pc = "open"
  /\ \/ /\ opened' = opened \cup {[session |-> host[h].effect, thread |-> host[h].thread]}
        /\ Goto(h, "find")
        /\ UNCHANGED faults
     \/ /\ PortRefuses
        /\ Goto(h, IF host[h].effect = RootKey THEN "mark" ELSE "check")
        /\ UNCHANGED opened
  /\ UNCHANGED <<given, lease, ledger, refused, messages, routeVars, signals, inbox, folded>>

\* An owner that forgot to look for its message after a crash.
FindNever(h) ==
  /\ host[h].pc = "find"
  /\ Goto(h, "post")
  /\ UNCHANGED <<given, lease, ledger, refused, chatVars, routeVars, signals, inbox, folded, faults>>

\* find_or_post's find.
Find(h) ==
  /\ host[h].pc = "find"
  /\ \/ /\ PortRefuses
        /\ Goto(h, "mark")
     \/ /\ Found(h) = {}
        /\ Goto(h, "post")
        /\ UNCHANGED faults
     \/ /\ \E m \in Found(h) : host' = [host EXCEPT ![h].pc = "clear", ![h].id = m.id]
        /\ UNCHANGED faults
  /\ UNCHANGED <<given, lease, ledger, refused, chatVars, routeVars, signals, inbox, folded>>

\* find_or_post's post: nothing in the chat store refuses a second message with the key.
PostMessage(h) ==
  /\ host[h].pc = "post"
  /\ \/ /\ PortRefuses
        /\ \/ Goto(h, "mark")
           \/ NextEffect(h)           \* the body could not be read: nothing is posted and nothing marked
        /\ UNCHANGED messages
     \/ /\ messages' = messages \cup {[thread |-> host[h].thread, key |-> host[h].effect, id |-> Cardinality(messages) + 1]}
        /\ host' = [host EXCEPT ![h].pc = "clear", ![h].id = Cardinality(messages) + 1]
        /\ UNCHANGED faults
  /\ UNCHANGED <<given, lease, ledger, refused, opened, routeVars, signals, inbox, folded>>

\* mark_chat_refused: fenced like every written entry, and a failure of it is only noted.
MarkRefused(h) ==
  /\ host[h].pc = "mark"
  /\ refused' = (refused \/ ~Fenced(h))
  /\ NextEffect(h)
  /\ UNCHANGED <<given, lease, ledger, chatVars, routeVars, signals, inbox, folded, faults>>

AfterPost(e) == IF e \in Session THEN "route" ELSE "set"

\* clear_chat_refused: a delete, which the store does not fence.
ClearRefused(h) ==
  /\ host[h].pc = "clear"
  /\ refused' = FALSE
  /\ Goto(h, AfterPost(host[h].effect))
  /\ UNCHANGED <<given, lease, ledger, chatVars, routeVars, signals, inbox, folded, faults>>

-----------------------------------------------------------------------------
(* Sessions, signals and results.                                          *)

\* write_route: from absent only.
WriteRoute(h) ==
  /\ host[h].pc = "route"
  /\ routes' = IF \E r \in routes : r.thread = host[h].thread THEN routes
               ELSE routes \cup {[thread |-> host[h].thread, session |-> host[h].effect]}
  /\ Goto(h, "session")
  /\ UNCHANGED <<given, lease, ledger, refused, chatVars, session, spawned, signals, inbox, folded, faults>>

\* The route from the session key to its thread: from absent only.
WriteSession(h) ==
  /\ host[h].pc = "session"
  /\ session' = [session EXCEPT ![host[h].effect] = IF @ = NoThread THEN host[h].thread ELSE @]
  /\ Goto(h, "set")
  /\ UNCHANGED <<given, lease, ledger, refused, chatVars, routes, spawned, signals, inbox, folded, faults>>

\* backend.start: the first one spawns, every other one finds its record (module SessionBackend has the details).
Spawn(h) ==
  /\ host[h].pc = "spawn"
  /\ LET s == host[h].effect IN
     \/ /\ spawned' = [spawned EXCEPT ![s] = IF @ = NoThread THEN host[h].thread ELSE @]
        /\ host' = [host EXCEPT ![h].pc = "check", ![h].started = @ \cup {s}]
        /\ UNCHANGED faults
     \/ /\ PortRefuses
        /\ NextEffect(h)
        /\ UNCHANGED spawned
  /\ UNCHANGED <<given, lease, ledger, refused, chatVars, routes, session, signals, inbox, folded>>

\* enqueue: a key that waits or is logged is a Duplicate.
Enqueue(key, id) ==
  inbox' = IF key \in Keys(inbox \cup folded) THEN inbox ELSE inbox \cup {[key |-> key, id |-> id]}

\* The session's process reports that it started, and a drain enqueues the fact.
ReportStart(s) ==
  /\ spawned[s] # NoThread /\ s \notin Keys(inbox \cup folded)
  /\ Enqueue(s, spawned[s])
  /\ UNCHANGED <<given, lease, ledger, refused, chatVars, routeVars, signals, folded, host, faults>>

\* stop's own look for the entry: one that is there is taken as sent.
FindSignal(h) ==
  /\ host[h].pc = "found"
  /\ Goto(h, IF ledger[host[h].effect] = NoEntry THEN "entry" ELSE "result")
  /\ UNCHANGED <<given, lease, ledger, refused, chatVars, routeVars, signals, inbox, folded, faults>>

\* The signal itself; one that could not be sent is recorded all the same.
SendSignal(h) ==
  /\ host[h].pc = "send"
  /\ \/ /\ signals' = [signals EXCEPT ![host[h].effect] = @ + 1]
        /\ UNCHANGED faults
     \/ /\ PortRefuses
        /\ UNCHANGED signals
  /\ Goto(h, "result")
  /\ UNCHANGED <<given, lease, ledger, refused, chatVars, routeVars, inbox, folded>>

\* root_opened, delivered or stop_signalled: the input that ends the effect.
EnqueueResult(h) ==
  /\ host[h].pc = "result"
  /\ Enqueue(host[h].effect, host[h].id)
  /\ NextEffect(h)
  /\ UNCHANGED <<given, lease, ledger, refused, chatVars, routeVars, signals, folded, faults>>

-----------------------------------------------------------------------------
(* Time and crashes.                                                       *)

\* The lease runs out: under a dead host, under one that is suspended between two ticks, or under one whose tick
\* takes longer than the lease.
Expire ==
  /\ ~lease.expired /\ lease.epoch < MaxEpoch
  /\ \/ host[lease.owner].pc = "dead"
     \/ Stalls = "between" /\ host[lease.owner].pc = "idle"
     \/ Stalls = "inside"
  /\ lease' = [lease EXCEPT !.expired = TRUE]
  /\ UNCHANGED <<given, ledger, refused, chatVars, routeVars, signals, inbox, folded, host, faults>>

\* A host process dies at any boundary (boundary.rs); the last one stays, so that somebody is left to finish.
Crash(h) ==
  /\ host[h].pc # "dead" /\ lease.epoch < MaxEpoch
  /\ \E other \in Hosts \ {h} : host[other].pc # "dead"
  /\ host' = [host EXCEPT ![h] = [Fresh EXCEPT !.pc = "dead"]]
  /\ UNCHANGED <<given, lease, ledger, refused, chatVars, routeVars, signals, inbox, folded, faults>>

HostStep(h) ==
  \/ Acquire(h) \/ Fold(h) \/ Check(h)
  \/ ReadEntry(h) \/ WriteEntry(h) \/ ReadForSet(h) \/ SetDone(h)
  \/ OpenThread(h) \/ Find(h) \/ PostMessage(h) \/ MarkRefused(h) \/ ClearRefused(h)
  \/ WriteRoute(h) \/ WriteSession(h) \/ Spawn(h)
  \/ FindSignal(h) \/ SendSignal(h) \/ EnqueueResult(h)

Next ==
  \/ \E h \in Hosts : HostStep(h) \/ Crash(h)
  \/ \E s \in Session : ReportStart(s)
  \/ Expire

Spec == Init /\ [][Next]_vars

\* A service that lives keeps ticking, an abandoned lease runs out, a spawned process reports.
FairSpec ==
  /\ Spec
  /\ \A h \in Host : WF_vars(h \in Hosts /\ HostStep(h))
  /\ WF_vars(\E s \in Session : ReportStart(s))
  /\ WF_vars(Expire)

-----------------------------------------------------------------------------
(* Properties.                                                             *)

\* Every variable has its type: one entry per effect, a host is at a step of the tick.
TypeOK ==
  /\ lease \in [owner : Host \cup {NoHost}, epoch : 0..MaxEpoch, expired : BOOLEAN]
  /\ ledger \in [Effect -> Entry]
  /\ refused \in BOOLEAN
  /\ opened \subseteq [session : Session \cup {RootKey}, thread : Nat]
  /\ messages \subseteq [thread : Nat, key : Post \cup Session, id : Nat]
  /\ routes \subseteq [thread : Nat, session : Session]
  /\ session \in [Session -> Nat \cup {NoThread}] /\ spawned \in [Session -> Nat \cup {NoThread}]
  /\ signals \in [Signal -> Nat]
  /\ inbox \subseteq [key : Effect, id : Nat] /\ folded \subseteq [key : Effect, id : Nat]
  /\ faults \in 0..MaxFaults
  /\ \A h \in Hosts :
       /\ host[h].pc \in {"idle", "dead", "fold", "check", "found", "entry", "write", "set", "cas", "open", "find",
                          "post", "mark", "clear", "route", "session", "spawn", "send", "result"}
       /\ host[h].epoch \in 0..MaxEpoch /\ host[h].effect \in Effect /\ host[h].todo \subseteq Effect
       /\ host[h].read \in Entry /\ host[h].thread \in Nat /\ host[h].id \in Nat
       /\ host[h].cached \in BOOLEAN /\ host[h].view \subseteq Effect /\ host[h].started \subseteq Session

\* "A crash after the post never posts twice" (effects.rs find_or_post): wherever hosts crash and whoever takes
\* over, a message is in the chat store once, as long as no host outlives its lease inside a tick.
PostedOnce ==
  Stalls # "inside" => \A m, n \in messages : m.thread = n.thread /\ m.key = n.key => m = n

\* "Exactly the table's signals across any restart" (effects.rs stop): no signal of the ladder is sent twice,
\* under the same condition.
SignalledOnce ==
  Stalls # "inside" => \A s \in Signal : signals[s] <= 1

\* The message a result input names is the one the ledger keeps, and it is in the chat store, even where a host that
\* stood still posted a second one: the run and its ledger never disagree about what was delivered.
DeliveredAgrees ==
  \A i \in inbox \cup folded : i.key \in Post =>
    /\ ledger[i.key].state = "done" /\ ledger[i.key].id = i.id
    /\ [thread |-> RootThread, key |-> i.key, id |-> i.id] \in messages

\* The thread id is in the ledger before the thread is opened (start.rs open_step_thread): however often the open is
\* repeated, and by whom, a session has one thread.
OneThreadPerSession == \A a, b \in opened : a.session = b.session <=> a.thread = b.thread

\* A session is spawned only into a thread that can be routed in both directions and holds its turn: a reply that
\* comes at once finds its run (bridge.rs), whatever crash separated the steps.
SpawnedIsRouted ==
  \A s \in Session : spawned[s] # NoThread =>
    /\ session[s] = spawned[s]
    /\ [thread |-> spawned[s], session |-> s] \in routes
    /\ \E m \in messages : m.thread = spawned[s] /\ m.key = s

\* The row behind `waiting_for: "the chat store"` is there only while a post is still to be made: no owner leaves it
\* behind for a run whose messages have all been posted (effects.rs mark_chat_refused, clear_chat_refused).
RefusedMeansOwed == refused => \E e \in Post \cup Session : ledger[e].state # "done"

\* Whatever crashes and refusals interrupt it, every owed effect ends with its result folded (execute_run derives it
\* again each tick), as long as no live host is suspended for longer than its lease.
EffectsComplete == Stalls = "never" => <>(Keys(folded) = Effect)

\* What a host does to the world for one effect is there once (effects.rs find_or_post, stop; start.rs
\* open_step_thread), through every crash and every change of owner.
DoneOnce == PostedOnce /\ SignalledOnce /\ OneThreadPerSession

\* What is written down of the effects agrees with the world: results with messages, sessions with their routes and
\* turns, the note of a refusal with what is still owed.
RecordsAgree == TypeOK /\ DeliveredAgrees /\ SpawnedIsRouted /\ RefusedMeansOwed
=============================================================================
