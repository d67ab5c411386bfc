# TLA+ models of nexus-flow

nexus-flow is a local-first issue tracker (`nxf`), a memory (`nxm`) and a chat with
orchestrated agent runs (`nxc`), over one replicated op log, served by one binary (`nxs`).
This directory holds TLA+ models of its core, TLC configurations that check them on small
instances, and TLAPS proofs. `PROJECT.json` names, for every definition, the source lines it
models, and for every hazard of the code the properties that are about it.

Modelled are the three parts of the program that are concurrent and hard to test:

- the **run kernel**, which drives agent runs to an outcome in spite of crashes, lost leases,
  racing timers and processes that will not die;
- the **op log and its exchange**: several processes of one replica, sync passes, the relay's
  sequence, and the prefixes replicas write under;
- the **server-side fold** of a stream.

## Running the checks

    tlc -workers 2 -config MCRunStore.cfg MCRunStore     # and so on for every MC module
    tlapm RunStoreProofs.tla                             # and so on for every Proofs module

`MCRunEngineSampler.cfg` (with `MCRunEngine`) and `MCSyncFault.cfg` (with `MCSync`) are expected to
end in a counterexample; see *Findings*.

## The system

| component | state | operations | hard behaviour |
|---|---|---|---|
| run store (`run-store-sqlite`) | per run: event log, inbox, timer index, row; a key-value table with leases, claims, poison counts, effect ledger | `enqueue`, `append`, `acquire_or_renew`, `compare_and_set` | several processes; every call is one transaction, a decision spans several |
| run host (`run-host`) | leases it believes in, cached run states | one `tick`: leases, drain sessions, poll the tree worker, fire timers, fold, execute effects, take claims | stale caches, lost leases, crashes at 24 named boundaries, panicking inputs |
| run engine (`run-engine`) | `RunState`: phase, slots, questions, timers | pure: `decide`, `evolve`, `pending_effects` | facts, timers and people's interventions in any order |
| session backend (`run-session-claude`) | process ledger, fact file | start, stop, alive, drain, sample | processes that outlive their leader, sampling that fails |
| tree worker (`run-host/tree_*`) | child process, its ledger | prepare, park, cancel | a worker that outlives its host |
| bridge (`run-host/bridge.rs`) | none | chat message to input | parsing |
| op log (`foundation`) | ops, clock, views, two fold watermarks | mint, ingest, fold, rebuild, refold | several processes per replica, revisions side by side, reordering, duplicates |
| task, memory and chat reducers (`core`, `memory`, `chat`) | views | fold one op | convergence |
| sync (`sync`, `nxs/src/sync`) | `pushed_through`, `pulled_through`, the binding | push, pull, register a prefix, bind | partial failure of a pass, passes at once |
| relay (`server`) | per-stream sequence, op and claim items, prefix registry | append, read since, register, purge | concurrent conditional writes, gaps in a sequence, lost answers |
| server-side fold (`fold-ddb`) | rows, index entries, watermark | fold a batch, clear, export, import, serve | no transaction spans two items; builds of other rules |
| background service (`service`, `nxs`) | lock, heartbeat, orders, deadlines | serve, tick, wake | stale files of dead processes |
| older orchestration (`chat/src/orchestration.rs`) | threads, parks, working trees | superseded by the run kernel | as the run kernel |
| facades, command lines, sidecars, packaging | none of their own | validation, output | |

How they interact: a CLI, the bridge, the backend's facts, timers and finished effects all
become **inputs** in a run's inbox. The host that owns the run takes the oldest input, lets
the engine decide, and appends input and decisions to the log in one fenced transaction. From
the resulting state the engine derives the effects that are owed; the host executes them at
least once, and each result is again an input. Chat messages, tasks and memory facts are **ops**
of the op log. A sync pass pushes a replica's own ops to the relay and pulls the others'; the relay
numbers them; a server may fold the numbered ops into tables of its own.

What makes each part correct, in a sentence:

- store and host: at most one host writes under an epoch; every accepted input is folded
  exactly once, in order, or is accounted for as poison; the timer index is the log's;
- engine: no state without a way on, no process without a watcher, one process per persona, no
  step left with an answer missing, no loop past its ceiling without a person, and the end of a
  run leaves nothing behind;
- effects: an effect is done at least once and its trace in the world at most once; a claim is
  held by a run that is not finished, one run at a time is in a workspace's tree;
- session backend: one process per session, no fact skipped, an end is the end and is told;
- op log: a replica's own ops climb, at coordinates of their own; the view is the fold of what
  its watermark vouches for;
- sync and relay: no op is skipped by a position; a reader of the relay never meets a number below
  one it has seen; every op arrives; a replica writes under a prefix of its own;
- server-side fold: what is served is whole and folded by the reader's rules.

## Modules

| module | models | shape |
|---|---|---|
| `RunStore` | one run in the store, and the hosts competing for it | one action per store transaction |
| `RunEngine` | the reducer of one run | one variable `st`, the `RunState`; one action per input |
| `HostEffects` | a host's execution of a run's effects: posts, starts of sessions, stop signals, their ledger | one action per call that a crash may follow |
| `Claims` | the claim of a workspace by several runs, from `take_claims` to its release | one action per call; refines `Workspace` |
| `Workspace` | the abstract workspace: one run at a time in the tree | |
| `SessionBackend` | spawn claim, child record, process group, fact file, drain and confirmed end of one session | one action per file or process operation |
| `OpLog` | processes of one replica on one log: mint, ingest, fold, rebuild, refold | one action per transaction |
| `Relay` | the DynamoDB append of `store_ddb.rs` | one action per request; refines `OrderedLog` |
| `OrderedLog` | the abstract stream: a reader meets ops in the order of their numbers | |
| `Sync` | passes of several processes on several workspaces, against one relay | one action per request, page or file write |
| `Prefixes` | prefix registration, the exchange of a taken prefix, the push and pull after it, writers and passes beside it | one action per request, page or transaction |
| `ServerFold` | one stream in `fold-ddb`: fold, clear, snapshot, readers | one action per item written, a read in two |
| `MC<module>` | its instance for TLC | |
| `<module>Proofs` | proofs about `RunStore`, `RunEngine`, `HostEffects`, `Claims`, `SessionBackend`, `OpLog`, `Prefixes` and `ServerFold`, see *Proofs* | |

**Settings.** Most modules have a variable `given`, chosen in `Init` and never changed, that names a
record of `Settings`: the cast and the troubles of one scenario (hosts that crash, hosts that stand
still inside a call, a sampler that fails, a gap an earlier build left). One run thus covers several
scenarios, each as small as its question allows. Where a property holds under part of the
settings only, its definition begins with that condition and the comment says why; what happens otherwise is
under *Findings*.

**Properties.** The properties a run checks are few and broad: each is one idea, a conjunction of named parts
that say it of one piece of the state. `OneOwner` is `NoSharedEpoch` and `OneWriterPerEpoch`;
`TimersAgree` is what the engine's timers watch, what they may not outlive, and what a run itself waits with. Where
no run checks a type invariant on its own it is a part of one of them.

### RunStore

| variable | code |
|---|---|
| `lease` | `kv['owner/<run>']`, a `Lease` (`lease.rs`) |
| `row`, `max_v` | the run's row in `runs` |
| `log`, `inbox`, `timers` | the tables of `schema.rs` |
| `stamp` | the `v` of an input's row, which is the version of the process that enqueued it and is kept when a host folds it (`fold.rs`, `reduce`) |
| `poison` | `kv['poison/<run>/<key>']` |
| `held[h]` | the epoch `host.rs` `leases` handed to this tick |
| `cache[h]` | the cached `RunState`, known by the seq it is the fold of; or read-only after a refusal |
| `step[h]` | what the host has read and not yet used: a lease, an input, a poison count |
| `accepted` | history: what `enqueue` said `Accepted` to |

Each store call is an `IMMEDIATE` transaction, so it is one action; between two calls of one
host any other host may act. `AcquireRead`/`AcquireCas` split `acquire_or_renew` at its only
gap. `NextInput` and `CommitInput` split the fold between reading the inbox and `append`.
`AppendResult` gives the error `append` answers with, in the order of its checks, and
`Refused` what `append_refused` does about it. `CountPoisonRead`, `CountPoison`,
`ConsumePoisonRead` and `ConsumePoison` are the panic path. `FireDueTimer` enqueues a firing
whose key names the instant, as `fire_due_timers` does.

A crash needs no action: a crashed host takes no further step, and the restarted service has
a fresh owner id, hence is another member of `Host`. What the engine decides is left open:
any of the decision lists `Decided` enumerates (ignore, set a timer, clear it, finish).

### RunEngine

`st` is `RunState` without texts, pids and instants. An action is one input; its guard is
`guard.rs` `ignored_reason` together with the effect that must be owed for the input to come,
its result is `apply_input` followed by all decisions of `decide` in order. Helpers carry the names
of the functions they model (`ArmReady` is `arm_ready`, `AfterReply` is `after_reply`). A slot
is a record with its state in `at`, the stop ladder in `ladder`, and its restart and hold budgets.
A timer is a pair of purpose and slot. It may fire at any time while it is armed: no order
of deadlines is assumed, so the model has every race between a timer and what it waits for.
The ladder's `logged` is history: the highest signal number whose `stop_signalled` is in the log.
The flow's steps and the policy's budgets are fields of the setting. `May` switches
what a hostile environment may do: a sampler that works and then fails, an input that is
poisonous, a session that reports its start after its end, a process group that outlives its leader.

### HostEffects, Claims, SessionBackend

`HostEffects` has the chat store (`Find`, the post, its key), the route and thread of a session, the
effect ledger (`done` entries, signals), the refusals noted on a run, and the hosts. A host
re-checks its lease (`Fenced`), reads the ledger entry, searches, acts, notes and enqueues, each a step
after which it may die. `Stalls` says where a host may stand still while its lease runs out: never,
between ticks, or inside a call.

`Claims` has the claim's value, each run's phase and inbox, and hosts that take leases, fold, prepare
the tree, release, and try the queued runs in order. `Workspace` is the promise: the set of runs in
the tree has at most one member. `Exclusive` is the refinement, `InTree` the mapping.

`SessionBackend` has the spawn claim (`O_EXCL`), `child.json`, the processes, the fact file and the read
position in the store. A start is decided (`DecideStart`) some calls before its claim is created (`ClaimSpawn`) and written
(`WriteClaim`), and the run may stop the session or be told of its end in between; the history variable `overtaken` says that it did. An end
reaches the run as a fact that was drained, as the confirmed death after a drain, or as the answer `Lost` of a second start. `Blind` lets the
list of processes fail (`ListingFails`, `EndState::Unverifiable`).

### OpLog, Relay, Sync, Prefixes

`OpLog` has the log with row ids, the register's stored winner, both watermarks (`folded_through`,
`revision_through`), and for each process its clock and what it decided at its opening. `RefreshClock`
and `FirstFree` are the mint under the write lock, `Observed` the bound on what a received op does to the
clock, `MarkAfter` the watermark after one op, `NewBoundary` a refold's.

`Relay` has the table's items (counter, claims, ops), and for each relay process the push it works on: the slot
it computed, its transaction, the classification of a cancelled one, and the rounds it has left. A reader
reads from its cursor; `InOrder` says that the table, as readers see it, is an `OrderedLog`.
The SQLite and Postgres stores append under one lock and are `OrderedLog`'s append as it stands.

`Sync` has each workspace's log and saved file (`stream`, `pushed`, `pulled`), the streams, and the passes
with the copy of the file they loaded. A batch that is too large is halved; an op alone that is too
large ends the push and not the pass.

`Prefixes` has the registry's two items per claim, `replica.toml`, each replica's log and views, and the passes between their steps: register,
export, remap, adopt, push, pull page by page. An op is its maker, its number there and the prefix its id has at the moment, so that a remap may be
seen to rename another replica's. A `writer` is a process that keeps the prefix it loaded; `raced` is history: the replicas that applied a page
while another of their passes had still to remap.

### ServerFold

Every write is one item: a row, the entries derived from it, its flag, the watermark. A run may die
between any two. `Begin` is the driver of the runs, outside the crate: it clears a stream that is not of its
build's rules and folds otherwise. `Deploy` changes the build, also back. `ExportMark`, `ExportTable`, `ExportEnds`
are a snapshot taken without a lock, `Import` to `Stamp` a start from it. `Serves` is `check_current`, which compares the revisions of the task reducer
and of the indexes; `IsCurrent`, by which a run decides to clear, compares every reducer's (`other` stands for chat and memory). A reader checks once (`CheckCurrent`) and
is somewhere among its items until `ReadEnds`: what it may find is said of every state in between.

## Runs

| run | settings | distinct states |
|---|---|---|
| `store` | 2 hosts of versions 1 and 2, 3 inputs of which one always panics and one is of either version, clock 6, expiry 3, log 4; or 1 host, inputs of its version, a timer, the panicking input, clock 3, log 12 | 1.31 M |
| `engine` | `session`: 1 step, 2 attempts, all facts, causes and timers; `back`: build and review with a back edge of one pass, 6 attempts; `fan`: two members and a synthesis, 4 attempts; `late`: late starts and poison around the end | 1.0 M |
| `effects` | `crash`: 2 hosts, a delivery, a session, a signal, 2 refusals, 3 epochs; `suspend`: 3 hosts suspended between ticks; `stall`: 2 hosts that stand still anywhere, 2 sessions | 1.15 M |
| `claims` | `alone`: 1 host whose ticks are short of budget; `crash`: 2 hosts; `suspend`: 2 hosts suspended between ticks; 2 runs, 2 epochs | 0.90 M |
| `backend` | `alone`: 1 host, 2 facts, listing may fail; `record`: the child record may fail; `two`: 2 hosts | 1.64 M |
| `oplog` | `siblings`: ops at the bound of the clock and on this site; `views`: one revision beside a sync pass; `revisions`: an older and two newer processes; `upgraded`: a file an older binary left | 0.36 M |
| `relay` | 2 relays on a fresh stream, one with a gap, one older than its counter; 1 relay over gaps, uncounted ops and a late put, with ids that share a claim key; 2 relays to the end | 0.26 M |
| `sync` | `push`: 2 passes of one workspace, every fault and a rebind; `pull`, `rebind`: 3 passes of two; `large`: an op no relay takes | 0.67 M |
| `prefixes` | `quiet`: two replicas of one minted prefix, one with two passes at once, 2 ops each, nobody writes in a pass; `writing`: writers at any time, candidates that run out | 0.90 M |
| `serverfold` | `deploys`: 2 deaths, 2 deployments of 4 builds; `snapshots`: one of each and a snapshot; a reader at any time | 2.32 M |
| `engine_sampler`, `sync_fault` | the smallest settings with the finding; they end in a counterexample | |

What they show:

- `store`. `OneOwner`: no two hosts believe in one epoch, and the log has one writer per epoch. `ExactlyOnce`: an accepted
  input is folded once and never lost. `LogInOrder`: inputs in the order of their acceptance, nothing decided after
  `finished`. `VersionsRise`: a version falls only from an input to its own decisions. `TimerIndexAgrees`. `InboxDrainsAlone`: a panicking input
  does not hold up the others.
- `engine`. `TimersAgree`, `EveryStateHasARemedy`, `KeysNeverRepeat`, `StepsAreLeftInOrder` (answers and ceilings),
  `PersonasTakeTurns`, `EndsInOrder`; `NothingStartsAfterFinishing`; `WithdrawalFinishes`.
- `effects`. `DoneOnce`: posts, signals and threads. `RecordsAgree`: ledger, routes and notes with the world.
  `EffectsComplete`: everything owed is done in the end.
- `claims`. `Exclusive`: the refinement of `Workspace`. `ClaimIsSound`: the holder is not over. `OldestFirst`. `EveryRunFinishes`.
- `backend`. `OneProcess`. `FactsAreTrue`: no line skipped, no end before the end, but for a start that was overtaken. `EndIsReported`.
- `oplog`. `MintsAreSound`: own ops climb, have their coordinate, fold, and never panic. `VouchedViews`: the view is
  the fold of what the watermark vouches for.
- `relay`. `InOrder`: the refinement of `OrderedLog`. `StoredInPlace`: no number without its op, answers are true.
  `NeverExhausted`: an earlier build's leftovers do not use up the rounds. `EveryPushLands`.
- `sync`. `PositionsHold`: neither position passes over an op. `EveryOpArrives`.
- `prefixes`. `OneAnswer`. `PrefixIsKept`: what is pushed is under its maker's prefix; views follow the log and pulled ops stay as sent, unless
  a page was applied beside a remap to come.
- `serverfold`. `ServedIsCurrent`: what a reader finds until a clear begins is whole and of its rules. `NeverServedLess`. `EndsServed`.

**Bounds.** With two hosts every pair of steps of two owners interleaves, and a clock of twice the
lease expiry lets the run change owner and come back. Three inputs are a first, a good and a
panicking one; a log of 4 holds the commission, an input with its decisions, and a poison park. In the engine
two attempts are enough for a slot to be superseded; the ladder has three rungs and all fit. Two runs
are a holder and one that waits. Three hosts in `suspend` let a run pass from one to another
and back. Two facts are one before and one after a drain. Three own ops at a ceiling of 2 and a clock bound of 7
leave the coordinates above the ceiling to be met, squatted on and skipped. In `Relay` two pushes of at most two ops make
every conflict of two transactions, and the sequence ends at the bound. In `Sync` a request or a page
takes one op or two, so what is left to send or to read fits in one or needs a second. In `Prefixes` two ops are one pushed before and one after an exchange. Two deployments
of four builds are an upgrade and a rollback, of the indexes, of the chat's reducer, or of indexes and task reducer.

`MaxSlots` refuses the input that would exceed it (`Become`), `MaxSignals` the resumption of a stop
that would; every other bound is a guard of the action that counts. Deadlock is checked in `oplog`, `sync`
and `prefixes`. In the others a finished run, or an instance at its bounds, does stop.

**Fairness.** It is weak fairness of what the program itself keeps doing, with one exception.

- `store`: the steps of a host. The service's loop calls `tick` for as long as it lives, and `tick`
  folds until the inbox is empty; its time budget only puts work off.
- `engine`: `HostProgress`. The host executes what is owed, fires what is due, and a process that was sent
  SIGKILL ends. Of a session that got SIGTERM nothing is assumed, nor that a person does anything.
- `effects`, `claims`: the steps of each host, which the same loop repeats, a spawned process that reports, work that
  ends, a lease that runs out. Strong fairness is asked once: a parking that is tried again and again succeeds.
- `backend`: the starts and drains of a host that, from some time on, neither dies nor is refused and can list the processes.
- `relay`: the rounds of a push, which are a loop of one request, and that DynamoDB makes visible what it accepted.
- `sync`: the steps of a pass and the beginning of the next one, which the service repeats; failures are finite.
- `serverfold`: a run or export that began goes on until it ends or dies, and runs are begun.

## Proofs

Each `<module>Proofs` proves the safety properties of its module for every value of the constants:
any number of hosts, runs, processes, replicas, ops or slots, logs of any length, any bounds. What a
property assumes of its setting is in its definition, so it is part of the theorem. The invariants below
(`OwnerInv`, `IInv`, `Shape`, ...) were first checked by TLC on the settings of the runs.

| module | theorem | states |
|---|---|---|
| `RunStoreProofs` | `TypeCorrect` | `Spec => []TypeOK` |
| | `OneOwnerAtATime` | `Spec => []OneOwner`, from `EpochsAreNotShared` and `LogHasOneWriterPerEpoch` |
| | `InputsAreFoldedExactlyOnce` | `Spec => []ExactlyOnce`, from `InputsAreFoldedOnce` and `AcceptedInputsAreKept` |
| | `LogStaysInOrder`, `VersionsNeverFall` | `Spec => []LogInOrder`, `Spec => []VersionsRise` |
| | `TimerIndexNeverDisagrees` | `Spec => []TimerIndexAgrees` |
| `RunEngineProofs` | `TypesHold` | `Spec => []TypeOK`, with the budgets of restarts and holds |
| | `TimersStayInStep` | `TimersAgree`, from `LiveSlotsStayWatched`, `WaitsStayTimed` and `TimersFitTheirSlot`; as long as sampling does not fail |
| | `EveryStateKeepsARemedy` | `EveryStateHasARemedy`, under the same condition |
| | `KeysStayNew` | `Spec => []KeysNeverRepeat`, from `KeysAreUnique` and `StopKeysStayNew` |
| | `StepsLeftInOrder`, `PersonasKeepTurns` | `Spec => []StepsAreLeftInOrder`, `Spec => []PersonasTakeTurns` |
| | `RunsEndInOrder` | `Spec => []EndsInOrder` |
| | `FinishingIsFinal` | `Spec => NothingStartsAfterFinishing` |
| | `ShapeHolds`, `OrderHolds` | the two layers of the invariant, see below |
| `HostEffectsProofs` | `EffectsAreDoneOnce`, `RecordsAgreeWithTheWorld` | `Spec => []DoneOnce`, `Spec => []RecordsAgree` |
| `ClaimsProofs` | `OneRunAtATime` | `Spec => Exclusive`: `Claims` implements `Workspace` |
| | `ClaimStaysSound`, `TheOldestGoesFirst` | `Spec => []ClaimIsSound`, `Spec => OldestFirst` |
| `SessionBackendProofs` | `OneProcessPerKey`, `FactsStayTrue` | `Spec => []OneProcess`, `Spec => []FactsAreTrue` |
| `OpLogProofs` | `MintsStaySound`, `VouchedViewsAreWhole` | `Spec => []MintsAreSound`, `Spec => []VouchedViews` |
| `PrefixesProofs` | `OneAnswerPerReplica`, `PrefixesAreKept` | `Spec => []OneAnswer`, `Spec => []PrefixIsKept` |
| `ServerFoldProofs` | `NothingIsAhead` | `Spec => []TypeOK` |
| | `ServedStaysCurrent`, `ServedNeverShrinks` | `Spec => []ServedIsCurrent`, `Spec => []NeverServedLess` |

### Why the invariants are what they are

**RunStore.** `NoSharedEpoch` and `OneWriterPerEpoch` are not inductive. The invariant `OwnerInv` adds
`LeaseInv`: no host believes in an epoch above the lease's, a host that believes in the
lease's current epoch is its owner, and a compare-and-set that a host has prepared either raises
the epoch it read by one or renews a lease that was its own; and `LogInv`: an event of the
lease's current epoch was written by the lease's owner. `CasPreserves` shows that the compare-and-set
of the lease keeps it (the epoch rises exactly when the owner may change), `AppendPreserves`
that a fenced append does, and `StaysOwned` covers steps that touch neither. The clock appears
in none of these: two owners are kept apart by the compare-and-set and the fence, never by
the time at which a lease is thought to expire.

The other theorems share `FoldStep`: whatever `CommitInput` and `ConsumePoison` do to the store is
either a refusal, which at most deletes the row of a logged input (`IsRefused`), or an append of a
well-formed batch (`Appends`, `Batch`). `VersionsRise` is inductive as it stands, since `max_v` bounds the versions in the log: `BatchVersions` says that an append
is an input and decisions of one version, and neither is below the `max_v` it was checked against. `FoldInv` takes `FoldedOnce` and `NothingLost` together, since an append may
only drop its row because the log then holds the input, and adds that a decision in the log is never
without its input: a `DuplicateKey` may be met on a decision's key, and the row it deletes is
accounted for only because of that. `OrderInv` puts log and inbox into one order of acceptance
and says of the input a host has read that it is still the oldest row, or that another owner has folded it since:
that is what makes reading and appending in two transactions safe. `IndexInv` states the timer index over all instants.

**RunEngine.** `Shape` has a part per slot (`SlotOK`: how far the stop ladder may be in each state, which timers fit the
state, which it must have) and one for the run (`RunOK`: phase, tree, deadlines, conditions, questions, outcome).
`LiveSlotsAreWatched` alone is not inductive: that a stop goes on depends on the ladder's `fired` never passing `sent`, and
that a finishing run ends depends on its slots being in three states only and on no timers but those of stops. An input is the composition
of a few changes of the state (`arm_ready`, `after_reply`, `resume`, ...), each with lemmas for any state that is `Fine`; so
a slot that an input supersedes, restarts or resumes on the way is covered. `ShapeHolds` is the result.

`Shape` looks at one slot at a time; what a seat, a visit or a persona promises is the second layer, `Seats`, and `Order` is both. Its parts:
`Core`, which holds at every decision inside an input: attempts rise along a seat's slots, only the latest of a seat works, waits or is
retried (`BusyIsNewest`, `RetriesFit`), every visit but the current one is `Complete`, and a question is about a reply that escalated or a
complete visit, no two about the same; `OneEach` and `CeilingsHold`; and `Settled`, which holds only when the whole input is folded: the latest
attempt of a seat works, has voted, is parked or held, or is asked about (`Accounted`), a complete visit that was not left has an open question (`AsksOn`), and who waits waits for
a process (`Waiting`). Most inputs leave all that alone (`Steady`); those that do not are a reply, an end, a retry, an answer, a resume and a
withdrawal, and each breaks `Settled` first and mends it by what `after_reply`, `restart_or_park`, `hold` or `arm_ready` does last. `EveryStateKeepsARemedy` follows: under a prepared tree,
if no person is asked and no seat is parked, `AsksOn` gives a seat that has not answered, `Accounted` says it works, `Waiting` finds the process, and `Shape` its timer or its signal.
`StepsLeftInOrder` rests on a fact the code never states: a slot's visit is the current one or complete.

**HostEffects.** `ThreadsInv` and `DoneInv` tie everything that names a thread to the ledger entry, and every entry that is
done to the world; `WalkInv` says of each place at which a host may die or be overtaken what it has behind it, and that its entry is still
pending unless it is fenced. `RecordsAgree` and one thread per session follow wherever a host stands still. Posting once and signalling once
rest on more: `OnceInv`, that only the owner is inside a tick, which holds where no host outlasts its lease there.

**Claims.** The refinement needs no lease: `RunsInv` (who is in the tree has the claim, and so has a queued run whose `claim_taken` waits) and
`HostsInv` (what a host knows is not ahead of the log) are enough, so the runs are in the tree one at a time however old a host's view is.
`LeaseInv`, where no host stands still inside a tick, adds that a host inside a tick knows whether the release of its run was reported.
`OrderInv` is the loop invariant of `take_claims` of a host on its own.

**SessionBackend.** `DrainInv`: everything up to an offset, the stored one or a cached one, is in the inbox or in the hands of
the host about to move it. `SpawnInv`: whoever is about to spawn holds the claim and is alone, which fails exactly when a claim is
released with the process running; hence the condition that the child record can be written. `EndInv`: what was seen to end has ended, which is stable, and while
no claim was overtaken nobody is about to spawn once the run was told of a confirmed end.

**OpLog.** `MintInv` says that above the ceiling no coordinate of this site is left out below an own op (`Filled`) and that a clock is above the ceiling only by
own mints (`Clocks`); with one lamport per mint (`Counted`) the reserve cannot run out. `ViewInv` has one part
for each thing the watermarks are there for (`BesideSync`, `BesideRevisions`, `BesideUpgrade`). They are separate because the arguments are:
beside a sync pass the rows up to `revision_through` are folded; with several revisions nothing is ever behind `folded_through`, so nobody refolds; after an
upgrade the process that was told refolds everything. Two of these at once defeat the watermark (see *Findings*), so `VouchedViews` is stated for one at a time (`OneAtATime`).

**Prefixes.** `Registered`: a replica's item names a prefix whose item names the replica, and every answer is what the replica's item says. The registry
is right whatever the clients do. Where nobody writes during a pass, `PassSettled` says of each place in an exchange what log, export and file may hold: before a remap the log is
the export but for ids that have the registered prefix by now, and nothing was pulled; after it the replica's own ids are the registered ones (`OwnSettled`).
`LogSettled` adds that the views are the log and what was pulled is as it was sent. A page applied beside a remap to come is the one step that breaks this, hence the condition on `raced`.

**ServerFold.** The rows are written before the watermark, so `Sane` says of every place at which a run may die what rows and entries hold by then: a fold has everything before its op, a clear
has every item that is left before it, an import has behind it what its snapshot has. `EdgesInv` (a set flag says the entries were told) is what lets a run that takes over skip a row.
`SeenInv` is the promise of `refold_until`. `ReaderInv`: until a clear begins, the watermark goes on letting the reader's build in, at its position or a later one (`MarkStands`), so what holds of a served stream holds of everything the reader comes to.

### What is assumed

- `ConstantsAssumption`, `SettingsAssumption` and the like: constants have their types.
- `RunEngine`: what `flow.rs` `compile` lets through. A step has members, none twice and none with a reserved name; no ceiling is zero.
- `HostEffects`, `KeysAssumption`: the kinds of ledger keys have prefixes of their own.
- `OpLog`, `ReserveAssumption`: the coordinates above `CLOCK_CEILING` outlast the ops this replica mints and those that squat on its site. `UpgradeAssumption`: an
  upgrade of the schema makes shapes foldable and takes none away.
- `Prefixes`, `Relay`, `Sync`, `ServerFold`: processes have a home, a batch has an op, revisions are positive.

### Checked by TLC only

- `Relay` with its refinement of `OrderedLog` (`InOrder`), and `Sync` (`PositionsHold`). What they say is about filtered and sorted sequences
  (`SelectSeq`, `SetToSortSeq`) of any length, which asks for induction over data. `StoredInPlace` of `Relay` does not, and is open.
- `NeverExhausted` of `Relay`. It is about how many attempts suffice for what a table starts with; it is not true of every number.
- All liveness. It depends on fairness, which is outside what the prover does.

## Findings

Two disagreements between the code and what it says of itself are kept as runs that TLC must find violated:

1. `engine_sampler`. A session that was seen moving and, when listing processes fails once, is
   reported blind, ends up with an open call and neither `subprocess_idle` nor `call_bound` armed
   (`decide/session.rs`, `rearm`).
2. `sync_fault`. `pulled_through` is advanced before the page is examined; when the database fails there the pass
   saves the advanced position, and the page is never pulled again (`sync/src/engine.rs`).

Three more are stated in the modules as the code states them. Added to the configuration of their module (under `Spec`), each ends in a counterexample:

- `StoppedAfterItsFacts` (`SessionBackend`). The facts of a session are drained before the backend is asked whether it lives. A last line and the exit
  after it, in between, give a confirmed end with a fact undrained (`host.rs`, against its comment at 372).
- `RemapBeforePull` (`Prefixes`). Two passes of one replica, of the service and by hand, ask for the prefix that another replica has. The first remaps, adopts and pulls; the
  second then exports a log that has the other's ops and renames their ids (`core/src/store.rs`, against its precondition at 744).
- `NeverServedHalfCleared` (`ServerFold`). A reader checks the watermark once and then reads many items; a clear that begins meanwhile leaves it with what was not deleted yet
  (`records.rs`, against `fold.rs` 435).

The others are excluded from the settings or by the condition of a property. Each was seen as a counterexample under the change named:

| what the code does | shown by |
|---|---|
| `apply_finishing` clears `would_not_stop` of a replied slot whose process survived the last unforced signal: the run waits and its status does not say so (`evolve.rs`, against `status.rs`) | every exhausted stop of a finishing run is parked, in `RunEngine`; `EveryStateHasARemedy` has a disjunct for it, without which it would not be invariant |
| a superseded slot that reports its start after its end gets a ladder that counts from zero; its first signal's key is in the log (`input.rs`) | `StopKeysNeverRepeat` without its condition on `late_start` |
| a poison park overwrites `root_failed` or `tree_refused`; resuming re-arms no deadline (`evolve.rs`) | `WaitsAreTimed` without its condition on `poison` |
| a host that stands still between the re-check of its lease and the effect acts for a run it has lost (`effects.rs`) | setting `stall`: a host acts only as the owner |
| a host suspended between ticks takes the run back under a higher epoch with its cached state and never does what became owed (`host.rs`, `leases`) | `EffectsComplete` under `suspend` |
| a host that stands still inside `take_claims` gives the workspace to a finished run, for good (`effects.rs`) | `ClaimHasAnOpenRun` with `stalls` = "inside" |
| with ticks always short of budget, a younger run that holds the claim without knowing it is never tried again (`effects.rs`) | `EveryRunFinishes` with `short` and a crash |
| `try_spawn` releases the spawn claim when the child record cannot be written, with the process running (`spawn.rs`) | `OneProcess` under `record` |
| a second start reports the session lost when its leader is gone, while its group works (`run-session-claude/src/lib.rs`) | `DrainedEndIsTheEnd` with the key of that answer included |
| a host that stood still between its decision to start and the claim spawns a session whose end the run was told; one between creating and writing the claim too, since an empty claim reads as an old one (`start.rs`, `ledger.rs`) | `DrainedEndIsTheEnd` without its condition on `overtaken` |
| an older host folds a newer CLI's input: its decisions stand behind it with a lower version, and the host is refused from then on, `VersionTooOld` (`fold.rs` 249, `append.rs` 48, 74) | versions never fall at all, in `RunStore` |
| an older CLI's input in a run that a newer host has written to is refused to every host, since its `v` is below `max_v`: the inbox stands still behind it (`append.rs` 48) | `InboxDrainsAlone` with a host of version 2 and inputs of both versions |
| an older binary that decided to refold before a newer one rebuilt folds its rule over the rebuilt view (`store.rs`, `refold_if_behind`) | `VouchedViews` with the decision taken before the rebuild |
| a file that another product's process migrated is not refolded by the product whose ops became foldable (`memory/src/store.rs`) | `VouchedViews` under `upgraded` with a process of another product |
| `force_refold` vouches for an op inserted between its fold and its watermark (`store.rs`) | `VouchedViews` with such an insert of an older revision |
| a cancelled transaction with an occupied number and a conflicting counter is classified as one whose counter held (`store_ddb.rs`) | the counter stands where such a round believes it, in `Relay` |
| a pass that was running during a rebind writes the old binding back (`nxs/src/sync/mod.rs`) | the binding changes by `bind` only, in `Sync` under `rebind` |
| a long-lived engine goes on minting under a prefix that was exchanged (`facade/src/engine.rs`) | `OwnPrefixOnly` under `writing` |
| an op written between export and transaction of `remap_prefix` is in no view; so is one that another pass of the replica pulls there (`core/src/store.rs` 751, 795, 811) | `ViewsAgree` under `writing`, and without its condition on `raced` |
| an export beside a clear gives a snapshot whose watermark claims ops its tables lack, and an import accepts it (`snapshot.rs`) | `ServedIsWhole` with `careful` = FALSE |
| an import over a half-cleared stream keeps the leftovers (`snapshot.rs`) | `ServedByItsRules` with `careful` = FALSE |
| a run that dies in a stream's very first batch leaves no watermark; another build's run folds on top of its rows (`fold.rs`) | `ServedByItsRules` with `careful` = FALSE |

## Plan

1. Proofs: `StoredInPlace` of `Relay`. An accepted transaction has its number and its claim to itself while any of its items is still to appear, so a
   number up to the counter has its op, or a transaction that will bring it.
2. `RunStore` beside `HostEffects`: the log's inputs of the one are the reports of the other; today each
   takes the other's part as any order of its inputs.
3. The tree worker's second fence; `Service` (lock, heartbeat, orders); purge against appends; the task graph's ready set
   against a reference definition.

## Not modelled

File formats, JSON encodings and their versions, damaged rows and files, signing and trust, command
lines and output, sidecars and packaging: they hold no protocol, or are input and output alone. Of the
repository's lines most are of this kind, or belong to the chat's older orchestration, its facade and its command
line (`crates/chat`), which the run kernel replaces and which comes last.

Simplifications inside the modelled parts:

- run kernel: the tick's rotation over runs and, outside `Claims`, its time budget; the wake rule, which puts a late
  timer off; the wording of turns and status; the validation of flows; the nudge of a quiet session as an effect (`RunEngine`
  has its input); the remark on who holds a busy claim and the exit of a withdrawn run that waits for one;
- run store: `FireDueTimer` is the read of a due timer and the enqueue of its firing in one step (`host.rs` 429-448): a timer that is re-armed
  in between gives a firing of the old instant, which the model has as a late one. `CommitInput` reads what its append compares (the count it
  deletes, the run's claim) in the same step, so the `CasFailed` that a write in between would give, and the failure a second one counts against
  the input (`fold.rs` 313-314), are left out;
- effects: `WriteRoute`, `WriteSession`, `MarkRefused` and `ClearRefused` are the read of a key and its compare-and-set in one step; the `CasFailed`
  that another host's write in between would give (`start.rs` 146-148, 173) is left out;
- session backend: the reading of `/proc`, the mapping of causes; with two hosts only the lines that the
  adapter itself writes are in the fact file. `AskAlive` is the question and the enqueue of its answer. A write of the claim that fails is a crash at that place;
- op log: one register stands for the views. Or-sets and counters, snapshot bases, reseal of signatures and
  `BUSY_SNAPSHOT` are left out;
- relay: the rounds lost to contention and the deadline are one step, `CutShort`; a claim that vanishes
  between two reads is one of its refusals. Presence, the stream lease and purge are left out;
- sync: snapshots, presence and the count of stripped signatures. `Begin` is the load of the file and the read of the log, `Apply` the transactions of
  `store.apply` and the write of the position; a crash between the parts reads or applies the same again;
- prefixes: a rebind to another stream during an exchange; the registration that `bind --snapshot` makes on its own. `Pull` fetches and applies a page in one step;
- server-side fold: purge, the deny list, chunked rows, the weighing of items; one row and its derived entries stand for
  the tables and indexes. The entries of a row's edges are told in one step (`FoldEdges`; a loop of writes in `board.rs` 630-638), and `Reindex`
  writes entries and flag together (`board.rs` 797-820), on a stream that is not served.
