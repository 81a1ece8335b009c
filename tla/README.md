# TLA+ models of opencodex

opencodex is a local proxy that speaks the OpenAI Responses API to its clients
(Codex, Claude Code) and routes each request to one of many providers.  Most of
its code translates formats.  What can go wrong between requests is elsewhere:
a pool of Codex logins that requests share, tokens that are refreshed by
several processes at once, groups of models that fail over, key pools that
rotate on a 429, WebSockets that carry one turn after another, streams that are
teed, remembered and broken off, logins that are cancelled halfway, and a
configuration file of another program that is rewritten and given back.  It is
state in the memory of one JavaScript process, and files that several processes
share, changed by asynchronous handlers that interleave at every `await`.  These
modules model that part.

Contents: the inventory of the system, the modules, what each run checks, what
is proved, what was found, what is left out, and the plan.

## 1. Inventory

Paths are below `src/src/`.

| Component | State | Operations | Correct when |
|---|---|---|---|
| Codex pool routing (`codex/routing.ts`, `auth-context.ts`, `account-runtime-state.ts`, `account-lifecycle.ts`) | thread affinities, upstream health with cooldowns, needs-reauth set, active account, quota scores | resolve an account, bind a thread, record an outcome, select, log in, delete | a request is served when some account can; no thread stays bound to a cooled or deleted account; bound threads do not flap; cooldowns run their course |
| Token refresh (`codex/account-store.ts`) | store file with generations, tombstones and grant fingerprints; in-process promises; lock files | read a valid token, refresh, join a refresh, take, reclaim and drop a lock, save if the generation is unchanged | a grant is exchanged once at a time; a late refresh never wins over a login or a deletion; every call ends |
| Combo failover (`combos/resolve.ts`, `failover.ts`, `server/responses.ts:494-800`) | sticky target, smooth weights, target cooldowns; per request the attempted set and callback gates | pick, attempt, classify the failure, cool, retry, accept, cancel | each target is tried once and only when available; none is left out; one outcome is reported |
| Key failover (`providers/key-failover.ts`, `api-keys.ts`, `server/responses.ts:1344-1531`) | pool, live key, key cooldowns | route, rotate on 429, add, select, remove, replace, clear, restart | the live key stays in the pool; only failed keys cool; a healthy live key is kept; a 429 is surfaced only when the pool is used up |
| WebSocket bridge (`server/index.ts`, `server/ws-bridge.ts`, `codex/websocket-registry.ts`) | per socket the turnId, the cancel hook and the auth context; sockets by account | upgrade, `response.create`, warm-up, supersede, pump, close, invalidate | turns do not mix on a socket; a superseded turn is told to stop and ends; a reported outcome was delivered |
| Turn lifecycle (`server/lifecycle.ts`) | active turns, draining flag | register, drain, abort at the deadline, stop | no turn runs on after the stop |
| Response state (`responses/state.ts`) | continuation cache with time to live and caps, debounced snapshot | remember, expand, expire, evict, save, load | it is a lossy cache: a miss at worst, or the whole conversation as it was recorded; the snapshot on disk is current once nothing is due |
| Stream relay (`server/relay.ts`, `bridge.ts`, `server/responses.ts:1000-1720`) | per turn its body, its upstream, the client's branch and the inspection | relay, tee, inspect, fail the tail, stall, cancel, remember, log | one outcome per turn, and the one the client saw; streams are released |
| Provider OAuth (`oauth/index.ts`, `store.ts`) | account sets, credentials with generations, intent lock, single flight, permanent failures | refresh, merge, mark for reauthentication, log out, remove, switch | for xAI a rotated grant is not presented again, and a living one not condemned, unless an answer is lost or a lock outlives its limit; rows keep to their account |
| Logins (`oauth/index.ts`, `callback-server.ts`) | one entry per provider in three maps: state, abort controller, paste slot | start, callback, paste, cancel, exchange, verify, save | a paste stays in its login; a cancelled login ends |
| Injection into Codex (`codex/inject.ts`, `journal.ts`, `cli/index.ts`) | config.toml, the profile, the journal, the process ids | start, ensure, sync, inject, stop, restore, reconcile | what was injected is undone, and no restore throws away what the user wrote after the injection, with a crash between any two writes |
| Others | see `PROJECT.json` | adapters, sidecars, catalog rewriting, logs, update, dialogues | formats and input/output: no state shared between requests |

Interaction: a request enters `server/index.ts` by HTTP or by WebSocket and
runs `handleResponses`.  That may run a combo, which runs `handleResponses`
once more for each target.  A request for a Codex model resolves an account in
the pool and awaits its token; a request for a keyed provider may rotate the
key.  Outcomes come back by callbacks when the stream ends, long after later
requests have read the state they change.  Management commands and logins change
the same state in between.  A WebSocket turn reports its resolved account to the
registry by callback.  A streamed answer is teed: the inspecting branch reports
the outcome and remembers the response for the turn that chains on it, while the
client reads, or leaves, at its own pace.  A drain waits for the active turns,
aborts them at its deadline and flushes the response store.  Logins started by
the dashboard write the same rows as the refreshes of requests.

The hard behaviours are therefore stale reads across an `await`, late callbacks,
commands between the steps of a request, crashes between two writes, and
processes that share the store.  `PROJECT.json` lists them at their lines under
`hazards`, each with the properties that would catch it.

## 2. Modules

| Module | Models | Extended by |
|---|---|---|
| `CodexRouting` | the Codex pool, with logins, deletions, selections, crashes and requests in flight | `MCCodexRouting`, `CodexRoutingProofs` |
| `CodexTokenRefresh` | the store, the single flight, the lock files and the token endpoint, for several processes | `MCCodexTokenRefresh`, `CodexTokenRefreshProofs` |
| `ComboFailover` | combos and the failover loop of a request with its callback gates | `MCComboFailover`, `ComboFailoverProofs` |
| `FailoverRequests` | abstract: what a combo promises to each client | instantiated by `ComboFailover` |
| `KeyFailover` | key pools, their commands and the 429 loop | `MCKeyFailover`, `KeyFailoverProofs` |
| `WebSocketTurns` | sockets, turns, the pump, the registry, deletion and drain | `MCWebSocketTurns`, `WebSocketTurnsProofs` |
| `ContinuationCache` | abstract: what the response store promises to chained turns | instantiated by `StreamRelay` |
| `ResponseState` | the response store: memory, caps, expiry, snapshot, crash and load | `StreamRelay` |
| `StreamRelay` | streamed turns over that store: tee, inspection, bridge, log, drain | `MCStreamRelay`, `StreamRelayProofs` |
| `AccountCells` | abstract: what may happen to the credential of a provider account | instantiated by `ProviderAccounts` |
| `ProviderAccounts` | account sets, refreshes, the xAI lock, the merge by generation | `LoginFlow` |
| `LoginFlow` | the dashboard's logins over those accounts, pastes and commands | `MCLoginFlow`, `LoginFlowProofs` |
| `CodexInjection` | Codex's configuration, the journal and the processes that write them | `MCCodexInjection`, `CodexInjectionProofs` |

`StreamRelay` composes turns with the store they share, `LoginFlow` composes
logins with the refreshes of the accounts they replace: the upper module of each
pair adds its own actions to those of the lower one.

Each module's header says what its variables stand for and what it abstracts.
Common conventions:

- An action is what a handler does between two awaits, with everything it calls:
  a purge, a save or a notification in the handler is part of the action.
- Names are those of the code where TLA+ allows it; `map` in `PROJECT.json`
  gives the lines of each definition.
- An upstream, a token endpoint and a user may do anything at any time: their
  answers are choices.
- Tokens, keys, accounts and threads are model values or numbers, never strings.
- A definition under a comment that starts with "Fault:" is a plausible bug.  No
  specification uses it.  It documents which change of the code a property
  would notice.

### CodexRouting

`resolve` is one step because `resolveCodexAuthContext` reaches its first await
only after `resolveCodexAccountForThread` has returned.  The binding's
generation is stored in this step and the token is refreshed in a later one
(section 5, first observation).  `admit`, the send and the outcome are
later steps of the same request slot, so outcomes arrive late and in any order.
The quota is the one score `computeCodexUsageScore` makes of it.  The clock
advances by steps; cooldowns, the failure window, the idle and the re-evaluation
interval are small numbers of the same clock.  The token refresh has one step
per result here; its protocol is `CodexTokenRefresh`.

### CodexTokenRefresh

A call goes through reading the store, joining a pending exchange of its process
or becoming its owner, taking the lock file (create, then write: two steps, as
in the code), checking for a fresh credential of the same grant, the exchange,
the save under the expected generation, and the unlink.  A crash ends all the
calls of a process and leaves its lock file, empty or not.  Other processes may
find the file at each of these points.  Between two awaits a call runs alone in
its process (`isFree`), and the calls whose promise has settled run before a
call that waits for a timer, a file or the network (`mayRun`), as promise
reactions do; among themselves they run in any order.  Tokens are numbered in the
order in which the endpoint issues them, so that "newer" has a meaning.

### ComboFailover

A request keeps its attempted set and the gate of its current attempt
(`createChildPassthroughCallbackGate`): a child's callbacks are held until the attempt is
accepted and dropped when it is discarded.  Selection is the code's, in order
and smooth weighted, with the sticky limit.  The clock ends cooldowns between
the hops of a request.  One command may replace or delete the combo or disable a
provider meanwhile.  `FailoverRequests` knows no strategy, cooldown or gate: a
client's request asks usable candidates, each once, gets the answer of the one it
is asking or is refused when all were asked, and is passed on one report of the
one that answered.

### KeyFailover

A key is stored as written and sent as resolved (`resolveEnvValue`); references
to environment variables are the keys of `EnvKeys`.  `rotateKeyOn429` has the
three outcomes of the code: the live key is no longer the one that failed and is
retried, the scan finds the next key, or nothing is left.  `ReplaceProvider` and
`AddReplacedKey` are two steps because the handler saves twice.

### WebSocketTurns

A turn is a socket and its `turnId`.  The one hook of a socket
(`ws.data.cancel`) first aborts the turn and later cancels its pump, and each
`finally` clears it only if it is still its own.  A frame is left out except for
what it says about a turn: that it goes on, or its end.  Sending needs the
socket to be open and may be dropped even then (`sendTextFrame`).  The upstream
may do anything at every await.  `Create` has no guard on the drain because the
handler has none: only the upgrade asks `isDraining`.

### ResponseState and StreamRelay

A response is named by its turn, and a conversation is the sequence of the turns
in it, so "the whole conversation" has a meaning without any text.  An entry's
size is its number of turns, which is what the caps of the snapshot bound here.
`persistTimer` is a flag: the save may happen at any time while it is set, may
fail, and is lost with a crash.  `StreamRelay` tells a native turn, whose body is
teed into the client's branch and the inspection, from a bridged one, whose
stream is made of an adapter's events.  Of a stream only its terminal event and
its end are told.  The upstream may complete, fail, break off, or say nothing; a
client may leave between any two steps.  `ContinuationCache` knows no memory,
snapshot or cap: a turn that names a response gets a miss, or the conversation as
it was recorded within its time to live.

### ProviderAccounts and LoginFlow

One module stands for two policies: with xAI the intent lock and the comparison
of generations guard an exchange (`isLocked`), with the other providers neither
does.  A credential is a number with its ancestry (`issued`), of which the module
knows whether its grant still works (`alive`) and whether the answer that
replaced it was lost (`lost`).  A crash may come between any two steps of a
refresh.  A lock file older than 120 s is taken over (`isOvertaken`), from a
crashed holder and from a live one whose refresh takes longer; the history
`overtaken` keeps the grants that such a holder had in hand.  `MaxMishaps` bounds
crashes and takeovers from the living together.  A flow opens, waits for the
callback or a paste, exchanges, verifies and saves; it may be cancelled
meanwhile, and ends late, when the maps may already be those of the next flow.
`AccountCells` says what may happen to an account's credential:
a login of that account, the result of an exchange of this very credential, a
condemnation when its own grant is dead, a removal; and, where writes do not
compare generations, what a late refresh can do instead.

### CodexInjection

An injection or a restore is the list of the writes it makes, in the code's
order, and a crash drops the rest of the list.  The configuration is the user's
text together with what was injected into it and taken out of it; `native` is a
ghost for what the user means the file to be.  Sessions and tools start, stop and
crash; a later one reconciles the journal of a process that is gone.

## 3. Runs

Nine passing runs check 40 properties; each has a mutant of the code that breaks
it, listed under `mutants`.

| Run | Bounds | Shows |
|---|---|---|
| `CodexRouting` | 2 pool accounts and the main login, 2 threads, 2 requests in flight, 3 in all, 2 events, affinity cap 1 | bindings follow cooldowns and deletions; routing serves whenever an account can; a dead binding is not served from and a live one left only for a cause; a late success or 5xx does not end a cooldown |
| `ComboFailover` | 2 requests, 3 combos of up to 3 targets, 2 clock values, 1 command | the loop implements `FailoverRequests`: targets tried once, one answer, one report; none left out; weights add up to zero; sticky runs are bounded; the reported outcome is that of the accepted attempt; a cancelled request cools and reports nothing |
| `KeyFailover` | 3 keys, one a reference, pools of 0, 2 and 3 keys, 2 requests, 2 commands | the live key stays in the pool; a healthy live key is not rotated away; a 429 is surfaced only when all keys cool, or all but the last for a request whose key is not in the pool |
| `CodexTokenRefresh` | 1 process, 2 accounts that may share a grant, 3 calls, 4 tokens, 2 commands | a late refresh loses; one exchange per grant at a time; waiters share it; answers are what the store holds; a lock left by a crash is reclaimed |
| `CodexTokenRefreshProgress` | 2 processes, 1 account, 3 calls, 2 tokens, 1 command | every call ends, with crashes at any point and competition for the lock |
| `WebSocketTurns` | 2 sockets, 2 turns, 1 account | old turns are told to stop and end; nothing follows the end of a turn; outcomes are delivered; the stop leaves no turn running on |
| `StreamRelay` | 2 turns of either kind, the second chained on the first or not; 2 entries in memory, snapshot entries of 1 turn, 2 clock values, any crashes and restarts | the store implements `ContinuationCache`; native replays are whole; a turn is logged once, with what its client saw; the snapshot is current once nothing is due; streams are released |
| `LoginFlow` | 2 accounts, 2 processes, 2 logins, 3 credentials, 1 crash or 1 lock taken over from a live process, both policies | the store implements `AccountCells`; rows keep to their account; xAI presents a used grant, or asks for a login, only for a grant whose answer was lost or whose lock was taken over; a paste stays in its login |
| `CodexInjection` | 3 processes, 2 user texts (one with a base URL of its own), 2 ports or catalogs | every injection is journaled; a restore leaves Codex native and without a route to the proxy; a restore with a journal does not throw away what was written after the injection |

The three violation runs check one statement of a doc, a comment or a test each
that the code does not keep (section 5).

Why the bounds are enough.  The races are between two actors, so two requests,
two turns, two calls with a waiter, or two processes show them; the third
request, call or target is there for what needs a bystander (a waiter, the
target after next, the entry that the cap evicts).  Commands and events are
bounded at the number after which one more is a repetition: one between any two
steps of a request, and a second to undo or follow it.  Cooldowns are the
shortest that can both last and end within a request.  Where a theorem exists
(section 4) the property does not depend on the bounds at all.  In `StreamRelay`
the second conversation is one turn longer than the snapshot keeps, so that the
cap bites, and one tick is longer than the time to live.  In `LoginFlow` two
flows are one that was cancelled and the one after it, and three credentials let
an account be logged in, refreshed and logged in again.  In `CodexInjection` each
process id is used once; three are a session, the tool that runs beside it, and
the session after its crash.  One socket with
three turns was also checked by hand once (189,207 states), with the same
result; it is not a run because it adds no new question.

`CHECK_DEADLOCK FALSE` is in every configuration: the counters are bounded and
the server may stop, so every behaviour of an instance ends.

Symmetry is used for sets whose elements the module only compares, and never in
a run with a liveness property.

Fairness.  `CodexTokenRefresh` assumes weak fairness of the steps of a call that
has begun, of the write of an exchange's result, and of a lock file growing old:
the event loop runs what is ready, the exchange has a timeout, and time passes.
Nobody has to call, log in or crash.  `WebSocketTurns` assumes that resolving an
account ends (it is the call of `CodexTokenRefresh` that `EveryCallEnds` is
about) and that a turn whose fetch was aborted or whose reader was cancelled
goes on: an abort makes the fetch and the read of a body fail, a cancel makes
the pending read return.  Nothing is assumed of an upstream that was not told to
stop; it may stream for ever.  `StreamRelay` assumes that its own pumps go on
(`InspectionEnds`), that the bridge's stall timer fires (`BridgeStalls`) and that
an adapter whose fetch was aborted comes to its end; it assumes nothing of
clients, upstreams and the server.  `LoginFlow` assumes that the wait for the
callback and the requests to the provider have their timeouts.  `CodexInjection`
assumes no fairness and has safety properties only.

Refinements.  `FailoverSpec` (run `ComboFailover`), `CacheSpec` (run
`StreamRelay`) and `CellsSpec` (run `LoginFlow`) are the specifications of the
three abstract modules under a refinement mapping.  That of the failover takes
what a client has asked for from the gates of its request, the answering target
from the committed one, and what it was told from `published`.
The mapping of the cache takes the answer of a turn from the body that it was
sent with, and forgets memory and snapshot; that of the cells takes a row's
credential and its `needsReauth` mark.  All three are checked by TLC and proved.

## 4. Proofs

TLAPS proves the following for every value of the constants, from the named
`ASSUME`s of the modules, which say only what a constant is (disjoint ids,
natural bounds, finitely many combo targets).  Every invariant and every action
property of a passing run is stated by a theorem; what is left to TLC alone is
named at the end of this section.

**`CodexRoutingProofs`.**  `TypeCorrect`, `NoCooledBinding`, `OwnedBindings`,
`ConfiguredActive`, `BoundedBindings`, `ServesFromPool`, `MovesForCause`,
`CooldownRunsItsCourse`, and the lemmas they need about selection:
`RoutedIsSelectable` (whatever chain of fallback, quota switch and failover
runs, the account at its end may be selected) and `RoutingFindsAnAccount`.  The
invariant `PoolInv` joins the types and three facts about the pool that hold
only together: no binding to a cooled account, every binding to a configured
account at a generation that account has had, and a configured active account.  A
cooldown is set together with the purge of the account's bindings, and a binding
is made only to an account that selection found usable; that selection ends at
such an account rests on the active account being configured, which every
deletion has to restore.  One lemma per kind of step says how it may change the
bindings, so that the theorem is about those few forms.  The cap of the affinity
map rests on one binding at most being added at a time, and needs no assumption
that there are finitely many threads: finiteness is part of the invariant.  The
two action properties need no more of the invariant than the types and the
bindings: a binding is used or replaced only in `resolve`, where it is
reused while its generation is live and its account can serve, given up when one
of the two fails, or moved by a due re-evaluation, which takes only a strictly
cooler account; and each outcome is followed to what it does to the cooldown of
its account and of no other.  `ThreadsMoveForCause` says what the code does, not
what the documents promise: a token refresh is among the causes (section 5).

**`ComboFailoverProofs`.**  All properties of the run.  The invariant `ComboInv`
says that the targets a request has attempted are exactly those whose gates
exist, that a request that has answered has one committed gate and the others
are discarded, and that a sticky run is below the limit it was saved with.  That
the eligible set is used up needs the existence of a maximum of a finite set,
and the weighted choice needs sums over finite sets; both are proved by looking
at a smallest counterexample, since induction principles with operator
parameters cannot be used.  `BalancedWeights` is about those sums: a pick adds to
each eligible target its weight and takes the total of these from the one it
chooses, so the sum over all the targets, eligible or not, stays zero; it needs
the targets to be finite (`TargetsAssumption`).  `ClientsAreServed` is the
refinement of `FailoverRequests`: `ServiceIs` says, from `ComboInv`, what each
state of a request is to its client, and each step of the loop is then one step
of the client (a pick asks or refuses, a failure frees it for the next, a success
answers, a callback reports or waits behind its gate), while every other client
rests.

**`KeyFailoverProofs`.**  All properties of the run.  The pool never holds a key
twice, whatever the commands: this makes `findIndex` return the index, and the
scan from it cover every other key.  When the failed key is not in the pool, the
scan covers every key but the last (`ScanWithoutTheKey`; section 5), so
`RefusedOnlyWhenAllCooled` has that key as its one exception.

**`WebSocketTurnsProofs`.**  All safety properties of the run.  The invariant
`TurnInv`: a turn under way that has not been told to stop is the current one of
a socket that is not closed, and the hook is its own (`HooksHold`); it is
registered and the server has not stopped (`TurnsAreRegistered`); what it has
sent and reported fits its state (`TurnsAreConsistent`).  The first is what makes
one hook enough for any number of turns: a hook is replaced only after it was
called, and cleared only by its owner.  All sixteen steps of a turn are first
reduced to one form (`TurnSteps`), and the steps that only tell turns to stop to
another (`TellingKeepsInv`).

**`CodexTokenRefreshProofs`.**  `TypeCorrect`, `JoinersShare` and `OneCallRuns`
for any processes; `ExchangesAreSingle`, `LocksAreReclaimed`, `AnswersAreStored`
and `LateResultsLose` under `Alone` (one process): with two, the lock file does
not keep a grant to one exchange, which is the first finding below.  The
invariant `Inv`: a grant has one leader in a process (`OneLeaderPerGrant`), who
exchanges the grant it leads (`FetchesItsGrant`); the owner of a lock file is
past opening it or has ended (`LocksHaveOwners`); a call that waits for a lock
file waits for the one it found first and is late only when that one is fresh no
more (`WaitsForOne`); and a refresh has its result in the store until its
process runs anything else (`ResultsAreStored`).  The sixteen steps of a call are
instances of one form, a call that becomes `x` and a lock file that becomes
`file` (`MoveKeepsInv`), so each step has to show only what is its own.

`LateResultsLose` needs two invariants more, both checked by TLC on the
one-process instance before they were proved.  `Joins` is about the event loop: a
process runs one call at a time (`OneRuns`), a waiter has a leader of its own
process and grant (`WaitersHaveLeaders`), and the waiters of one exchange resume
before that of the next one ends (`OneSettles`).  `Late` is about the credentials
a process knows, in the store, in a write that is not yet on disk, under
exchange or as a result that is awaited: an earlier rotation of a known login is
spent, a later one has a later token, and a fresh token is the last of its grant
(`Ordered`); a result is ahead of all that its waiters can have, and some record
has it while it is fresh (`ResultsLead`); a grant is exchanged only while no
token of it is fresh (`FetchesAreDue`); a record has only moved on from the
grant that its call leads, and still has the credential under exchange if its
generation is the same (`CallsAreBehind`); and a write that is under way is
newer than what is on disk (`WritesAreNewer`).  The generation check of the
exchange's own save rests on the fourth, the check of a waiter, which compares
grants and not generations, on the second.  None of this survives a second
process, which may write the store back as it was.

**`StreamRelayProofs`.**  All safety properties of the run: `TypeCorrect`,
`NativeReplays`, `OneTerminalEvent`, `EveryTurnIsLogged`, `SnapshotKeepsUp`, and
`StoreIsALossyCache`, the refinement of `ContinuationCache`, for any number of
turns and any caps.  The invariant: every entry of the store and of its snapshot
is what was recorded (`StoreIsHonest`), through crashes, loads and evictions; a
turn is recorded once, at the point of its life where it is (`IsRecordedOnce`),
and was sent what it found (`HasItsBody`).  What a bridged turn's client has
seen, what is queued for it and what the log says are related by `TurnsOK`, turn
by turn.  That the snapshot is current needs the order of the entries to agree
with their ages (`StoreInv`), since expiry, the cap and the snapshot's cap each
drop a tail of that order.

**`LoginFlowProofs`.**  `TypeCorrect`, `RowsOwned`, `GrantsNotReplayed`,
`ReauthDeserved`, `PastesStay`, and `AccountsAreCells`, the refinement of
`AccountCells`, for both policies at once.  The argument is what is known of a
credential.  Whatever is in a row, a refresh or a flow was issued for its account
(`FlightIsOwned`, `FlowIsOwned`).  With the xAI policy a refresh from the exchange
on holds its lock, or its grant was overtaken with the lock; so of two refreshes
with one grant one was overtaken.  What a refresh brings is used by nobody else
until it is saved, and a row whose grant is used up belongs to the refresh about
to replace it, or its answer was lost (`FlightIsSafe`, `RowIsSafe`, `FlowIsSafe`).

**`CodexInjectionProofs`.**  All properties of the run: `TypeCorrect`,
`Journaled`, `NativeReturns`, `Unrouted` and `EditsKept`, for any number of
processes, crashes and restores.  What makes them provable together is that,
while a restore is under way, the file that each pending write of the
configuration would make is a function of the files as they are (`target`), and
stays the same whoever writes first, removes the journal or writes another.  The
invariant says so of every pending list of writes (`RestoreOK`), that an
injection is alone and somewhere in its list (`InjectOK`), that without a
journal the configuration is the user's and with one it is that of a
configuration without a route (`FilesOK`), and that with one injection and no
edit the journal can be undone exactly (`CleanOK`).

Only model-checked: the three liveness properties `EveryCallEnds`,
`StoppedTurnsEnd` and `StreamsAreReleased` (liveness under fairness, and anything
about ENABLED, is beyond the prover), and the three violation runs, whose
properties do not hold there.  The other way round, types, `ActiveIsConfigured`,
`BindingsAreBounded`, that only failed keys cool, that no target is tried
twice, that attempts go to available targets, that a process runs one call at a time and that the registry names a
socket once are proved and need no run.

## 5. Findings

Each of these is a run that TLC ends with a counterexample.

1. `CodexTokenRefreshLock`.  A lock file is created and then written
   (`account-store.ts:275-276`).  Between the two, another process reads an empty
   file, takes it for stale and removes it; both then exchange the same grant.
2. `LoginFlowCancel`.  A login that is cancelled before it waits for its callback
   comes to the wait with an aborted signal (`callback-server.ts:235`): the abort
   listener never fires, the paste is rejected at once, and the loop spins
   without giving way to the event loop.
3. `CodexInjectionTwice`.  `restoreNativeCodex` calls itself idempotent
   (`inject.ts:543`).  A second restore has no journal and deletes the profile
   that the first one gave back; one `ocx stop` restores more than once.

Observed while modelling, without a run.

Routing and tokens:

- A thread's binding stores the credential's generation before the same request
  refreshes the token (`routing.ts:206`); the saved token raises the generation
  (`account-store.ts:179`), so the binding is dead at once (`routing.ts:353`) and
  the thread is routed afresh, to whatever account is then active or least used.
  The configuration reference (`configuration.md:53`, `74`) and the dashboard
  guide (`web-dashboard.md:64-68`) say that a bound thread keeps its account.
  `ThreadsMoveForCause` therefore admits a dead generation as a cause to move.
- The fingerprint of a grant is computed anew when the refresh token is rotated
  (`account-store.ts:189`): a second alias that waited for the lock does not find
  the refreshed credential and replays the old grant.
- With two processes `LateRefreshLoses` fails too: the store is read and written
  back as a whole, so one process can undo what another saved.
- A refresh that does not rotate the grant makes each waiter save the same
  credential and raise the generation once more; the first caller's context may
  then be rejected as stale.

Keys:

- After a rotation the retry carries the stored key as written
  (`key-failover.ts:121`): a reference to an environment variable is sent
  unresolved, although the configuration reference says otherwise.
- When the failed key was removed meanwhile, the scan starts at index -1 and never
  looks at the last key (`key-failover.ts:114`).

WebSockets:

- A superseded turn that resolves late registers the socket under its own account
  (`server/index.ts:559`); deleting the account in use then leaves the current
  turn running.  One that resolves after its socket has closed puts the closed
  socket back into the registry, where it stays.
- A WebSocket accepts `response.create` while the server drains.  The deadline
  bounds the wait and `StopLeavesNoTurn` holds.
- A combo reports its account to the socket only when its child has answered, so
  until then a deletion does not reach it.

Streams:

- A client that leaves before the upstream has answered is reported "incomplete"
  for the account (`responses.ts:1170`): the turn's abort controller is not yet
  linked to the upstream's, against the comment at 1175-1176.
- A routed turn whose previous response was missed is remembered without what
  came before it (`responses.ts:1289`, `1317`, `1557`, `1583`).
- A native connection that is reset after `response.completed` gives the client a
  second terminal event; a `done` of the bridge after a stall or a cancel still
  remembers; the drain's deadline reaches nobody in a bridged turn; turns that are
  still connecting are not among the active ones; a failed save is not retried.

Logins:

- The "concurrency guard" of `oauth/index.ts:477-480` does not keep logins apart:
  the late end of a cancelled flow clears the maps of the next one, and a third
  may start.
- An xAI refresh may take about 124 s at worst (30 s of discovery and three
  attempts of 30 s with their pauses, `xai.ts:56-115`), longer than the 120 s after
  which its lock counts as stale (`store.ts:83`).  Another process then takes the
  lock over and exchanges the same grant.  The model does so too, and
  `GrantsAreNotReplayed` and `ReauthIsDeserved` name this as their one exception
  beside an answer that was lost; without it TLC finds `ReauthIsDeserved` violated.
- A login that is cancelled during an exchange that has no signal still saves; the
  save of a reauthentication whose account was just removed is dropped and
  reported as done.

Injection:

- A user's edit between the writing of the journal at the start and the injection,
  or before the journal is marked, is lost at the restore.
- The journal's hashes are set once: after a second injection with another port or
  catalog a restore only strips, and the values taken out of the user's file are
  not put back.
- An incomplete restore leaves a stale journal that later sessions use.
- `ocx start` beside a running proxy reconciles first, and so un-injects the live
  session if a dead tool's process id is in the journal.  A sync that races
  `/api/stop` leaves Codex routed to a dead proxy until the next start.

## 6. Not modelled

- Adapters, the translation of events, Claude, vision: pure translations without
  state that two requests share.
- The catalog, history, logs, update and service: input and output with files and
  processes of the operating system; nothing here reads them back to decide about
  a request.
- Cursor transport: a protocol client over generated code, out of proportion.
- Web search loop and upstream retry: bounded loops of one request without shared
  state.
- In `CodexRouting` to `WebSocketTurns`: log lines, formats of frames and errors,
  header selection, validation metadata of credentials, replay affinity of combos.
- In `StreamRelay`: compaction turns, the native relay of Windows, heartbeats.
- In `ProviderAccounts` and `LoginFlow`: credentials without an identity (kiro) or
  imported from another tool, when the guardian refreshes (the model lets any
  process refresh at any time), and revocation.
- In `CodexInjection`: an injection that interleaves write by write with a restore
  of another process, an edit during a call, process ids that are used again, and
  root models and fast mode, which the strip treats apart.

Most of the repository's lines are in this list: the dashboard, adapters,
generated protocol code and texts have no behaviour for a model to check.

## 7. Plan

Done: the modules of section 2 and the proofs of section 4.  What is left, in
this order:

1. A composition of `CodexRouting` with `CodexTokenRefresh`, whose steps stand
   there as one per result; with it the first observation of section 5 becomes a
   property of the composition.
2. Compaction turns in `StreamRelay`, and the turns of `WebSocketTurns` as its
   clients.
3. Theorems: what is left of `LateRefreshLoses` with several processes (a process
   never writes an older result over what it has itself read).

Runs stay few: a new one replaces one whose question a theorem has settled for
all sizes, or the instance of an existing one is widened.
