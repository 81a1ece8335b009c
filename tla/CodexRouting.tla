---------------------------- MODULE CodexRouting ----------------------------
(***************************************************************************)
(* The Codex account pool: which account serves a request, and what the    *)
(* request's outcome does to the pool.                                     *)
(*                                                                         *)
(* The state is the process memory of src/src/codex/routing.ts (thread     *)
(* affinities, upstream health), account-runtime-state.ts (needs-reauth    *)
(* set) and quota.ts (usage), the part of the configuration that lists the *)
(* accounts and the active one, and the credential records that            *)
(* account-store.ts keeps on disk.  A request resolves its account and     *)
(* reads its token without yielding, may await a token refresh, is         *)
(* admitted, is sent, and reports an outcome much later: any number of     *)
(* requests and operator commands interleave at those awaits.              *)
(*                                                                         *)
(* Abstractions.  A quota snapshot is the single score                     *)
(* computeCodexUsageScore makes of it.  The accounts are a set: their      *)
(* order in the configuration only breaks ties between equal scores, so a  *)
(* tie is a choice here.  A credential is its generation, the generation   *)
(* its grant was logged in at, whether it is live (not tombstoned), and    *)
(* whether its access token is still fresh.  The refresh protocol itself   *)
(* is the subject of CodexTokenRefresh; here it has one step per result.   *)
(***************************************************************************)
EXTENDS Naturals, FiniteSets

CONSTANTS
  Pool,            \* ids an added account may have
  Main,            \* MAIN_CODEX_ACCOUNT_ID, the read-only ~/.codex login
  None,            \* no account, no affinity, no thread header
  Threads,         \* values of x-codex-parent-thread-id
  Slots,           \* requests in flight at a time

  MaxUsage,        \* CODEX_UNKNOWN_USAGE_SCORE: 100 in the code
  AutoSwitchThreshold,        \* config.autoSwitchThreshold, 0 disables
  UpstreamFailoverThreshold,  \* config.upstreamFailoverThreshold, 0 disables
  Cooldowns,       \* what computeQuotaCooldownUntil may add to the clock
  FailureWindow,   \* CODEX_FAILURE_WINDOW_MS
  IdleTTL,         \* CODEX_THREAD_AFFINITY_IDLE_TTL_MS
  ReevalInterval,  \* CODEX_THREAD_AFFINITY_REEVAL_INTERVAL_MS
  MaxAffinities,   \* CODEX_THREAD_AFFINITY_MAX_ENTRIES

  MaxRequests,     \* bound: requests that start
  MaxEvents        \* bound: clock ticks, operator commands and other events

Accounts == Pool \union {Main}

ASSUME IdsAssumption ==
  /\ Main \notin Pool
  /\ None \notin Accounts
  /\ None \notin Threads
  /\ \A t \in Threads : t \notin Accounts

ASSUME NumbersAssumption ==
  /\ MaxUsage \in Nat
  /\ AutoSwitchThreshold \in 0..MaxUsage
  /\ UpstreamFailoverThreshold \in Nat
  /\ Cooldowns \subseteq Nat \ {0}
  /\ FailureWindow \in Nat
  /\ IdleTTL \in Nat
  /\ ReevalInterval \in Nat
  /\ MaxAffinities \in Nat \ {0}
  /\ MaxRequests \in Nat
  /\ MaxEvents \in Nat

VARIABLES
  now,        \* Date.now(); 0 is "never"
  accounts,   \* ids in config.codexAccounts
  active,     \* config.activeCodexAccountId
  record,     \* codex-accounts.json
  mainLive,   \* isMainAccountTokenLive()
  reauth,     \* reauthAccounts
  health,     \* upstreamHealth
  usage,      \* accountQuota, as a score
  affinity,   \* threadAccountMap
  req,        \* the requests
  started,    \* how many requests have started
  events      \* how many events have happened

config == <<accounts, active>>
disk   == <<accounts, active, record>>
memory == <<reauth, health, usage, affinity>>
vars   == <<now, accounts, active, record, mainLive, reauth, health, usage,
            affinity, req, started, events>>
bounds == <<started, events>>

-----------------------------------------------------------------------------
(* Types *)

NoHealth == [fails |-> 0, failedAt |-> 0, cooldownUntil |-> 0]
NoRecord == [generation |-> 0, loggedIn |-> 0, live |-> FALSE, fresh |-> FALSE]
FirstRecord == [generation |-> 1, loggedIn |-> 1, live |-> TRUE, fresh |-> TRUE]
Answered(status) == [pc |-> status, account |-> None, generation |-> 0]
Idle     == Answered("idle")

Health   == [fails : Nat, failedAt : Nat, cooldownUntil : Nat]
Record   == [generation : Nat, loggedIn : Nat, live : BOOLEAN, fresh : BOOLEAN]
Affinity == [account : Accounts, generation : Nat, usedAt : Nat, reevalAt : Nat]

\* A request that is not being served: never started or finished (idle),
\* answered by the pool with 401 or 429 (rejected) or with 409 (expired).
Resting  == {"idle", "rejected", "expired"}
Request  ==
  [pc : Resting, account : Accounts \union {None}, generation : Nat]
    \union [pc : {"refreshing"}, account : Pool, generation : Nat]
    \union [pc : {"ready", "sent"}, account : Accounts, generation : Nat]

TypeOK ==
  /\ now \in Nat
  /\ accounts \subseteq Pool
  /\ active \in Accounts \union {None}
  /\ record \in [Pool -> Record]
  /\ mainLive \in BOOLEAN
  /\ reauth \subseteq Accounts
  /\ health \in [Accounts -> Health]
  /\ usage \in [Accounts -> 0..MaxUsage]
  /\ affinity \in [Threads -> Affinity \union {None}]
  /\ req \in [Slots -> Request]
  /\ started \in Nat
  /\ events \in Nat

-----------------------------------------------------------------------------
(* Which accounts can serve *)

isCodexAccountUsable(a) ==
  IF a = Main
    THEN mainLive /\ Main \notin reauth
    ELSE a \in accounts /\ a \notin reauth /\ record[a].live

isCodexAccountInCooldown(a) == health[a].cooldownUntil > now

isCodexAccountSelectable(a) ==
  ~isCodexAccountInCooldown(a) /\ isCodexAccountUsable(a)

hasConfiguredPoolAccount(a) ==
  IF a = Main THEN isCodexAccountUsable(a) ELSE a \in accounts

getEligiblePoolAccounts == {a \in Accounts : isCodexAccountSelectable(a)}

LowestUsage(S) == {a \in S : \A b \in S : usage[a] <= usage[b]}

pickLowestUsageCodexAccount(excluded) ==
  LowestUsage(getEligiblePoolAccounts \ {excluded})

\* The accounts strictly below a's usage that score lowest; {} keeps a.
pickLowerUsageAccount(a) ==
  LowestUsage({b \in getEligiblePoolAccounts \ {a} : usage[b] < usage[a]})

pickNextUnknownAccount(a) ==
  {b \in getEligiblePoolAccounts \ {a} : usage[b] >= MaxUsage}

overThreshold(a) == AutoSwitchThreshold > 0 /\ usage[a] >= AutoSwitchThreshold

\* Each "apply" operator is the set of accounts that may be active after it.
applyQuotaAutoSwitch(a) ==
  IF ~overThreshold(a) THEN {a}
  ELSE IF pickLowerUsageAccount(a) # {} THEN pickLowerUsageAccount(a)
  ELSE IF usage[a] >= MaxUsage /\ pickNextUnknownAccount(a) # {}
    THEN pickNextUnknownAccount(a)
  ELSE {a}

staleFailure(a) ==
  health[a].failedAt # 0 /\ now - health[a].failedAt > FailureWindow

shouldFailover(a) ==
  /\ UpstreamFailoverThreshold > 0
  /\ ~staleFailure(a)
  /\ health[a].fails >= UpstreamFailoverThreshold

applyFailureFailover(a) ==
  IF shouldFailover(a) /\ pickLowestUsageCodexAccount(a) # {}
    THEN pickLowestUsageCodexAccount(a)
    ELSE {a}

\* The account routing starts from: the active one, or the least used one
\* when none is active.
startingAccounts ==
  IF active = None THEN pickLowestUsageCodexAccount(None) ELSE {active}

\* Fault: the fallback looks at the credential and not at the cooldown.
selectableOrFallbackFaulty(a) ==
  IF isCodexAccountUsable(a) THEN {a} ELSE pickLowestUsageCodexAccount(a)

selectableOrFallback(a) ==
  IF isCodexAccountSelectable(a) THEN {a} ELSE pickLowestUsageCodexAccount(a)

\* Lines 403-408 test the result again: RoutedIsSelectable (in
\* CodexRoutingProofs) shows that the test cannot fail.
routedAccounts ==
  UNION {applyFailureFailover(c) :
    c \in UNION {applyQuotaAutoSwitch(b) :
      b \in UNION {selectableOrFallback(a) : a \in startingAccounts}}}

-----------------------------------------------------------------------------
(* Thread affinity *)

isThreadAffinityExpired(e) == now - e.usedAt > IdleTTL

isThreadAffinityGenerationLive(e) ==
  IF e.account = Main
    THEN e.generation = 0
    ELSE record[e.account].live /\ record[e.account].generation = e.generation

bindingFor(a) ==
  [account |-> a, usedAt |-> now, reevalAt |-> now,
   generation |-> IF a = Main THEN 0 ELSE record[a].generation]

pruneExpiredThreadAffinities(aff) ==
  [t \in Threads |->
    IF aff[t] # None /\ isThreadAffinityExpired(aff[t]) THEN None ELSE aff[t]]

boundThreads(aff) == {t \in Threads : aff[t] # None}

\* A new entry is the newest of the map, so the evicted one is another.
pruneLruThreadAffinities(aff, newest) ==
  LET others == boundThreads(aff) \ {newest}
      oldest == {t \in others : \A u \in others : aff[t].usedAt <= aff[u].usedAt}
  IN  IF Cardinality(boundThreads(aff)) <= MaxAffinities
        THEN {aff}
        ELSE {[aff EXCEPT ![t] = None] : t \in oldest}

\* The maps that binding t to a may leave.
bindThreadAffinity(aff, t, a) ==
  IF a # Main /\ ~record[a].live
    THEN {aff}
    ELSE pruneLruThreadAffinities(
           [pruneExpiredThreadAffinities(aff) EXCEPT ![t] = bindingFor(a)], t)

\* Faults: the bindings of the account are kept; the bindings of all the
\* others are dropped instead.
forgetAccountKeeps(aff, a) == aff
forgetAccountInverted(aff, a) ==
  [t \in Threads |-> IF aff[t] # None /\ aff[t].account # a THEN None ELSE aff[t]]

forgetAccount(aff, a) ==
  [t \in Threads |-> IF aff[t] # None /\ aff[t].account = a THEN None ELSE aff[t]]

isBound(t) == t \in Threads /\ affinity[t] # None

\* Fault: the generation of the binding is not looked at.
isReusableUnchecked(t) ==
  /\ isBound(t)
  /\ ~isThreadAffinityExpired(affinity[t])
  /\ isCodexAccountSelectable(affinity[t].account)

isReusable(t) ==
  /\ isBound(t)
  /\ ~isThreadAffinityExpired(affinity[t])
  /\ isThreadAffinityGenerationLive(affinity[t])
  /\ isCodexAccountSelectable(affinity[t].account)

isReevalDue(t) == now - affinity[t].reevalAt >= ReevalInterval

\* Fault: the re-evaluation is not gated by its interval.
coolerAccountsEveryTime(t) ==
  IF overThreshold(affinity[t].account)
    THEN pickLowerUsageAccount(affinity[t].account)
    ELSE {}

\* Where the periodic re-evaluation of a bound thread may move it.
coolerAccounts(t) ==
  IF isReevalDue(t) /\ overThreshold(affinity[t].account)
    THEN pickLowerUsageAccount(affinity[t].account)
    ELSE {}

\* Reuse slides the idle clock, and restarts the re-evaluation clock when due.
touched(t) ==
  [account |-> affinity[t].account, generation |-> affinity[t].generation,
   usedAt |-> now,
   reevalAt |-> IF isReevalDue(t) THEN now ELSE affinity[t].reevalAt]

-----------------------------------------------------------------------------
(* A request resolves its account: resolveCodexAuthContext up to its first *)
(* await.  Everything in one of these actions runs without yielding.       *)

hasNoCredential(a) == a # Main /\ ~record[a].live

\* What getValidCodexToken and the checks before it make of the account.
authContextFor(a) ==
  [account |-> a,
   generation |-> IF a = Main THEN 0 ELSE record[a].generation,
   pc |-> IF isCodexAccountInCooldown(a) \/ hasNoCredential(a) THEN "rejected"
          ELSE IF a = Main THEN "ready"
          ELSE IF record[a].fresh THEN "ready"
          ELSE "refreshing"]

\* An account without a credential is marked, a cooled one is not.
beginRequest(s, a) ==
  /\ req' = [req EXCEPT ![s] = authContextFor(a)]
  /\ reauth' = IF hasNoCredential(a) /\ ~isCodexAccountInCooldown(a)
                 THEN reauth \union {a} ELSE reauth

rejectRequest(s, status) ==
  /\ req' = [req EXCEPT ![s] = Answered(status)]
  /\ UNCHANGED reauth

start(s) ==
  /\ req[s].pc \in Resting
  /\ started < MaxRequests
  /\ started' = started + 1

\* An affinity idle for longer than the TTL answers 409 once.
ResolveExpired(s, t) ==
  /\ start(s)
  /\ isBound(t)
  /\ isThreadAffinityExpired(affinity[t])
  /\ affinity' = [affinity EXCEPT ![t] = None]
  /\ rejectRequest(s, "expired")
  /\ UNCHANGED <<now, disk, mainLive, health, usage, events>>

ResolveBound(s, t) ==
  /\ start(s)
  /\ isReusable(t)
  /\ coolerAccounts(t) = {}
  /\ affinity' = [affinity EXCEPT ![t] = touched(t)]
  /\ beginRequest(s, affinity[t].account)
  /\ UNCHANGED <<now, disk, mainLive, health, usage, events>>

ResolveRebalanced(s, t) ==
  /\ start(s)
  /\ isReusable(t)
  /\ \E a \in coolerAccounts(t) :
       /\ active' = a
       /\ affinity' \in bindThreadAffinity(affinity, t, a)
       /\ beginRequest(s, a)
  /\ UNCHANGED <<now, accounts, record, mainLive, health, usage, events>>

\* No binding, or one that can no longer be used: route from the active
\* account and bind the thread to the result.
needsRouting(t) ==
  isBound(t) => ~isThreadAffinityExpired(affinity[t]) /\ ~isReusable(t)

unbound(t) == IF t = None THEN affinity ELSE [affinity EXCEPT ![t] = None]

ResolveNew(s, t) ==
  /\ start(s)
  /\ needsRouting(t)
  /\ \E a \in routedAccounts :
       /\ active' = a
       /\ affinity' \in IF t = None THEN {affinity}
                        ELSE bindThreadAffinity(unbound(t), t, a)
       /\ beginRequest(s, a)
  /\ UNCHANGED <<now, accounts, record, mainLive, health, usage, events>>

\* Nothing can be selected.  A configured active account is still returned:
\* its cooldown or its missing credential then decides the answer.
ResolveStuck(s, t) ==
  /\ start(s)
  /\ needsRouting(t)
  /\ routedAccounts = {}
  /\ affinity' = unbound(t)
  /\ IF active # None /\ hasConfiguredPoolAccount(active)
       THEN beginRequest(s, active)
       ELSE rejectRequest(s, "rejected")
  /\ UNCHANGED <<now, disk, mainLive, health, usage, events>>

Resolve(s, t) ==
  \/ ResolveExpired(s, t)
  \/ ResolveBound(s, t)
  \/ ResolveRebalanced(s, t)
  \/ ResolveNew(s, t)
  \/ ResolveStuck(s, t)

-----------------------------------------------------------------------------
(* The awaited token refresh, by its result *)

isRefreshing(s) == req[s].pc = "refreshing"

advance(s, pc, g) ==
  req' = [req EXCEPT ![s] =
    [pc |-> pc, account |-> req[s].account, generation |-> g]]

finish(s, status) == req' = [req EXCEPT ![s] = Answered(status)]

refreshedRecord(a) ==
  [generation |-> record[a].generation + 1, loggedIn |-> record[a].loggedIn,
   live |-> TRUE, fresh |-> TRUE]

\* The grant this request saw is still the account's grant, so a successful
\* exchange (or the copy a waiter saves) replaces the credential.
RefreshSaved(s) ==
  /\ isRefreshing(s)
  /\ LET a == req[s].account IN
       /\ record[a].live
       /\ record[a].loggedIn <= req[s].generation
       /\ record' = [record EXCEPT ![a] = refreshedRecord(a)]
       /\ advance(s, "ready", record[a].generation + 1)
  /\ UNCHANGED <<now, config, mainLive, memory, bounds>>

\* Somebody else renewed the credential meanwhile.
RefreshReused(s) ==
  /\ isRefreshing(s)
  /\ LET a == req[s].account IN
       /\ record[a].live /\ record[a].fresh
       /\ advance(s, "ready", record[a].generation)
  /\ UNCHANGED <<now, disk, mainLive, memory, bounds>>

\* A generation conflict or a lock timeout: the request fails, the account
\* is not marked.
RefreshConflict(s) ==
  /\ isRefreshing(s)
  /\ finish(s, "rejected")
  /\ UNCHANGED <<now, disk, mainLive, memory, bounds>>

\* The exchange was refused or never answered.  The mark goes to the id,
\* whatever credential it has by now.
RefreshFailed(s) ==
  /\ isRefreshing(s)
  /\ reauth' = reauth \union {req[s].account}
  /\ finish(s, "rejected")
  /\ UNCHANGED <<now, disk, mainLive, health, usage, affinity, bounds>>

isAuthContextUsable(s) ==
  LET a == req[s].account IN
    /\ isCodexAccountUsable(a)
    /\ a = Main \/ record[a].generation = req[s].generation

\* Back in handleResponses after the await.
Admit(s) ==
  /\ req[s].pc = "ready"
  /\ IF isAuthContextUsable(s)
       THEN advance(s, "sent", req[s].generation)
       ELSE finish(s, "rejected")
  /\ UNCHANGED <<now, disk, mainLive, memory, bounds>>

-----------------------------------------------------------------------------
(* The outcome of a sent request: recordCodexUpstreamOutcome *)

isSent(s) == req[s].pc = "sent"

setHealth(a, fails, until) ==
  health' = [health EXCEPT ![a] =
    [fails |-> fails, failedAt |-> now, cooldownUntil |-> until]]

\* Fault: there is no cooldown.
unexpiredCooldownDropped(a) == 0

\* getCodexAccountCooldownUntil, with 0 for null.
unexpiredCooldown(a) ==
  IF isCodexAccountInCooldown(a) THEN health[a].cooldownUntil ELSE 0

OutcomeSuccess(s) ==
  /\ isSent(s)
  /\ LET a == req[s].account IN
       health' = [health EXCEPT ![a] =
         [fails |-> 0, failedAt |-> 0, cooldownUntil |-> unexpiredCooldown(a)]]
  /\ finish(s, "idle")
  /\ UNCHANGED <<now, disk, mainLive, reauth, usage, affinity, bounds>>

\* A 4xx that is the caller's own, or a client that went away: no outcome.
OutcomeIgnored(s) ==
  /\ isSent(s)
  /\ finish(s, "idle")
  /\ UNCHANGED <<now, disk, mainLive, memory, bounds>>

OutcomeCredential(s) ==
  /\ isSent(s)
  /\ LET a == req[s].account IN
       /\ setHealth(a, 1, 0)
       /\ reauth' = reauth \union {a}
       /\ affinity' = forgetAccount(affinity, a)
  /\ finish(s, "idle")
  /\ UNCHANGED <<now, disk, mainLive, usage, bounds>>

\* The fallback is picked with the new cooldown in force; a is excluded.
OutcomeQuota(s) ==
  /\ isSent(s)
  /\ LET a == req[s].account IN
       /\ \E d \in Cooldowns : setHealth(a, 0, now + d)
       /\ affinity' = forgetAccount(affinity, a)
       /\ IF active = a /\ pickLowestUsageCodexAccount(a) # {}
            THEN active' \in pickLowestUsageCodexAccount(a)
            ELSE UNCHANGED active
  /\ finish(s, "idle")
  /\ UNCHANGED <<now, accounts, record, mainLive, reauth, usage, bounds>>

\* Bound: the streak is counted up to the threshold, which is all that
\* shouldFailover can tell of it.
nextStreak(a) ==
  IF staleFailure(a) THEN 1
  ELSE IF health[a].fails < UpstreamFailoverThreshold THEN health[a].fails + 1
  ELSE health[a].fails

OutcomeTransient(s) ==
  /\ isSent(s)
  /\ LET a == req[s].account
         fails == nextStreak(a)
         failover == /\ active = a
                     /\ UpstreamFailoverThreshold > 0
                     /\ fails >= UpstreamFailoverThreshold
                     /\ pickLowestUsageCodexAccount(a) # {}
     IN  /\ setHealth(a, fails, unexpiredCooldown(a))
         /\ IF failover
              THEN active' \in pickLowestUsageCodexAccount(a)
              ELSE UNCHANGED active
  /\ finish(s, "idle")
  /\ UNCHANGED <<now, accounts, record, mainLive, reauth, usage, affinity, bounds>>

-----------------------------------------------------------------------------
(* Operator commands and the world around the pool.  Each counts as an     *)
(* event.                                                                  *)

event ==
  /\ events < MaxEvents
  /\ events' = events + 1
  /\ UNCHANGED started

loggedInRecord(a) ==
  LET g == record[a].generation + 1
  IN  [generation |-> g, loggedIn |-> g, live |-> TRUE, fresh |-> TRUE]

tombstone(a) ==
  [generation |-> record[a].generation + 1, loggedIn |-> 0,
   live |-> FALSE, fresh |-> FALSE]

\* The last, uninterrupted part of a login, a reauthentication or an import.
Login(a) ==
  /\ event
  /\ record' = [record EXCEPT ![a] = loggedInRecord(a)]
  /\ reauth' = reauth \ {a}
  /\ accounts' = accounts \union {a}
  /\ UNCHANGED <<now, active, mainLive, health, usage, affinity, req>>

DeleteAccount(a) ==
  /\ event
  /\ record' = [record EXCEPT ![a] = tombstone(a)]
  /\ accounts' = accounts \ {a}
  /\ active' = IF active = a THEN None ELSE active
  /\ reauth' = reauth \ {a}
  /\ health' = [health EXCEPT ![a] = NoHealth]
  /\ usage' = [usage EXCEPT ![a] = MaxUsage]
  /\ affinity' = forgetAccount(affinity, a)
  /\ UNCHANGED <<now, mainLive, req>>

\* PUT /api/codex-auth/active.
SelectActive(a) ==
  /\ event
  /\ a \in accounts \union {Main, None}
  /\ a # active
  /\ active' = a
  /\ UNCHANGED <<now, accounts, record, mainLive, memory, req>>

\* A change of codexAccountMode clears the thread map.
ChangeAccountMode ==
  /\ event
  /\ affinity' = [t \in Threads |-> None]
  /\ UNCHANGED <<now, disk, mainLive, reauth, health, usage, req>>

\* Quota headers of a response, or a WHAM fetch, of any account.
UpdateQuota(a, u) ==
  /\ event
  /\ u # usage[a]
  /\ usage' = [usage EXCEPT ![a] = u]
  /\ UNCHANGED <<now, disk, mainLive, reauth, health, affinity, req>>

\* An access token comes within REFRESH_SKEW_MS of its expiry.
TokenExpires(a) ==
  /\ event
  /\ record[a].fresh
  /\ record' = [record EXCEPT ![a] =
       [generation |-> record[a].generation, loggedIn |-> record[a].loggedIn,
        live |-> record[a].live, fresh |-> FALSE]]
  /\ UNCHANGED <<now, config, mainLive, memory, req>>

\* The Codex CLI logs in or out, or its token expires.
MainTokenChanges ==
  /\ event
  /\ mainLive' = ~mainLive
  /\ UNCHANGED <<now, disk, memory, req>>

Tick ==
  /\ event
  /\ now' = now + 1
  /\ UNCHANGED <<disk, mainLive, memory, req>>

startProcess ==
  /\ reauth' = {}
  /\ health' = [a \in Accounts |-> NoHealth]
  /\ usage' = [a \in Accounts |-> MaxUsage]
  /\ affinity' = [t \in Threads |-> None]
  /\ req' = [s \in Slots |-> Idle]

\* A crash or a restart: the disk survives, the memory does not.
Restart ==
  /\ event
  /\ startProcess
  /\ UNCHANGED <<now, disk, mainLive>>

\* The credential store is written before the configuration: a crash
\* between the two leaves only the first done.
CrashInLogin(a) ==
  /\ event
  /\ record' = [record EXCEPT ![a] = loggedInRecord(a)]
  /\ startProcess
  /\ UNCHANGED <<now, config, mainLive>>

CrashInDelete(a) ==
  /\ event
  /\ record' = [record EXCEPT ![a] = tombstone(a)]
  /\ startProcess
  /\ UNCHANGED <<now, config, mainLive>>

-----------------------------------------------------------------------------
(* Any configuration and credential store left by an earlier run, and a    *)
(* process that has just started.                                          *)

Init ==
  /\ now = 1
  /\ accounts \in SUBSET Pool
  /\ active \in accounts \union {Main, None}
  /\ record \in [Pool -> {NoRecord, FirstRecord}]
  /\ mainLive \in BOOLEAN
  /\ reauth = {}
  /\ health = [a \in Accounts |-> NoHealth]
  /\ usage = [a \in Accounts |-> MaxUsage]
  /\ affinity = [t \in Threads |-> None]
  /\ req = [s \in Slots |-> Idle]
  /\ started = 0
  /\ events = 0

RequestStep(s) ==
  \/ \E t \in Threads \union {None} : Resolve(s, t)
  \/ RefreshSaved(s)
  \/ RefreshReused(s)
  \/ RefreshConflict(s)
  \/ RefreshFailed(s)
  \/ Admit(s)
  \/ OutcomeSuccess(s)
  \/ OutcomeIgnored(s)
  \/ OutcomeCredential(s)
  \/ OutcomeQuota(s)
  \/ OutcomeTransient(s)

AccountEvent(a) ==
  \/ Login(a)
  \/ DeleteAccount(a)
  \/ TokenExpires(a)
  \/ CrashInLogin(a)
  \/ CrashInDelete(a)

Next ==
  \/ \E s \in Slots : RequestStep(s)
  \/ \E a \in Pool : AccountEvent(a)
  \/ \E a \in Accounts \union {None} : SelectActive(a)
  \/ \E a \in Accounts, u \in 0..MaxUsage : UpdateQuota(a, u)
  \/ ChangeAccountMode
  \/ MainTokenChanges
  \/ Tick
  \/ Restart

Spec == Init /\ [][Next]_vars

-----------------------------------------------------------------------------
(* Properties *)

\* No thread stays bound to an account that is cooling down.  A 429 clears
\* the bindings of its account, and no later step, of this or of another
\* request, may bind a thread to it or move a cooldown under a binding.
NoBindingToCooledAccount ==
  \A t \in Threads : isBound(t) => ~isCodexAccountInCooldown(affinity[t].account)

\* A binding never outlives its account: it names the main account or one
\* still configured, and a generation that account has already had.
BindingsAreOwned ==
  \A t \in Threads : isBound(t) =>
    LET e == affinity[t] IN
      IF e.account = Main
        THEN e.generation = 0
        ELSE e.account \in accounts /\ e.generation <= record[e.account].generation

\* The active account is never one that was deleted.
ActiveIsConfigured == active \in accounts \union {Main, None}

\* The affinity map never holds more than its cap.
BindingsAreBounded == Cardinality(boundThreads(affinity)) <= MaxAffinities

\* If any account can serve, a request that starts is given one that can:
\* it is not told that the pool is empty or cooling down, and it is not
\* sent to an account that is. An idle binding's 409 is the one exception.
ResolveServesFromPool ==
  [][\A s \in Slots :
       (/\ req[s].pc \in Resting
        /\ req'[s].pc \notin {"idle", "expired"}
        /\ req'[s] # req[s]
        /\ getEligiblePoolAccounts # {})
       => req'[s].account \in getEligiblePoolAccounts]_vars

\* A binding is served from only while its credential is the one it was made
\* with and its account can serve.  It is left for another account, or for
\* another generation of its own, only when the account cannot serve, when the
\* credential was replaced (deleted, logged in again, or merely refreshed: the
\* refresh of a token that still works costs the thread its account, which
\* configuration.md:53 says it keeps), or when a due re-evaluation finds the
\* account over the threshold and a strictly cooler one: threads do not flap.
ThreadsMoveForCause ==
  [][\A t \in Threads :
       LET e == affinity[t]
           f == affinity'[t]
       IN  (e # None /\ f # None /\ f # e)
           => IF f.account = e.account /\ f.generation = e.generation
              THEN isThreadAffinityGenerationLive(e) /\ isCodexAccountSelectable(e.account)
              ELSE \/ ~isCodexAccountSelectable(e.account)
                   \/ ~isThreadAffinityGenerationLive(e)
                   \/ /\ isReevalDue(t)
                      /\ overThreshold(e.account)
                      /\ usage[f.account] < usage[e.account]]_vars

\* A cooldown runs its course: only a newer 429, a 401/403, the deletion
\* of the account or a restart shortens it, never a success or a 5xx of a
\* request that was already in flight.
CooldownSurvivesOtherOutcomes ==
  [][\A a \in Accounts :
       (/\ isCodexAccountInCooldown(a)
        /\ health'[a].cooldownUntil < health[a].cooldownUntil)
       => \/ health'[a].cooldownUntil > now
          \/ a \in reauth'
          \/ a \in Pool /\ ~record'[a].live
          \/ health' = [b \in Accounts |-> NoHealth]]_vars

=============================================================================
