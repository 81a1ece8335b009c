------------------------- MODULE CodexRoutingProofs -------------------------
(***************************************************************************)
(* Proofs about CodexRouting, for any accounts, threads, requests and      *)
(* limits.                                                                 *)
(***************************************************************************)
EXTENDS CodexRouting, FiniteSetTheorems, WellFoundedInduction, TLAPS

-----------------------------------------------------------------------------
(* What the operators of the module return *)

\* The picks choose among the accounts that can serve, minus the one left out.
LEMMA PicksAreEligible ==
  ASSUME NEW a
  PROVE  /\ pickLowestUsageCodexAccount(a) \subseteq getEligiblePoolAccounts \ {a}
         /\ pickLowerUsageAccount(a) \subseteq getEligiblePoolAccounts \ {a}
         /\ pickNextUnknownAccount(a) \subseteq getEligiblePoolAccounts \ {a}
BY DEF pickLowestUsageCodexAccount, pickLowerUsageAccount, pickNextUnknownAccount,
       LowestUsage

\* Whatever the quota switch and the failure failover do to the active
\* account, the account routing ends with can serve: the tests that follow
\* them in resolveCodexAccountForThreadDetailed never fail.
THEOREM RoutedIsSelectable ==
  ASSUME TypeOK
  PROVE  routedAccounts \subseteq getEligiblePoolAccounts
<1> DEFINE E == getEligiblePoolAccounts
<1>1. \A a \in startingAccounts : selectableOrFallback(a) \subseteq E
  <2>1. startingAccounts \subseteq Accounts
    <3>1. CASE active = None
      BY <3>1, PicksAreEligible DEF startingAccounts, getEligiblePoolAccounts
    <3>2. CASE active # None
      BY <3>2 DEF startingAccounts, TypeOK
    <3> QED BY <3>1, <3>2
  <2> QED
    BY <2>1, PicksAreEligible DEF selectableOrFallback, getEligiblePoolAccounts
<1>2. \A b \in E : applyQuotaAutoSwitch(b) \subseteq E
  BY PicksAreEligible DEF applyQuotaAutoSwitch
<1>3. \A c \in E : applyFailureFailover(c) \subseteq E
  BY PicksAreEligible DEF applyFailureFailover
<1> HIDE DEF E
<1> QED
  BY <1>1, <1>2, <1>3 DEF routedAccounts, E

LEMMA EligibleAreConfigured ==
  ASSUME NEW a \in getEligiblePoolAccounts
  PROVE  /\ a \in Accounts
         /\ a = Main \/ a \in accounts
         /\ ~isCodexAccountInCooldown(a)
         /\ a \in Pool => record[a].live
         /\ ~hasNoCredential(a)
BY IdsAssumption DEF getEligiblePoolAccounts, isCodexAccountSelectable,
   isCodexAccountUsable, hasNoCredential, Accounts

AffinityMap == [Threads -> Affinity \union {None}]

\* Binding a thread changes its own entry to the new binding; every other
\* entry is kept or dropped.
LEMMA BindThread ==
  ASSUME TypeOK, NEW aff \in AffinityMap, NEW t \in Threads, NEW a \in Accounts,
         NEW new \in bindThreadAffinity(aff, t, a)
  PROVE  /\ new \in AffinityMap
         /\ \A u \in Threads :
              \/ new[u] = None
              \/ new[u] = aff[u]
              \/ u = t /\ new[u] = bindingFor(a)
<1>1. bindingFor(a) \in Affinity
  <2>1. CASE a = Main
    BY <2>1 DEF bindingFor, Affinity, TypeOK
  <2>2. CASE a # Main
    BY <2>2 DEF bindingFor, Affinity, TypeOK, Record, Accounts
  <2> QED BY <2>1, <2>2
<1> DEFINE bound == [pruneExpiredThreadAffinities(aff) EXCEPT ![t] = bindingFor(a)]
<1>2. /\ bound \in AffinityMap
      /\ \A u \in Threads :
           \/ bound[u] = None
           \/ bound[u] = aff[u]
           \/ u = t /\ bound[u] = bindingFor(a)
  BY <1>1 DEF pruneExpiredThreadAffinities, AffinityMap
<1>3. \/ new = aff
      \/ new = bound
      \/ \E u \in Threads : new = [bound EXCEPT ![u] = None]
  BY DEF bindThreadAffinity, pruneLruThreadAffinities, boundThreads
<1> HIDE DEF bound
<1> QED BY <1>2, <1>3 DEF AffinityMap

LEMMA ForgetAccount ==
  ASSUME NEW aff \in AffinityMap, NEW a
  PROVE  /\ forgetAccount(aff, a) \in AffinityMap
         /\ \A u \in Threads :
              \/ forgetAccount(aff, a)[u] = None
              \/ /\ forgetAccount(aff, a)[u] = aff[u]
                 /\ aff[u].account # a
BY DEF forgetAccount, AffinityMap

LEMMA AuthContext ==
  ASSUME TypeOK, NEW a \in Accounts
  PROVE  authContextFor(a) \in Request
<1>1. (IF a = Main THEN 0 ELSE record[a].generation) \in Nat
  BY DEF TypeOK, Accounts, Record
<1> QED BY <1>1 DEF authContextFor, Request, Resting, Accounts

-----------------------------------------------------------------------------
(* Type correctness *)

\* Init gives every variable a value of its type.
LEMMA TypeInit == Init => TypeOK
<1> SUFFICES ASSUME Init PROVE TypeOK
  OBVIOUS
<1>1. record \in [Pool -> Record]
  <2>1. NoRecord \in Record /\ FirstRecord \in Record
    BY DEF Record, NoRecord, FirstRecord
  <2> QED BY <2>1 DEF Init
<1>2. health \in [Accounts -> Health] /\ usage \in [Accounts -> 0..MaxUsage]
  BY NumbersAssumption DEF Init, Health, NoHealth
<1>3. req \in [Slots -> Request] /\ affinity \in [Threads -> Affinity \union {None}]
  BY DEF Init, Request, Idle, Answered, Resting
<1> QED BY <1>1, <1>2, <1>3 DEF Init, TypeOK, Accounts

\* A request that begins, is rejected, proceeds or finishes stays a request.
LEMMA RequestSteps ==
  ASSUME TypeOK, NEW s \in Slots
  PROVE  /\ \A a \in Accounts : beginRequest(s, a) =>
              req' \in [Slots -> Request] /\ reauth' \subseteq Accounts
         /\ \A st \in Resting : finish(s, st) \/ rejectRequest(s, st) =>
              req' \in [Slots -> Request]
         /\ \A pc \in {"ready", "sent"}, g \in Nat :
              req[s].account \in Accounts /\ advance(s, pc, g) =>
                req' \in [Slots -> Request]
<1>1. ASSUME NEW a \in Accounts, beginRequest(s, a)
      PROVE  req' \in [Slots -> Request] /\ reauth' \subseteq Accounts
  BY <1>1, AuthContext DEF beginRequest, TypeOK
<1>2. ASSUME NEW st \in Resting, finish(s, st) \/ rejectRequest(s, st)
      PROVE  req' \in [Slots -> Request]
  <2>1. Answered(st) \in Request
    BY DEF Answered, Request
  <2> QED BY <1>2, <2>1 DEF finish, rejectRequest, TypeOK
<1>3. ASSUME NEW pc \in {"ready", "sent"}, NEW g \in Nat,
             req[s].account \in Accounts, advance(s, pc, g)
      PROVE  req' \in [Slots -> Request]
  BY <1>3 DEF advance, TypeOK, Request
<1> QED BY <1>1, <1>2, <1>3

LEMMA ServedAccount ==
  ASSUME TypeOK, NEW s \in Slots
  PROVE  /\ req[s].generation \in Nat
         /\ isRefreshing(s) => req[s].account \in Pool
         /\ req[s].pc \in {"refreshing", "ready", "sent"} => req[s].account \in Accounts
BY DEF TypeOK, Request, Resting, isRefreshing, Accounts

LEMMA BoundAccount ==
  ASSUME TypeOK, NEW t, isBound(t)
  PROVE  t \in Threads /\ affinity[t] \in Affinity /\ affinity[t].account \in Accounts
BY DEF isBound, TypeOK, Affinity

LEMMA ResolveType ==
  ASSUME TypeOK, NEW s \in Slots, NEW t \in Threads \union {None}, Resolve(s, t)
  PROVE  TypeOK'
<1> USE DEF AffinityMap
<1>1. CASE ResolveExpired(s, t)
  <2>1. req' \in [Slots -> Request]
    BY <1>1, RequestSteps DEF ResolveExpired, Resting
  <2>2. affinity' \in AffinityMap
    BY <1>1 DEF ResolveExpired, TypeOK
  <2> QED BY <1>1, <2>1, <2>2 DEF ResolveExpired, rejectRequest, TypeOK, disk, start
<1>2. CASE ResolveBound(s, t)
  <2>1. affinity[t] \in Affinity /\ t \in Threads /\ affinity[t].account \in Accounts
    BY <1>2, BoundAccount DEF ResolveBound, isReusable
  <2>2. req' \in [Slots -> Request] /\ reauth' \subseteq Accounts
    BY <1>2, <2>1, RequestSteps DEF ResolveBound
  <2>3. affinity' \in AffinityMap
    BY <1>2, <2>1 DEF ResolveBound, touched, TypeOK, Affinity
  <2> QED BY <1>2, <2>2, <2>3 DEF ResolveBound, TypeOK, disk, start
<1>3. CASE ResolveRebalanced(s, t)
  <2>1. t \in Threads
    BY <1>3, BoundAccount DEF ResolveRebalanced, isReusable
  <2>2. PICK a \in coolerAccounts(t) :
          /\ active' = a
          /\ affinity' \in bindThreadAffinity(affinity, t, a)
          /\ beginRequest(s, a)
    BY <1>3 DEF ResolveRebalanced
  <2>3. a \in Accounts
    BY PicksAreEligible, EligibleAreConfigured DEF coolerAccounts
  <2>4. req' \in [Slots -> Request] /\ reauth' \subseteq Accounts
    BY <2>2, <2>3, RequestSteps
  <2>5. affinity' \in AffinityMap
    BY <2>1, <2>2, <2>3, BindThread DEF TypeOK
  <2> QED BY <1>3, <2>2, <2>3, <2>4, <2>5 DEF ResolveRebalanced, TypeOK, start
<1>4. CASE ResolveNew(s, t)
  <2>1. PICK a \in routedAccounts :
          /\ active' = a
          /\ affinity' \in IF t = None THEN {affinity}
                           ELSE bindThreadAffinity(unbound(t), t, a)
          /\ beginRequest(s, a)
    BY <1>4 DEF ResolveNew
  <2>2. a \in Accounts
    BY RoutedIsSelectable, EligibleAreConfigured
  <2>3. req' \in [Slots -> Request] /\ reauth' \subseteq Accounts
    BY <2>1, <2>2, RequestSteps
  <2>4. unbound(t) \in AffinityMap
    BY DEF unbound, TypeOK
  <2>5. affinity' \in AffinityMap
    BY <2>1, <2>2, <2>4, BindThread DEF TypeOK
  <2> QED BY <1>4, <2>1, <2>2, <2>3, <2>5 DEF ResolveNew, TypeOK, start
<1>5. CASE ResolveStuck(s, t)
  <2>1. req' \in [Slots -> Request] /\ reauth' \subseteq Accounts
    <3>1. CASE active # None /\ hasConfiguredPoolAccount(active)
      <4>1. active \in Accounts
        BY <3>1 DEF TypeOK
      <4> QED BY <1>5, <3>1, <4>1, RequestSteps DEF ResolveStuck
    <3>2. CASE ~(active # None /\ hasConfiguredPoolAccount(active))
      BY <1>5, <3>2, RequestSteps DEF ResolveStuck, rejectRequest, Resting, TypeOK
    <3> QED BY <3>1, <3>2
  <2>2. affinity' \in AffinityMap
    BY <1>5 DEF ResolveStuck, unbound, TypeOK
  <2> QED BY <1>5, <2>1, <2>2 DEF ResolveStuck, TypeOK, disk, start
<1> QED BY <1>1, <1>2, <1>3, <1>4, <1>5 DEF Resolve

LEMMA RequestStepType ==
  ASSUME TypeOK, NEW s \in Slots, RequestStep(s)
  PROVE  TypeOK'
<1> DEFINE a == req[s].account
<1>1. CASE \E t \in Threads \union {None} : Resolve(s, t)
  BY <1>1, ResolveType
<1>2. CASE RefreshSaved(s)
  <2>1. a \in Pool
    BY <1>2, ServedAccount DEF RefreshSaved
  <2>2. refreshedRecord(a) \in Record /\ record[a].generation + 1 \in Nat
    BY <2>1 DEF refreshedRecord, TypeOK, Record
  <2>3. record' \in [Pool -> Record]
    BY <1>2, <2>1, <2>2 DEF RefreshSaved, TypeOK
  <2>4. req' \in [Slots -> Request]
    BY <1>2, <2>1, <2>2, RequestSteps DEF RefreshSaved, Accounts
  <2> QED BY <1>2, <2>3, <2>4 DEF RefreshSaved, TypeOK, config, memory, bounds
<1>3. CASE RefreshReused(s)
  <2>1. a \in Pool
    BY <1>3, ServedAccount DEF RefreshReused
  <2>2. record[a].generation \in Nat
    BY <2>1 DEF TypeOK, Record
  <2>3. req' \in [Slots -> Request]
    BY <1>3, <2>1, <2>2, RequestSteps DEF RefreshReused, Accounts
  <2> QED BY <1>3, <2>3 DEF RefreshReused, TypeOK, disk, memory, bounds
<1>4. CASE RefreshConflict(s)
  <2>1. req' \in [Slots -> Request]
    BY <1>4, RequestSteps DEF RefreshConflict, Resting
  <2> QED BY <1>4, <2>1 DEF RefreshConflict, TypeOK, disk, memory, bounds
<1>5. CASE RefreshFailed(s)
  <2>1. req' \in [Slots -> Request] /\ reauth' \subseteq Accounts
    BY <1>5, RequestSteps, ServedAccount DEF RefreshFailed, Resting, TypeOK, Accounts
  <2> QED BY <1>5, <2>1 DEF RefreshFailed, TypeOK, disk, bounds
<1>6. CASE Admit(s)
  <2>1. req' \in [Slots -> Request]
    BY <1>6, RequestSteps, ServedAccount DEF Admit, Resting
  <2> QED BY <1>6, <2>1 DEF Admit, TypeOK, disk, memory, bounds
<1>7. CASE \/ OutcomeSuccess(s) \/ OutcomeIgnored(s) \/ OutcomeCredential(s)
           \/ OutcomeQuota(s) \/ OutcomeTransient(s)
  <2>1. a \in Accounts
    BY <1>7, ServedAccount DEF OutcomeSuccess, OutcomeIgnored, OutcomeCredential,
       OutcomeQuota, OutcomeTransient, isSent
  <2>2. req' \in [Slots -> Request]
    BY <1>7, RequestSteps DEF OutcomeSuccess, OutcomeIgnored, OutcomeCredential,
       OutcomeQuota, OutcomeTransient, Resting
  <2>3. unexpiredCooldown(a) \in Nat /\ nextStreak(a) \in Nat
    BY <2>1 DEF unexpiredCooldown, nextStreak, TypeOK, Health
  <2>4. \A x \in pickLowestUsageCodexAccount(a) : x \in Accounts
    BY PicksAreEligible, EligibleAreConfigured
  <2>5. forgetAccount(affinity, a) \in AffinityMap
    BY ForgetAccount DEF TypeOK, AffinityMap
  <2>6. CASE OutcomeSuccess(s)
    BY <2>2, <2>3, <2>6 DEF OutcomeSuccess, TypeOK, Health, disk, bounds
  <2>7. CASE OutcomeIgnored(s)
    BY <2>2, <2>7 DEF OutcomeIgnored, TypeOK, disk, memory, bounds
  <2>8. CASE OutcomeCredential(s)
    BY <2>1, <2>2, <2>5, <2>8
       DEF OutcomeCredential, setHealth, TypeOK, Health, AffinityMap, disk, bounds
  <2>9. CASE OutcomeQuota(s)
    <3>1. health' \in [Accounts -> Health]
      <4>1. PICK d \in Cooldowns : setHealth(a, 0, now + d)
        BY <2>9 DEF OutcomeQuota
      <4>2. now + d \in Nat
        BY NumbersAssumption DEF TypeOK
      <4> QED BY <4>1, <4>2 DEF setHealth, TypeOK, Health
    <3> QED BY <2>2, <2>4, <2>5, <2>9, <3>1
            DEF OutcomeQuota, TypeOK, AffinityMap, bounds
  <2>10. CASE OutcomeTransient(s)
    BY <2>2, <2>3, <2>4, <2>10
       DEF OutcomeTransient, setHealth, TypeOK, Health, bounds
  <2> QED BY <1>7, <2>6, <2>7, <2>8, <2>9, <2>10
<1> QED BY <1>1, <1>2, <1>3, <1>4, <1>5, <1>6, <1>7 DEF RequestStep

LEMMA EventType ==
  ASSUME TypeOK,
         \/ \E a \in Pool : AccountEvent(a)
         \/ \E a \in Accounts \union {None} : SelectActive(a)
         \/ \E a \in Accounts, u \in 0..MaxUsage : UpdateQuota(a, u)
         \/ ChangeAccountMode \/ MainTokenChanges \/ Tick \/ Restart
  PROVE  TypeOK'
<1> USE DEF event
<1>1. startProcess => /\ reauth' \subseteq Accounts
                      /\ health' \in [Accounts -> Health]
                      /\ usage' \in [Accounts -> 0..MaxUsage]
                      /\ affinity' \in [Threads -> Affinity \union {None}]
                      /\ req' \in [Slots -> Request]
  BY NumbersAssumption
     DEF startProcess, NoHealth, Health, Idle, Answered, Request, Resting
<1>2. ASSUME NEW a \in Pool, AccountEvent(a)
      PROVE  TypeOK'
  <2>1. loggedInRecord(a) \in Record /\ tombstone(a) \in Record
    BY DEF loggedInRecord, tombstone, TypeOK, Record
  <2>2. CASE Login(a)
    BY <2>1, <2>2 DEF Login, TypeOK
  <2>3. CASE DeleteAccount(a)
    <3>1. forgetAccount(affinity, a) \in AffinityMap
      BY ForgetAccount DEF TypeOK, AffinityMap
    <3>2. NoHealth \in Health /\ MaxUsage \in 0..MaxUsage
      BY NumbersAssumption DEF NoHealth, Health
    <3>3. health' \in [Accounts -> Health] /\ usage' \in [Accounts -> 0..MaxUsage]
      BY <2>3, <3>2 DEF DeleteAccount, TypeOK
    <3> QED BY <2>1, <2>3, <3>1, <3>3 DEF DeleteAccount, TypeOK, AffinityMap
  <2>4. CASE TokenExpires(a)
    BY <2>4 DEF TokenExpires, TypeOK, Record, config, memory
  <2>5. CASE CrashInLogin(a)
    BY <1>1, <2>1, <2>5 DEF CrashInLogin, TypeOK, config
  <2>6. CASE CrashInDelete(a)
    BY <1>1, <2>1, <2>6 DEF CrashInDelete, TypeOK, config
  <2> QED BY <1>2, <2>2, <2>3, <2>4, <2>5, <2>6 DEF AccountEvent
<1>3. ASSUME NEW a \in Accounts \union {None}, SelectActive(a)
      PROVE  TypeOK'
  BY <1>3 DEF SelectActive, TypeOK, memory
<1>4. ASSUME NEW a \in Accounts, NEW u \in 0..MaxUsage, UpdateQuota(a, u)
      PROVE  TypeOK'
  BY <1>4 DEF UpdateQuota, TypeOK, disk
<1>5. CASE ChangeAccountMode
  BY <1>5 DEF ChangeAccountMode, TypeOK, disk
<1>6. CASE MainTokenChanges
  BY <1>6 DEF MainTokenChanges, TypeOK, disk, memory
<1>7. CASE Tick
  BY <1>7 DEF Tick, TypeOK, disk, memory
<1>8. CASE Restart
  BY <1>1, <1>8 DEF Restart, TypeOK, disk
<1> QED BY <1>2, <1>3, <1>4, <1>5, <1>6, <1>7, <1>8

\* Every variable keeps its type, whatever requests and operators do.
THEOREM TypeCorrect == Spec => []TypeOK
<1>1. Init => TypeOK
  BY TypeInit
<1>2. TypeOK /\ [Next]_vars => TypeOK'
  <2>1. TypeOK /\ Next => TypeOK'
    BY RequestStepType, EventType DEF Next
  <2>2. TypeOK /\ UNCHANGED vars => TypeOK'
    BY DEF TypeOK, vars
  <2> QED BY <2>1, <2>2
<1> QED BY <1>1, <1>2, PTL DEF Spec

-----------------------------------------------------------------------------
(* Bindings and the active account *)

\* The inductive invariant: types, and the three facts about the pool that
\* only hold together.  That a binding's account is configured, and not
\* cooling down, rests on how routing picks it; that the active account is
\* configured is what a deletion must restore.
PoolInv ==
  /\ TypeOK
  /\ NoBindingToCooledAccount
  /\ BindingsAreOwned
  /\ ActiveIsConfigured

\* How one step may change the bindings: an entry is dropped, kept, kept
\* with new clocks, or made for an account that can serve.
BindingsStep ==
  \A t \in Threads :
    \/ affinity'[t] = None
    \/ affinity'[t] = affinity[t]
    \/ /\ affinity[t] # None
       /\ affinity'[t].account = affinity[t].account
       /\ affinity'[t].generation = affinity[t].generation
    \/ \E a \in getEligiblePoolAccounts : affinity'[t] = bindingFor(a)

LEMMA ResolveBindings ==
  ASSUME TypeOK, NEW s \in Slots, NEW t \in Threads \union {None}, Resolve(s, t)
  PROVE  /\ BindingsStep
         /\ active' = active \/ active' \in getEligiblePoolAccounts
         /\ UNCHANGED <<now, accounts, record, health>>
<1> USE DEF AffinityMap
<1>1. CASE ResolveExpired(s, t)
  BY <1>1 DEF ResolveExpired, BindingsStep, TypeOK, disk
<1>2. CASE ResolveBound(s, t)
  <2>1. t \in Threads /\ affinity[t] # None
    BY <1>2 DEF ResolveBound, isReusable, isBound
  <2>2. affinity' = [affinity EXCEPT ![t] = touched(t)]
    BY <1>2 DEF ResolveBound
  <2>3. BindingsStep
    BY <2>1, <2>2 DEF BindingsStep, touched, TypeOK
  <2> QED BY <1>2, <2>3 DEF ResolveBound, disk
<1>3. CASE ResolveRebalanced(s, t)
  <2>1. t \in Threads
    BY <1>3, BoundAccount DEF ResolveRebalanced, isReusable
  <2>2. PICK a \in coolerAccounts(t) :
          active' = a /\ affinity' \in bindThreadAffinity(affinity, t, a)
    BY <1>3 DEF ResolveRebalanced
  <2>3. a \in getEligiblePoolAccounts
    BY PicksAreEligible DEF coolerAccounts
  <2>4. BindingsStep
    BY <2>1, <2>2, <2>3, BindThread, EligibleAreConfigured DEF BindingsStep, TypeOK
  <2> QED BY <1>3, <2>2, <2>3, <2>4 DEF ResolveRebalanced
<1>4. CASE ResolveNew(s, t)
  <2>1. PICK a \in routedAccounts :
          /\ active' = a
          /\ affinity' \in IF t = None THEN {affinity}
                           ELSE bindThreadAffinity(unbound(t), t, a)
    BY <1>4 DEF ResolveNew
  <2>2. a \in getEligiblePoolAccounts
    BY RoutedIsSelectable
  <2>3. /\ unbound(t) \in AffinityMap
        /\ \A u \in Threads : unbound(t)[u] = None \/ unbound(t)[u] = affinity[u]
    BY DEF unbound, TypeOK
  <2>4. BindingsStep
    <3>1. CASE t = None
      BY <2>1, <3>1 DEF BindingsStep
    <3>2. CASE t # None
      BY <2>1, <2>2, <2>3, <3>2, BindThread, EligibleAreConfigured DEF BindingsStep
    <3> QED BY <3>1, <3>2
  <2> QED BY <1>4, <2>1, <2>2, <2>4 DEF ResolveNew
<1>5. CASE ResolveStuck(s, t)
  BY <1>5 DEF ResolveStuck, unbound, BindingsStep, TypeOK, disk
<1> QED BY <1>1, <1>2, <1>3, <1>4, <1>5 DEF Resolve

LEMMA ResolveKeepsPool ==
  ASSUME PoolInv, TypeOK',
         BindingsStep,
         active' = active \/ active' \in getEligiblePoolAccounts,
         UNCHANGED <<now, accounts, record, health>>
  PROVE  PoolInv'
<1>1. ASSUME NEW a \in getEligiblePoolAccounts
      PROVE  /\ bindingFor(a).account = a
             /\ bindingFor(a).generation = IF a = Main THEN 0 ELSE record[a].generation
             /\ a = Main \/ (a \in accounts /\ a # Main)
             /\ ~isCodexAccountInCooldown(a)
  BY EligibleAreConfigured, IdsAssumption DEF bindingFor, TypeOK, PoolInv
<1>2. \A a : isCodexAccountInCooldown(a)' <=> isCodexAccountInCooldown(a)
  BY DEF isCodexAccountInCooldown
<1>3. ASSUME NEW t \in Threads, affinity'[t] # None
      PROVE  \/ /\ affinity[t] # None
                /\ affinity'[t].account = affinity[t].account
                /\ affinity'[t].generation = affinity[t].generation
             \/ \E a \in getEligiblePoolAccounts : affinity'[t] = bindingFor(a)
  BY <1>3 DEF BindingsStep
<1>4. NoBindingToCooledAccount'
  BY <1>1, <1>2, <1>3 DEF NoBindingToCooledAccount, isBound, PoolInv
<1>5. BindingsAreOwned'
  <2> SUFFICES ASSUME NEW t \in Threads, affinity'[t] # None
               PROVE  IF affinity'[t].account = Main
                        THEN affinity'[t].generation = 0
                        ELSE /\ affinity'[t].account \in accounts
                             /\ affinity'[t].generation
                                  <= record[affinity'[t].account].generation
    BY DEF BindingsAreOwned, isBound
  <2>1. CASE /\ affinity[t] # None
             /\ affinity'[t].account = affinity[t].account
             /\ affinity'[t].generation = affinity[t].generation
    BY <2>1 DEF PoolInv, BindingsAreOwned, isBound
  <2>2. CASE \E a \in getEligiblePoolAccounts : affinity'[t] = bindingFor(a)
    <3>1. PICK a \in getEligiblePoolAccounts : affinity'[t] = bindingFor(a)
      BY <2>2
    <3>2. a # Main => record[a].generation \in Nat
      BY <1>1 DEF PoolInv, TypeOK, Record
    <3> QED BY <1>1, <3>1, <3>2
  <2> QED BY <1>3, <2>1, <2>2
<1>6. ActiveIsConfigured'
  BY <1>1 DEF PoolInv, ActiveIsConfigured
<1> QED BY <1>4, <1>5, <1>6 DEF PoolInv

\* A step that at most drops bindings, and cools down no account, removes no
\* account and lowers no generation that a remaining binding names.
LEMMA QuietStepKeepsPool ==
  ASSUME PoolInv, TypeOK',
         \A t \in Threads : affinity'[t] = None \/ affinity'[t] = affinity[t],
         active' \in accounts' \union {Main, None},
         \A t \in Threads : affinity'[t] # None =>
           LET a == affinity[t].account IN
             /\ isCodexAccountInCooldown(a)' => isCodexAccountInCooldown(a)
             /\ a \in accounts => a \in accounts'
             /\ a \in Pool => record[a].generation <= record'[a].generation
  PROVE  PoolInv'
<1>1. NoBindingToCooledAccount'
  BY DEF NoBindingToCooledAccount, isBound, PoolInv
<1>2. BindingsAreOwned'
  <2> SUFFICES ASSUME NEW t \in Threads, affinity'[t] # None
               PROVE  IF affinity'[t].account = Main
                        THEN affinity'[t].generation = 0
                        ELSE /\ affinity'[t].account \in accounts'
                             /\ affinity'[t].generation
                                  <= record'[affinity'[t].account].generation
    BY DEF BindingsAreOwned, isBound
  <2>1. affinity'[t] = affinity[t] /\ affinity[t] \in Affinity
    BY DEF PoolInv, TypeOK
  <2>2. CASE affinity[t].account = Main
    BY <2>1, <2>2 DEF PoolInv, BindingsAreOwned, isBound
  <2>3. CASE affinity[t].account # Main
    <3> DEFINE a == affinity[t].account
    <3>1. a \in Pool /\ affinity[t].generation \in Nat
      BY <2>1, <2>3 DEF Affinity, Accounts
    <3>2. record[a].generation \in Nat /\ record'[a].generation \in Nat
      BY <3>1 DEF PoolInv, TypeOK, Record
    <3>3. a \in accounts /\ affinity[t].generation <= record[a].generation
      BY <2>1, <2>3 DEF PoolInv, BindingsAreOwned, isBound
    <3> QED BY <2>1, <2>3, <3>1, <3>2, <3>3
  <2> QED BY <2>2, <2>3
<1>3. ActiveIsConfigured'
  BY DEF ActiveIsConfigured
<1> QED BY <1>1, <1>2, <1>3 DEF PoolInv

LEMMA CooldownOf ==
  ASSUME TypeOK, NEW a \in Accounts, NEW b \in Accounts, NEW fails, NEW at, NEW until,
         health' = [health EXCEPT ![a] =
           [fails |-> fails, failedAt |-> at, cooldownUntil |-> until]],
         UNCHANGED now
  PROVE  /\ b # a => (isCodexAccountInCooldown(b)' <=> isCodexAccountInCooldown(b))
         /\ until = unexpiredCooldown(a) \/ until = 0 =>
              (isCodexAccountInCooldown(b)' => isCodexAccountInCooldown(b))
<1>1. health'[b] = IF b = a
        THEN [fails |-> fails, failedAt |-> at, cooldownUntil |-> until]
        ELSE health[b]
  BY DEF TypeOK
<1>2. now \in Nat
  BY DEF TypeOK
<1> QED BY <1>1, <1>2 DEF isCodexAccountInCooldown, unexpiredCooldown

\* A refresh touches no binding, and lets one generation grow.
LEMMA RefreshKeepsPool ==
  ASSUME PoolInv, TypeOK', NEW s \in Slots,
         \/ RefreshSaved(s) \/ RefreshReused(s) \/ RefreshConflict(s)
         \/ RefreshFailed(s) \/ Admit(s)
  PROVE  PoolInv'
<1>1. UNCHANGED <<now, accounts, active, health, affinity>>
  BY DEF RefreshSaved, RefreshReused, RefreshConflict, RefreshFailed, Admit,
         config, disk, memory
<1>2. \A a \in Pool : record[a].generation <= record'[a].generation
  <2>1. \A a \in Pool : record[a].generation \in Nat
    BY DEF PoolInv, TypeOK, Record
  <2>2. \/ UNCHANGED record
        \/ record' = [record EXCEPT ![req[s].account] = refreshedRecord(req[s].account)]
    BY DEF RefreshSaved, RefreshReused, RefreshConflict, RefreshFailed, Admit, disk
  <2> QED BY <2>1, <2>2 DEF refreshedRecord, PoolInv, TypeOK
<1>3. \A a : isCodexAccountInCooldown(a)' <=> isCodexAccountInCooldown(a)
  BY <1>1 DEF isCodexAccountInCooldown
<1>4. active' \in accounts' \union {Main, None}
  BY <1>1 DEF PoolInv, ActiveIsConfigured
<1> QED BY <1>1, <1>2, <1>3, <1>4, QuietStepKeepsPool

\* An outcome cools down no account that keeps a binding, and moves the
\* active account to one that can serve.
LEMMA OutcomeKeepsPool ==
  ASSUME PoolInv, TypeOK', NEW s \in Slots,
         \/ OutcomeSuccess(s) \/ OutcomeIgnored(s) \/ OutcomeCredential(s)
         \/ OutcomeQuota(s) \/ OutcomeTransient(s)
  PROVE  PoolInv'
<1> DEFINE a == req[s].account
<1>1. /\ TypeOK
      /\ affinity \in AffinityMap
      /\ \A t \in Threads : affinity[t] # None => affinity[t].account \in Accounts
  BY DEF PoolInv, TypeOK, AffinityMap, Affinity
<1>2. a \in Accounts
  BY <1>1, ServedAccount DEF OutcomeSuccess, OutcomeIgnored, OutcomeCredential,
     OutcomeQuota, OutcomeTransient, isSent
<1>3. UNCHANGED <<now, accounts, record>>
  BY DEF OutcomeSuccess, OutcomeIgnored, OutcomeCredential, OutcomeQuota,
     OutcomeTransient, disk
<1>4. \A x \in Pool : record[x].generation <= record'[x].generation
  BY <1>1, <1>3 DEF TypeOK, Record
<1>5. active' = active \/ active' \in pickLowestUsageCodexAccount(a)
  BY DEF OutcomeSuccess, OutcomeIgnored, OutcomeCredential, OutcomeQuota,
     OutcomeTransient, disk
<1>6. active' \in accounts' \union {Main, None}
  BY <1>3, <1>5, PicksAreEligible, EligibleAreConfigured DEF PoolInv, ActiveIsConfigured
<1>7. CASE OutcomeSuccess(s) \/ OutcomeTransient(s)
  <2>1. UNCHANGED affinity
    BY <1>7 DEF OutcomeSuccess, OutcomeTransient
  <2>2. \A b \in Accounts : isCodexAccountInCooldown(b)' => isCodexAccountInCooldown(b)
    BY <1>1, <1>2, <1>3, <1>7, CooldownOf
       DEF OutcomeSuccess, OutcomeTransient, setHealth
  <2> QED BY <1>1, <1>3, <1>4, <1>6, <2>1, <2>2, QuietStepKeepsPool
<1>8. CASE OutcomeIgnored(s)
  <2>1. UNCHANGED <<affinity, health>>
    BY <1>8 DEF OutcomeIgnored, memory
  <2> QED BY <1>3, <1>4, <1>6, <2>1, QuietStepKeepsPool DEF isCodexAccountInCooldown
<1>9. CASE OutcomeCredential(s) \/ OutcomeQuota(s)
  <2>1. affinity' = forgetAccount(affinity, a)
    BY <1>9 DEF OutcomeCredential, OutcomeQuota
  <2>2. \A t \in Threads :
          \/ affinity'[t] = None
          \/ affinity'[t] = affinity[t] /\ affinity[t].account # a
    BY <1>1, <2>1, ForgetAccount
  <2>3. \A b \in Accounts \ {a} :
          isCodexAccountInCooldown(b)' <=> isCodexAccountInCooldown(b)
    BY <1>1, <1>2, <1>3, <1>9, CooldownOf
       DEF OutcomeCredential, OutcomeQuota, setHealth
  <2> QED BY <1>1, <1>3, <1>4, <1>6, <2>2, <2>3, QuietStepKeepsPool
<1> QED BY <1>7, <1>8, <1>9

\* A deletion forgets the bindings of its account; a crash forgets them all.
LEMMA EventKeepsPool ==
  ASSUME PoolInv, TypeOK',
         \/ \E a \in Pool : AccountEvent(a)
         \/ \E a \in Accounts \union {None} : SelectActive(a)
         \/ \E a \in Accounts, u \in 0..MaxUsage : UpdateQuota(a, u)
         \/ ChangeAccountMode \/ MainTokenChanges \/ Tick \/ Restart
  PROVE  PoolInv'
<1>1. /\ TypeOK
      /\ now \in Nat
      /\ affinity \in AffinityMap
      /\ \A x \in Pool : record[x].generation \in Nat
      /\ \A t \in Threads : affinity[t] # None => affinity[t].account \in Accounts
      /\ \A x \in Accounts : health[x].cooldownUntil \in Nat
  BY DEF PoolInv, TypeOK, AffinityMap, Affinity, Record, Health
<1>2. active \in accounts \union {Main, None}
  BY DEF PoolInv, ActiveIsConfigured
<1>3. startProcess => \A t \in Threads : affinity'[t] = None
  BY DEF startProcess
<1>4. ASSUME NEW a \in Pool, AccountEvent(a)
      PROVE  PoolInv'
  <2>1. \A x \in Pool : /\ loggedInRecord(x).generation = record[x].generation + 1
                        /\ tombstone(x).generation = record[x].generation + 1
    BY DEF loggedInRecord, tombstone
  <2>2. CASE Login(a)
    <3>1. \A x \in Pool : record[x].generation <= record'[x].generation
      BY <1>1, <2>1, <2>2 DEF Login, TypeOK
    <3> QED BY <1>2, <2>2, <3>1, QuietStepKeepsPool DEF Login, isCodexAccountInCooldown
  <2>3. CASE DeleteAccount(a)
    <3>1. \A x \in Pool : record[x].generation <= record'[x].generation
      BY <1>1, <2>1, <2>3 DEF DeleteAccount, TypeOK
    <3>2. \A t \in Threads :
            \/ affinity'[t] = None
            \/ affinity'[t] = affinity[t] /\ affinity[t].account # a
      BY <1>1, <2>3, ForgetAccount DEF DeleteAccount
    <3>3. \A x \in Accounts \ {a} :
            isCodexAccountInCooldown(x)' <=> isCodexAccountInCooldown(x)
      BY <1>1, <2>3 DEF DeleteAccount, isCodexAccountInCooldown, TypeOK
    <3>4. active' \in accounts' \union {Main, None}
      BY <1>2, <2>3, IdsAssumption DEF DeleteAccount
    <3>5. accounts' = accounts \ {a}
      BY <2>3 DEF DeleteAccount
    <3> QED BY <1>1, <3>1, <3>2, <3>3, <3>4, <3>5, QuietStepKeepsPool
  <2>4. CASE TokenExpires(a)
    <3>1. \A x \in Pool : record[x].generation <= record'[x].generation
      BY <1>1, <2>4 DEF TokenExpires, TypeOK
    <3> QED BY <1>2, <2>4, <3>1, QuietStepKeepsPool
            DEF TokenExpires, config, memory, isCodexAccountInCooldown
  <2>5. CASE CrashInLogin(a) \/ CrashInDelete(a)
    BY <1>2, <1>3, <2>5, QuietStepKeepsPool DEF CrashInLogin, CrashInDelete, config
  <2> QED BY <1>4, <2>2, <2>3, <2>4, <2>5 DEF AccountEvent
<1>5. ASSUME NEW a \in Accounts \union {None}, SelectActive(a)
      PROVE  PoolInv'
  BY <1>1, <1>5, QuietStepKeepsPool DEF SelectActive, memory, isCodexAccountInCooldown
<1>6. ASSUME NEW a \in Accounts, NEW u \in 0..MaxUsage, UpdateQuota(a, u)
      PROVE  PoolInv'
  BY <1>1, <1>2, <1>6, QuietStepKeepsPool DEF UpdateQuota, disk, isCodexAccountInCooldown
<1>7. CASE ChangeAccountMode
  BY <1>2, <1>7, QuietStepKeepsPool DEF ChangeAccountMode, disk
<1>8. CASE MainTokenChanges
  BY <1>1, <1>2, <1>8, QuietStepKeepsPool
     DEF MainTokenChanges, disk, memory, isCodexAccountInCooldown
<1>9. CASE Tick
  <2>1. UNCHANGED <<health, affinity, accounts, active, record>> /\ now' = now + 1
    BY <1>9 DEF Tick, disk, memory
  <2>2. \A x \in Accounts : isCodexAccountInCooldown(x)' => isCodexAccountInCooldown(x)
    BY <1>1, <2>1 DEF isCodexAccountInCooldown
  <2> QED BY <1>1, <1>2, <2>1, <2>2, QuietStepKeepsPool
<1>10. CASE Restart
  BY <1>2, <1>3, <1>10, QuietStepKeepsPool DEF Restart, disk
<1> QED BY <1>4, <1>5, <1>6, <1>7, <1>8, <1>9, <1>10

\* The invariant of the pool holds in every reachable state.
THEOREM PoolInvariant == Spec => []PoolInv
<1>1. Init => PoolInv
  <2> SUFFICES ASSUME Init PROVE PoolInv
    OBVIOUS
  <2>1. \A t \in Threads : ~isBound(t)
    BY DEF Init, isBound
  <2> QED BY <2>1, TypeInit DEF PoolInv, NoBindingToCooledAccount, BindingsAreOwned,
             ActiveIsConfigured, Init
<1>2. PoolInv /\ [Next]_vars => PoolInv'
  <2> SUFFICES ASSUME PoolInv, [Next]_vars PROVE PoolInv'
    OBVIOUS
  <2>1. TypeOK
    BY DEF PoolInv
  <2>2. TypeOK'
    BY <2>1, RequestStepType, EventType DEF Next, TypeOK, vars
  <2>3. ASSUME NEW s \in Slots, RequestStep(s)
        PROVE  PoolInv'
    <3>1. ASSUME NEW t \in Threads \union {None}, Resolve(s, t)
          PROVE  PoolInv'
      BY <2>1, <2>2, <3>1, ResolveBindings, ResolveKeepsPool
    <3> QED BY <2>2, <2>3, <3>1, RefreshKeepsPool, OutcomeKeepsPool DEF RequestStep
  <2>4. CASE UNCHANGED vars
    BY <2>4 DEF vars, PoolInv, TypeOK, NoBindingToCooledAccount, isBound,
       isCodexAccountInCooldown, BindingsAreOwned, ActiveIsConfigured
  <2> QED BY <2>2, <2>3, <2>4, EventKeepsPool DEF Next
<1> QED BY <1>1, <1>2, PTL DEF Spec

\* No thread is ever bound to an account that is cooling down.
THEOREM NoCooledBinding == Spec => []NoBindingToCooledAccount
<1>1. PoolInv => NoBindingToCooledAccount
  BY DEF PoolInv
<1> QED BY <1>1, PoolInvariant, PTL

\* A binding never outlives its account or the login it was made for.
THEOREM OwnedBindings == Spec => []BindingsAreOwned
<1>1. PoolInv => BindingsAreOwned
  BY DEF PoolInv
<1> QED BY <1>1, PoolInvariant, PTL

\* The active account is always one that is configured.
THEOREM ConfiguredActive == Spec => []ActiveIsConfigured
<1>1. PoolInv => ActiveIsConfigured
  BY DEF PoolInv
<1> QED BY <1>1, PoolInvariant, PTL

-----------------------------------------------------------------------------
(* A request is served whenever some account can serve *)

\* A least used account exists in every nonempty set, finite or not.
LEMMA LowestUsageExists ==
  ASSUME TypeOK, NEW S \in SUBSET Accounts, S # {}
  PROVE  LowestUsage(S) # {}
<1> DEFINE less == OpToRel(<, Nat)
           scores == {usage[a] : a \in S}
<1>1. \A a \in S : usage[a] \in Nat
  BY NumbersAssumption DEF TypeOK
<1>2. scores \subseteq Nat /\ scores # {}
  BY <1>1
<1>3. IsWellFoundedOn(less, Nat)
  BY NatLessThanWellFounded
<1>4. \A x, y \in Nat : <<y, x>> \in less <=> y < x
  BY DEF OpToRel
<1> HIDE DEF less, scores
<1>5. PICK x \in scores : \A y \in scores : ~(<<y, x>> \in less)
  BY <1>2, <1>3, WFMin
<1>6. PICK a \in S : usage[a] = x
  BY <1>5 DEF scores
<1>7. ASSUME NEW b \in S
      PROVE  usage[a] <= usage[b]
  <2>1. usage[b] \in scores
    BY DEF scores
  <2>2. usage[a] \in Nat /\ usage[b] \in Nat
    BY <1>1
  <2>3. ~(usage[b] < usage[a])
    BY <1>4, <1>5, <1>6, <2>1, <2>2
  <2> QED BY <2>2, <2>3
<1> QED BY <1>6, <1>7 DEF LowestUsage

\* Routing finds an account as soon as one can serve: no chain of quota
\* switches and failovers loses the last one.
THEOREM RoutingFindsAnAccount ==
  ASSUME TypeOK, getEligiblePoolAccounts # {}
  PROVE  routedAccounts # {}
<1> DEFINE E == getEligiblePoolAccounts
<1>1. E \subseteq Accounts /\ None \notin E
  BY IdsAssumption DEF getEligiblePoolAccounts
<1>2. \E a \in Accounts : selectableOrFallback(a) # {} /\ a \in startingAccounts
  <2>1. CASE active = None
    <3>1. pickLowestUsageCodexAccount(None) # {}
      BY <1>1, LowestUsageExists DEF pickLowestUsageCodexAccount
    <3>2. pickLowestUsageCodexAccount(None) \subseteq E
      BY PicksAreEligible
    <3> QED BY <1>1, <2>1, <3>1, <3>2
            DEF startingAccounts, selectableOrFallback, getEligiblePoolAccounts
  <2>2. CASE active # None
    <3>1. active \in Accounts /\ active \in startingAccounts
      BY <2>2 DEF TypeOK, startingAccounts
    <3>2. CASE isCodexAccountSelectable(active)
      BY <3>1, <3>2 DEF selectableOrFallback
    <3>3. CASE ~isCodexAccountSelectable(active)
      <4>1. E \ {active} # {}
        BY <3>3 DEF getEligiblePoolAccounts
      <4>2. pickLowestUsageCodexAccount(active) # {}
        BY <1>1, <4>1, LowestUsageExists DEF pickLowestUsageCodexAccount
      <4> QED BY <3>1, <3>3, <4>2 DEF selectableOrFallback
    <3> QED BY <3>2, <3>3
  <2> QED BY <2>1, <2>2
<1>3. PICK a \in startingAccounts : selectableOrFallback(a) # {}
  BY <1>2
<1>4. PICK b : b \in selectableOrFallback(a)
  BY <1>3
<1>5. PICK c : c \in applyQuotaAutoSwitch(b)
  BY DEF applyQuotaAutoSwitch
<1>6. PICK d : d \in applyFailureFailover(c)
  BY DEF applyFailureFailover
<1> QED BY <1>3, <1>4, <1>5, <1>6 DEF routedAccounts

\* One request begins: it gets an account that can serve, or its idle
\* binding's 409.
LEMMA ResolveServes ==
  ASSUME TypeOK, NEW s \in Slots, NEW t \in Threads \union {None}, Resolve(s, t),
         getEligiblePoolAccounts # {}
  PROVE  /\ \A r \in Slots : r # s => req'[r] = req[r]
         /\ req'[s].pc = "expired" \/ req'[s].account \in getEligiblePoolAccounts
<1>1. ASSUME NEW a, beginRequest(s, a)
      PROVE  /\ \A r \in Slots : r # s => req'[r] = req[r]
             /\ req'[s].account = a
  BY <1>1 DEF beginRequest, authContextFor, TypeOK
<1>2. CASE ResolveExpired(s, t)
  BY <1>2 DEF ResolveExpired, rejectRequest, Answered, TypeOK
<1>3. CASE ResolveBound(s, t)
  <2>1. affinity[t].account \in getEligiblePoolAccounts
    BY <1>3, BoundAccount DEF ResolveBound, isReusable, getEligiblePoolAccounts
  <2> QED BY <1>1, <1>3, <2>1 DEF ResolveBound
<1>4. CASE ResolveRebalanced(s, t)
  <2>1. coolerAccounts(t) \subseteq getEligiblePoolAccounts
    BY PicksAreEligible DEF coolerAccounts
  <2> QED BY <1>1, <1>4, <2>1 DEF ResolveRebalanced
<1>5. CASE ResolveNew(s, t)
  BY <1>1, <1>5, RoutedIsSelectable DEF ResolveNew
<1>6. CASE ResolveStuck(s, t)
  BY <1>6, RoutingFindsAnAccount DEF ResolveStuck
<1> QED BY <1>2, <1>3, <1>4, <1>5, <1>6 DEF Resolve

\* A request that starts is never told that the pool is empty, and never
\* sent to an account that cannot serve, while another account can.
THEOREM ServesFromPool == Spec => ResolveServesFromPool
<1> DEFINE Served ==
      \A s \in Slots :
        (/\ req[s].pc \in Resting
         /\ req'[s].pc \notin {"idle", "expired"}
         /\ req'[s] # req[s]
         /\ getEligiblePoolAccounts # {})
        => req'[s].account \in getEligiblePoolAccounts
<1>1. TypeOK /\ [Next]_vars => Served
  <2> SUFFICES ASSUME TypeOK, [Next]_vars PROVE Served
    OBVIOUS
  <2>1. ASSUME NEW s \in Slots, NEW t \in Threads \union {None}, Resolve(s, t)
        PROVE  Served
    BY <2>1, ResolveServes
  <2>2. ASSUME NEW s \in Slots, RequestStep(s),
               ~ \E t \in Threads \union {None} : Resolve(s, t)
        PROVE  Served
    <3>1. /\ req[s].pc \notin Resting
          /\ \E r : req' = [req EXCEPT ![s] = r]
      BY <2>2 DEF RequestStep, RefreshSaved, RefreshReused, RefreshConflict,
         RefreshFailed, Admit, OutcomeSuccess, OutcomeIgnored, OutcomeCredential,
         OutcomeQuota, OutcomeTransient, isRefreshing, isSent, advance, finish,
         Resting
    <3> QED BY <3>1 DEF TypeOK
  <2>3. CASE UNCHANGED req
    BY <2>3
  <2>4. CASE startProcess
    BY <2>4 DEF startProcess, Idle, Answered
  <2>5. ASSUME NEW a \in Pool, AccountEvent(a)
        PROVE  UNCHANGED req \/ startProcess
    BY <2>5 DEF AccountEvent, Login, DeleteAccount, TokenExpires, CrashInLogin,
       CrashInDelete
  <2> QED BY <2>1, <2>2, <2>3, <2>4, <2>5 DEF Next, SelectActive, UpdateQuota,
             ChangeAccountMode, MainTokenChanges, Tick, Restart, vars
<1>2. Spec => [][Served]_vars
  BY <1>1, TypeCorrect, PTL DEF Spec
<1> QED BY <1>2 DEF ResolveServesFromPool

-----------------------------------------------------------------------------
(* The cap of the affinity map *)

IsBounded(aff) ==
  IsFiniteSet(boundThreads(aff)) /\ Cardinality(boundThreads(aff)) <= MaxAffinities

LEMMA FewerAreBounded ==
  ASSUME NEW aff, NEW new, IsBounded(aff), boundThreads(new) \subseteq boundThreads(aff)
  PROVE  IsBounded(new)
<1>1. /\ IsFiniteSet(boundThreads(new))
      /\ Cardinality(boundThreads(new)) <= Cardinality(boundThreads(aff))
  BY FS_Subset DEF IsBounded
<1>2. Cardinality(boundThreads(new)) \in Nat /\ Cardinality(boundThreads(aff)) \in Nat
  BY <1>1, FS_CardinalityType DEF IsBounded
<1> QED BY <1>1, <1>2, NumbersAssumption DEF IsBounded

\* One binding at most is added, and then the oldest of the others is dropped.
LEMMA BindingStaysBounded ==
  ASSUME NEW aff \in AffinityMap, IsBounded(aff), NEW t \in Threads, NEW a,
         NEW new \in bindThreadAffinity(aff, t, a)
  PROVE  IsBounded(new)
<1>1. PICK bound : bound = [pruneExpiredThreadAffinities(aff) EXCEPT ![t] = bindingFor(a)]
  OBVIOUS
<1>2. CASE new = aff
  BY <1>2
<1>3. CASE new # aff
  <2>1. new \in pruneLruThreadAffinities(bound, t)
    BY <1>1, <1>3 DEF bindThreadAffinity
  <2>2. bound = [u \in Threads |-> bound[u]]
    BY <1>1 DEF pruneExpiredThreadAffinities
  <2>3. boundThreads(bound) \subseteq boundThreads(aff) \union {t}
    BY <1>1 DEF boundThreads, pruneExpiredThreadAffinities
  <2>4. /\ IsFiniteSet(boundThreads(aff) \union {t})
        /\ Cardinality(boundThreads(aff) \union {t}) <= Cardinality(boundThreads(aff)) + 1
        /\ Cardinality(boundThreads(aff)) \in Nat
    <3>1. IsFiniteSet(boundThreads(aff)) /\ Cardinality(boundThreads(aff)) \in Nat
      BY FS_CardinalityType DEF IsBounded
    <3>2. /\ IsFiniteSet(boundThreads(aff) \union {t})
          /\ \/ Cardinality(boundThreads(aff) \union {t}) = Cardinality(boundThreads(aff))
             \/ Cardinality(boundThreads(aff) \union {t}) = Cardinality(boundThreads(aff)) + 1
      BY <3>1, FS_AddElement, Zenon
    <3> QED BY <3>1, <3>2
  <2>5. /\ IsFiniteSet(boundThreads(bound))
        /\ Cardinality(boundThreads(bound)) <= Cardinality(boundThreads(aff) \union {t})
    BY <2>3, <2>4, FS_Subset
  <2>6. Cardinality(boundThreads(bound)) \in Nat
        /\ Cardinality(boundThreads(aff) \union {t}) \in Nat
    BY <2>4, <2>5, FS_CardinalityType
  <2>7. Cardinality(boundThreads(bound)) <= MaxAffinities + 1
    BY <2>4, <2>5, <2>6, NumbersAssumption DEF IsBounded
  <2>8. CASE Cardinality(boundThreads(bound)) <= MaxAffinities
    BY <2>1, <2>5, <2>8 DEF pruneLruThreadAffinities, IsBounded
  <2>9. CASE ~(Cardinality(boundThreads(bound)) <= MaxAffinities)
    <3>1. PICK u \in boundThreads(bound) : new = [bound EXCEPT ![u] = None]
      BY <2>1, <2>9 DEF pruneLruThreadAffinities
    <3>2. boundThreads(new) = boundThreads(bound) \ {u}
      BY <2>2, <3>1 DEF boundThreads
    <3>3. /\ IsFiniteSet(boundThreads(new))
          /\ Cardinality(boundThreads(new)) = Cardinality(boundThreads(bound)) - 1
      BY <2>5, <3>1, <3>2, FS_RemoveElement
    <3> QED BY <2>6, <2>7, <3>3, NumbersAssumption DEF IsBounded
  <2> QED BY <2>8, <2>9
<1> QED BY <1>2, <1>3

LEMMA ResolveStaysBounded ==
  ASSUME TypeOK, IsBounded(affinity), NEW s \in Slots, NEW t \in Threads \union {None},
         Resolve(s, t)
  PROVE  IsBounded(affinity')
<1> USE DEF AffinityMap
<1>1. CASE ResolveExpired(s, t)
  <2>1. boundThreads(affinity') \subseteq boundThreads(affinity)
    BY <1>1 DEF ResolveExpired, boundThreads, TypeOK
  <2> QED BY <2>1, FewerAreBounded
<1>2. CASE ResolveBound(s, t)
  <2>1. t \in Threads /\ affinity[t] # None /\ affinity' = [affinity EXCEPT ![t] = touched(t)]
    BY <1>2 DEF ResolveBound, isReusable, isBound
  <2>2. boundThreads(affinity') \subseteq boundThreads(affinity)
    BY <2>1 DEF boundThreads, TypeOK
  <2> QED BY <2>2, FewerAreBounded
<1>3. CASE ResolveRebalanced(s, t)
  <2>1. t \in Threads
    BY <1>3, BoundAccount DEF ResolveRebalanced, isReusable
  <2>2. PICK a \in coolerAccounts(t) : affinity' \in bindThreadAffinity(affinity, t, a)
    BY <1>3 DEF ResolveRebalanced
  <2>3. affinity \in AffinityMap
    BY DEF TypeOK
  <2> QED BY <2>1, <2>2, <2>3, BindingStaysBounded
<1>4. CASE ResolveNew(s, t)
  <2>1. PICK a \in routedAccounts :
          affinity' \in IF t = None THEN {affinity} ELSE bindThreadAffinity(unbound(t), t, a)
    BY <1>4 DEF ResolveNew
  <2>2. unbound(t) \in AffinityMap /\ boundThreads(unbound(t)) \subseteq boundThreads(affinity)
    BY DEF unbound, boundThreads, TypeOK
  <2>3. IsBounded(unbound(t))
    BY <2>2, FewerAreBounded
  <2>4. CASE t = None
    BY <2>1, <2>4
  <2>5. CASE t # None
    BY <2>1, <2>2, <2>3, <2>5, BindingStaysBounded
  <2> QED BY <2>4, <2>5
<1>5. CASE ResolveStuck(s, t)
  <2>1. boundThreads(affinity') \subseteq boundThreads(affinity)
    BY <1>5 DEF ResolveStuck, unbound, boundThreads, TypeOK
  <2> QED BY <2>1, FewerAreBounded
<1> QED BY <1>1, <1>2, <1>3, <1>4, <1>5 DEF Resolve

\* Whatever else happens, bindings are only dropped.
LEMMA OthersOnlyDrop ==
  ASSUME TypeOK, [Next]_vars,
         ~ \E s \in Slots, t \in Threads \union {None} : Resolve(s, t)
  PROVE  boundThreads(affinity') \subseteq boundThreads(affinity)
<1>1. \A a : boundThreads(forgetAccount(affinity, a)) \subseteq boundThreads(affinity)
  BY DEF boundThreads, forgetAccount
<1>2. CASE UNCHANGED affinity
  BY <1>2
<1>3. CASE affinity' = [t \in Threads |-> None]
  BY <1>3 DEF boundThreads
<1>4. CASE \E a : affinity' = forgetAccount(affinity, a)
  BY <1>1, <1>4
<1>5. ASSUME NEW s \in Slots, RequestStep(s)
      PROVE  UNCHANGED affinity \/ \E a : affinity' = forgetAccount(affinity, a)
  BY <1>5 DEF RequestStep, RefreshSaved, RefreshReused, RefreshConflict, RefreshFailed,
     Admit, OutcomeSuccess, OutcomeIgnored, OutcomeCredential, OutcomeQuota,
     OutcomeTransient, memory
<1>6. ASSUME NEW a \in Pool, AccountEvent(a)
      PROVE  \/ UNCHANGED affinity \/ affinity' = [t \in Threads |-> None]
             \/ \E b : affinity' = forgetAccount(affinity, b)
  BY <1>6 DEF AccountEvent, Login, DeleteAccount, TokenExpires, CrashInLogin,
     CrashInDelete, startProcess, memory
<1>7. CASE UNCHANGED vars
  BY <1>7 DEF vars, memory
<1> QED BY <1>2, <1>3, <1>4, <1>5, <1>6, <1>7
        DEF Next, SelectActive, UpdateQuota, ChangeAccountMode, MainTokenChanges, Tick,
            Restart, startProcess, memory

\* However many threads there are, the affinity map never grows past its cap.
THEOREM BoundedBindings == Spec => []BindingsAreBounded
<1>1. Init => IsBounded(affinity)
  <2> SUFFICES ASSUME Init PROVE IsBounded(affinity)
    OBVIOUS
  <2>1. boundThreads(affinity) = {}
    BY DEF Init, boundThreads
  <2> QED BY <2>1, FS_EmptySet, NumbersAssumption DEF IsBounded
<1>2. TypeOK /\ IsBounded(affinity) /\ [Next]_vars => IsBounded(affinity')
  BY ResolveStaysBounded, OthersOnlyDrop, FewerAreBounded
<1>3. IsBounded(affinity) => BindingsAreBounded
  BY DEF IsBounded, BindingsAreBounded
<1>4. Spec => []IsBounded(affinity)
  <2>1. TypeOK /\ IsBounded(affinity) /\ [Next]_vars => IsBounded(affinity)'
    BY <1>2 DEF IsBounded, boundThreads
  <2> QED BY <1>1, <2>1, TypeCorrect, PTL DEF Spec
<1> QED BY <1>3, <1>4, PTL

-----------------------------------------------------------------------------
(* Threads do not flap *)

\* A thread keeps its binding in this step, or is unbound before or after it.
Stays(t) ==
  \/ affinity[t] = None
  \/ affinity'[t] = None
  \/ affinity'[t] = affinity[t]

\* Its binding is served from.
Serves(t) ==
  /\ affinity'[t].account = affinity[t].account
  /\ affinity'[t].generation = affinity[t].generation
  /\ isThreadAffinityGenerationLive(affinity[t])
  /\ isCodexAccountSelectable(affinity[t].account)

\* Its binding is left for another one.
Leaves(t) ==
  /\ \/ affinity'[t].account # affinity[t].account
     \/ affinity'[t].generation # affinity[t].generation
  /\ \/ ~isCodexAccountSelectable(affinity[t].account)
     \/ ~isThreadAffinityGenerationLive(affinity[t])
     \/ /\ isReevalDue(t)
        /\ overThreshold(affinity[t].account)
        /\ usage[affinity'[t].account] < usage[affinity[t].account]

Moves(t) == Stays(t) \/ Serves(t) \/ Leaves(t)

\* Resolving one thread leaves the others where they are, at most dropping
\* their bindings, and moves its own only for a cause.
LEMMA ResolveMovesForCause ==
  ASSUME TypeOK, NEW s \in Slots, NEW t \in Threads \union {None}, Resolve(s, t),
         NEW u \in Threads
  PROVE  Moves(u)
<1>1. CASE ResolveExpired(s, t)
  BY <1>1 DEF ResolveExpired, Moves, Stays, TypeOK
<1>2. CASE ResolveBound(s, t)
  <2>1. /\ t \in Threads
        /\ affinity' = [affinity EXCEPT ![t] = touched(t)]
        /\ isThreadAffinityGenerationLive(affinity[t])
        /\ isCodexAccountSelectable(affinity[t].account)
    BY <1>2 DEF ResolveBound, isReusable, isBound
  <2>2. /\ touched(t).account = affinity[t].account
        /\ touched(t).generation = affinity[t].generation
    BY DEF touched
  <2>3. affinity'[u] = IF u = t THEN touched(t) ELSE affinity[u]
    BY <2>1 DEF TypeOK
  <2> QED BY <2>1, <2>2, <2>3 DEF Moves, Stays, Serves
<1>3. CASE ResolveRebalanced(s, t)
  <2>1. t \in Threads
    BY <1>3, BoundAccount DEF ResolveRebalanced, isReusable
  <2>2. PICK a \in coolerAccounts(t) : affinity' \in bindThreadAffinity(affinity, t, a)
    BY <1>3 DEF ResolveRebalanced
  <2>3. a \in Accounts
    BY PicksAreEligible, EligibleAreConfigured DEF coolerAccounts
  <2>4. \/ affinity'[u] = None
        \/ affinity'[u] = affinity[u]
        \/ u = t /\ affinity'[u] = bindingFor(a)
    BY <2>1, <2>2, <2>3, BindThread DEF TypeOK, AffinityMap
  <2>5. /\ isReevalDue(t)
        /\ overThreshold(affinity[t].account)
        /\ usage[a] < usage[affinity[t].account]
    BY <2>2 DEF coolerAccounts, pickLowerUsageAccount, LowestUsage
  <2>6. bindingFor(a).account = a
    BY DEF bindingFor
  <2>7. a # affinity[t].account
    BY <2>3, <2>5 DEF TypeOK
  <2> QED BY <2>4, <2>5, <2>6, <2>7 DEF Moves, Stays, Leaves
<1>4. CASE ResolveNew(s, t)
  <2>1. PICK a \in routedAccounts :
          affinity' \in IF t = None THEN {affinity}
                        ELSE bindThreadAffinity(unbound(t), t, a)
    BY <1>4 DEF ResolveNew
  <2>2. a \in Accounts
    BY RoutedIsSelectable, EligibleAreConfigured
  <2>3. CASE t = None
    BY <2>1, <2>3 DEF Moves, Stays
  <2>4. CASE t # None
    <3>1. unbound(t) \in AffinityMap
      BY DEF unbound, TypeOK, AffinityMap
    <3>2. \/ affinity'[u] = None
          \/ affinity'[u] = unbound(t)[u]
          \/ u = t
      BY <2>1, <2>2, <2>4, <3>1, BindThread
    <3>3. u # t => unbound(t)[u] = affinity[u]
      BY DEF unbound, TypeOK
    <3>4. CASE u # t
      BY <3>2, <3>3, <3>4 DEF Moves, Stays
    <3>5. CASE u = t /\ affinity[t] # None
      <4> DEFINE e == affinity[t]
                 f == affinity'[t]
      <4>1. ~isThreadAffinityGenerationLive(e) \/ ~isCodexAccountSelectable(e.account)
        BY <1>4, <2>4, <3>5 DEF ResolveNew, needsRouting, isReusable, isBound
      <4>2. f = None \/ f = bindingFor(a)
        <5>1. t \in Threads /\ unbound(t)[t] = None
          BY <2>4 DEF unbound, TypeOK
        <5> QED BY <2>1, <2>2, <2>4, <3>1, <5>1, BindThread
      <4>3. isCodexAccountSelectable(a)
        BY RoutedIsSelectable DEF getEligiblePoolAccounts
      <4>4. bindingFor(a).account = a
            /\ bindingFor(a).generation = IF a = Main THEN 0 ELSE record[a].generation
        BY DEF bindingFor
      <4>5. (f.account = e.account /\ f.generation = e.generation /\ f # None)
            => isThreadAffinityGenerationLive(e) /\ isCodexAccountSelectable(e.account)
        BY <4>2, <4>3, <4>4 DEF isThreadAffinityGenerationLive, isCodexAccountSelectable,
           isCodexAccountUsable
      <4> QED BY <3>5, <4>1, <4>5 DEF Moves, Stays, Leaves
    <3> QED BY <3>4, <3>5 DEF Moves, Stays
  <2> QED BY <2>3, <2>4
<1>5. CASE ResolveStuck(s, t)
  BY <1>5 DEF ResolveStuck, unbound, Moves, Stays, TypeOK
<1> QED BY <1>1, <1>2, <1>3, <1>4, <1>5 DEF Resolve

\* Every other step keeps a binding or drops it.
LEMMA OthersStay ==
  ASSUME TypeOK, [Next]_vars,
         ~ \E s \in Slots, t \in Threads \union {None} : Resolve(s, t),
         NEW u \in Threads
  PROVE  Stays(u)
<1>1. CASE UNCHANGED affinity
  BY <1>1 DEF Stays
<1>2. CASE affinity' = [t \in Threads |-> None]
  BY <1>2 DEF Stays
<1>3. CASE \E a : affinity' = forgetAccount(affinity, a)
  BY <1>3 DEF Stays, forgetAccount
<1>4. ASSUME NEW s \in Slots, RequestStep(s)
      PROVE  UNCHANGED affinity \/ \E a : affinity' = forgetAccount(affinity, a)
  BY <1>4 DEF RequestStep, RefreshSaved, RefreshReused, RefreshConflict, RefreshFailed,
     Admit, OutcomeSuccess, OutcomeIgnored, OutcomeCredential, OutcomeQuota,
     OutcomeTransient, memory
<1>5. ASSUME NEW a \in Pool, AccountEvent(a)
      PROVE  \/ UNCHANGED affinity \/ affinity' = [t \in Threads |-> None]
             \/ \E b : affinity' = forgetAccount(affinity, b)
  BY <1>5 DEF AccountEvent, Login, DeleteAccount, TokenExpires, CrashInLogin,
     CrashInDelete, startProcess, memory
<1>6. CASE UNCHANGED vars
  BY <1>6 DEF vars, memory, Stays
<1> QED BY <1>1, <1>2, <1>3, <1>4, <1>5, <1>6
        DEF Next, SelectActive, UpdateQuota, ChangeAccountMode, MainTokenChanges, Tick,
            Restart, startProcess, memory

\* A binding is served from only while it names the credential it was made with
\* and an account that can serve, and left for another account or generation
\* only when one of the two fails, a mere refresh of its token included, or when
\* a due re-evaluation finds the account over the threshold and the new one
\* strictly less used.
THEOREM MovesForCause == Spec => ThreadsMoveForCause
<1> DEFINE Caused ==
      \A t \in Threads :
        LET e == affinity[t]
            f == affinity'[t]
        IN  (e # None /\ f # None /\ f # e)
            => IF f.account = e.account /\ f.generation = e.generation
               THEN isThreadAffinityGenerationLive(e) /\ isCodexAccountSelectable(e.account)
               ELSE \/ ~isCodexAccountSelectable(e.account)
                    \/ ~isThreadAffinityGenerationLive(e)
                    \/ /\ isReevalDue(t)
                       /\ overThreshold(e.account)
                       /\ usage[f.account] < usage[e.account]
<1>1. TypeOK /\ [Next]_vars => Caused
  <2> SUFFICES ASSUME TypeOK, [Next]_vars, NEW u \in Threads PROVE Moves(u)
    BY DEF Moves, Stays, Serves, Leaves
  <2>1. CASE \E s \in Slots, t \in Threads \union {None} : Resolve(s, t)
    BY <2>1, ResolveMovesForCause
  <2>2. CASE ~ \E s \in Slots, t \in Threads \union {None} : Resolve(s, t)
    BY <2>2, OthersStay DEF Moves
  <2> QED BY <2>1, <2>2
<1>2. Spec => [][Caused]_vars
  BY <1>1, TypeCorrect, PTL DEF Spec
<1> QED BY <1>2 DEF ThreadsMoveForCause

-----------------------------------------------------------------------------
(* A cooldown runs its course *)

\* Why a's cooldown may be shorter after a step.
Cause(a) ==
  \/ health'[a].cooldownUntil > now
  \/ a \in reauth'
  \/ a \in Pool /\ ~record'[a].live
  \/ health' = [b \in Accounts |-> NoHealth]

KeepsCooldown(a) ==
  (/\ isCodexAccountInCooldown(a)
   /\ health'[a].cooldownUntil < health[a].cooldownUntil)
  => Cause(a)

\* Only the account of the reported request is touched: a success or a
\* transient failure copies its cooldown, a quota failure starts one that is
\* still to run, a refused credential marks it.
LEMMA OutcomeKeepsCooldown ==
  ASSUME TypeOK, NEW s \in Slots, NEW b \in Accounts,
         \/ OutcomeSuccess(s) \/ OutcomeIgnored(s) \/ OutcomeCredential(s)
         \/ OutcomeQuota(s) \/ OutcomeTransient(s)
  PROVE  KeepsCooldown(b)
<1> DEFINE a == req[s].account
<1>1. a \in Accounts
  BY ServedAccount DEF OutcomeSuccess, OutcomeIgnored, OutcomeCredential,
     OutcomeQuota, OutcomeTransient, isSent
<1>2. health[b].cooldownUntil \in Nat /\ now \in Nat
  BY DEF TypeOK, Health
<1>3. ASSUME NEW h, health' = [health EXCEPT ![a] = h]
      PROVE  /\ b # a => health'[b] = health[b]
             /\ b = a => health'[b] = h
  BY <1>3 DEF TypeOK
<1>4. CASE OutcomeSuccess(s)
  <2> DEFINE h == [fails |-> 0, failedAt |-> 0, cooldownUntil |-> unexpiredCooldown(a)]
  <2>1. health' = [health EXCEPT ![a] = h]
    BY <1>4 DEF OutcomeSuccess
  <2>2. h.cooldownUntil = unexpiredCooldown(a)
    OBVIOUS
  <2> HIDE DEF h
  <2> QED BY <1>2, <1>3, <2>1, <2>2 DEF KeepsCooldown, unexpiredCooldown
<1>5. CASE OutcomeIgnored(s)
  BY <1>2, <1>5 DEF OutcomeIgnored, KeepsCooldown, memory
<1>6. CASE OutcomeCredential(s)
  <2>1. a \in reauth'
    BY <1>6 DEF OutcomeCredential
  <2>2. b # a => health'[b] = health[b]
    BY <1>3, <1>6 DEF OutcomeCredential, setHealth
  <2> QED BY <1>2, <2>1, <2>2 DEF KeepsCooldown, Cause
<1>7. CASE OutcomeQuota(s)
  <2>1. PICK d \in Cooldowns : setHealth(a, 0, now + d)
    BY <1>7 DEF OutcomeQuota
  <2>2. now + d > now
    BY <1>2, NumbersAssumption
  <2>3. /\ b # a => health'[b] = health[b]
        /\ b = a => health'[b].cooldownUntil = now + d
    BY <1>3, <2>1 DEF setHealth
  <2> QED BY <1>2, <2>2, <2>3 DEF KeepsCooldown, Cause
<1>8. CASE OutcomeTransient(s)
  <2>1. setHealth(a, nextStreak(a), unexpiredCooldown(a))
    BY <1>8 DEF OutcomeTransient
  <2>2. /\ b # a => health'[b] = health[b]
        /\ b = a => health'[b].cooldownUntil = unexpiredCooldown(a)
    BY <1>3, <2>1 DEF setHealth
  <2> QED BY <1>2, <2>2 DEF KeepsCooldown, unexpiredCooldown
<1> QED BY <1>4, <1>5, <1>6, <1>7, <1>8

\* No other step changes a cooldown, except that an account's deletion
\* takes its health away with it and a restart takes everything.
LEMMA OthersKeepCooldown ==
  ASSUME TypeOK, [Next]_vars, NEW b \in Accounts,
         ~ \E s \in Slots : \/ OutcomeSuccess(s) \/ OutcomeIgnored(s)
                            \/ OutcomeCredential(s) \/ OutcomeQuota(s)
                            \/ OutcomeTransient(s)
  PROVE  KeepsCooldown(b)
<1>1. CASE UNCHANGED health
  <2>1. health[b].cooldownUntil \in Nat
    BY DEF TypeOK, Health
  <2> QED BY <1>1, <2>1 DEF KeepsCooldown
<1>2. CASE startProcess
  BY <1>2 DEF startProcess, KeepsCooldown, Cause
<1>3. ASSUME NEW s \in Slots, RequestStep(s)
      PROVE  UNCHANGED health
  <2>1. ASSUME NEW t \in Threads \union {None}, Resolve(s, t)
        PROVE  UNCHANGED health
    BY <2>1 DEF Resolve, ResolveExpired, ResolveBound, ResolveRebalanced, ResolveNew,
       ResolveStuck
  <2> QED BY <1>3, <2>1 DEF RequestStep, RefreshSaved, RefreshReused, RefreshConflict,
             RefreshFailed, Admit, memory
<1>4. ASSUME NEW a \in Pool, AccountEvent(a)
      PROVE  UNCHANGED health \/ startProcess \/ DeleteAccount(a)
  BY <1>4 DEF AccountEvent, Login, TokenExpires, CrashInLogin, CrashInDelete, memory
<1>5. ASSUME NEW a \in Pool, DeleteAccount(a)
      PROVE  KeepsCooldown(b)
  <2>1. record' = [record EXCEPT ![a] = tombstone(a)]
        /\ health' = [health EXCEPT ![a] = NoHealth]
    BY <1>5 DEF DeleteAccount
  <2>2. CASE b = a
    <3>1. ~record'[a].live
      BY <2>1 DEF tombstone, TypeOK
    <3> QED BY <2>2, <3>1 DEF KeepsCooldown, Cause
  <2>3. CASE b # a
    <3>1. health'[b] = health[b] /\ health[b].cooldownUntil \in Nat
      BY <2>1, <2>3 DEF TypeOK, Health
    <3> QED BY <3>1 DEF KeepsCooldown
  <2> QED BY <2>2, <2>3
<1> QED BY <1>1, <1>2, <1>3, <1>4, <1>5
        DEF Next, SelectActive, UpdateQuota, ChangeAccountMode, MainTokenChanges, Tick,
            Restart, memory, vars

\* A cooldown is cut short by a newer 429, a 401 or 403, the deletion of the
\* account or a restart, and by nothing else: not by the success or the 5xx
\* of a request that was in flight when it began.
THEOREM CooldownRunsItsCourse == Spec => CooldownSurvivesOtherOutcomes
<1> DEFINE Kept ==
      \A a \in Accounts :
        (/\ isCodexAccountInCooldown(a)
         /\ health'[a].cooldownUntil < health[a].cooldownUntil)
        => \/ health'[a].cooldownUntil > now
           \/ a \in reauth'
           \/ a \in Pool /\ ~record'[a].live
           \/ health' = [b \in Accounts |-> NoHealth]
<1>1. TypeOK /\ [Next]_vars => Kept
  <2> SUFFICES ASSUME TypeOK, [Next]_vars, NEW b \in Accounts PROVE KeepsCooldown(b)
    BY DEF KeepsCooldown, Cause
  <2> DEFINE Outcome(s) == \/ OutcomeSuccess(s) \/ OutcomeIgnored(s)
                           \/ OutcomeCredential(s) \/ OutcomeQuota(s)
                           \/ OutcomeTransient(s)
  <2>1. CASE \E s \in Slots : Outcome(s)
    BY <2>1, OutcomeKeepsCooldown
  <2>2. CASE ~ \E s \in Slots : Outcome(s)
    BY <2>2, OthersKeepCooldown
  <2> QED BY <2>1, <2>2
<1>2. Spec => [][Kept]_vars
  BY <1>1, TypeCorrect, PTL DEF Spec
<1> QED BY <1>2 DEF CooldownSurvivesOtherOutcomes

=============================================================================
