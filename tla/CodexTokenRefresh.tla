-------------------------- MODULE CodexTokenRefresh --------------------------
(***************************************************************************)
(* getValidCodexToken of src/src/codex/account-store.ts: the access token  *)
(* of an account, exchanged for a new one when it has expired.             *)
(*                                                                         *)
(* Calls of one process that need the same refresh grant share one         *)
(* exchange through refreshLocks; processes that share the configuration   *)
(* directory exclude each other with a lock file per grant; and the result *)
(* is saved only if the record still has the generation it had when the    *)
(* exchange began.  A process runs one call at a time, up to the next      *)
(* await; another process may take a step between any two file operations, *)
(* and the account store is one file, read as a whole and written back as  *)
(* a whole.                                                                *)
(*                                                                         *)
(* A credential is the number of its access token and its refresh grant:   *)
(* the login it comes from and how often it was rotated since.  Several    *)
(* local accounts (aliases) may hold the same grant.  Within one call, a   *)
(* read of the store that follows another one without an await gives the   *)
(* same result.  Validation metadata is left out.                          *)
(***************************************************************************)
EXTENDS Naturals, FiniteSets

CONSTANTS
  NumAccounts,  \* the accounts are 1..NumAccounts
  Processes,
  Calls,        \* the calls of a behaviour
  processOf,    \* the process each call runs in
  None,
  MaxIssued,    \* bound: access tokens
  MaxCommands   \* bound: logins, deletions and crashes

Accounts == 1..NumAccounts

ASSUME ProcessesAssumption ==
  None \notin Calls /\ processOf \in [Calls -> Processes]

ASSUME BoundsAssumption ==
  /\ NumAccounts \in Nat \ {0} /\ MaxIssued \in Nat /\ MaxCommands \in Nat
  /\ NumAccounts <= MaxIssued

VARIABLES
  store,     \* codex-accounts.json
  pending,   \* per process, the store it is about to write
  lock,      \* the lock files
  call,      \* the calls
  issued,    \* access tokens issued so far
  fresh,     \* those that are not about to expire
  spent,     \* grants that were rotated away
  commands

auth == <<issued, fresh, spent>>
vars == <<store, pending, lock, call, auth, commands>>

-----------------------------------------------------------------------------
(* Data *)

Credential  == [login : Nat, rotation : Nat, token : Nat]
Record      == [generation : Nat, cred : Credential \union {None}, deletedAt : Nat]
Fingerprint == (0..MaxIssued) \X (0..MaxIssued)

ASSUME NoneAssumption == None \notin Credential /\ None \notin [Accounts -> Record]

NoLock      == [owner |-> None, state |-> "none"]

NotStarted == [pc |-> "idle", account |-> 1, key |-> <<0, 0>>, joined |-> None,
               waitsFor |-> None, late |-> FALSE, cred |-> None, generation |-> 0]

\* Points at which a call does not let its process run anything else.
Running == {"opening", "writing", "checking", "unlinking", "locked", "releasing"}

\* The call's promise is in refreshLocks.
Leading == Running \union {"sleeping", "fetching"}

Ended == {"answered", "failed", "timedOut", "crashed"}

TypeOK ==
  /\ store \in [Accounts -> Record]
  /\ pending \in [Processes -> [Accounts -> Record] \union {None}]
  /\ lock \in [Fingerprint ->
       [owner : Calls \union {None}, state : {"none", "empty", "fresh", "stale"}]]
  /\ call \in [Calls ->
       [pc : {"idle", "joined"} \union Leading \union Ended,
        account : Accounts, key : Fingerprint, joined : Calls \union {None},
        waitsFor : Calls \union {None}, late : BOOLEAN,
        cred : Credential \union {None}, generation : Nat]]
  /\ \A c \in Calls :
       /\ call[c].pc \in {"fetching", "answered"} => call[c].cred # None
       /\ call[c].pc = "joined" => call[c].joined # None
  /\ issued \in 0..MaxIssued
  /\ fresh \subseteq 1..issued
  /\ spent \subseteq Fingerprint
  /\ commands \in 0..MaxCommands

grant(cred) == <<cred.login, cred.rotation>>

\* Fault: the locks are keyed by the alias.
fingerprintOfAlias(a, cred) == <<0, a>>

refreshGrantFingerprint(a, cred) == grant(cred)

isFresh(cred) == cred.token \in fresh

isFreshRecord(r) == IF r.cred = None THEN FALSE ELSE isFresh(r.cred)

\* Fault: an exchange that fails leaves its waiters waiting.
settledWhenAnswered(c) ==
  call[c].pc = "joined" /\ call[call[c].joined].pc = "answered"

\* The exchange that the call waits for has ended.
settled(c) ==
  call[c].pc = "joined" /\ call[call[c].joined].pc \in Ended

\* The process is at an await, or runs the given call.
isFree(p, c) ==
  /\ pending[p] = None
  /\ \A d \in Calls \ {c} : processOf[d] = p => call[d].pc \notin Running

\* A call whose promise has settled runs before anything new does.
mayRun(p, c) ==
  /\ isFree(p, c)
  /\ \A d \in Calls \ {c} : processOf[d] = p => ~settled(d)

goto(c, pc) == call' = [call EXCEPT ![c].pc = pc]

ended(pc) == [NotStarted EXCEPT !.pc = pc]

ends(c, pc) == call' = [call EXCEPT ![c] = ended(pc)]

answers(c, cred, generation) ==
  call' = [call EXCEPT ![c] =
    [ended("answered") EXCEPT !.account = call[c].account, !.key = call[c].key,
                              !.cred = cred, !.generation = generation]]

-----------------------------------------------------------------------------
(* The account store *)

\* Both ways to save a credential add one to the generation.
saved(a, cred) ==
  [generation |-> store[a].generation + 1, cred |-> cred, deletedAt |-> 0]

tombstone(a) ==
  [generation |-> store[a].generation + 1, cred |-> None, deletedAt |-> issued]

write(p, a, record) ==
  pending' = [pending EXCEPT ![p] = [store EXCEPT ![a] = record]]

\* Fault: the generation is not compared.
isGenerationLiveUnchecked(a, generation) == store[a].cred # None

\* What saveCodexAccountCredentialIfGeneration compares.
isGenerationLive(a, generation) ==
  store[a].cred # None /\ store[a].generation = generation

Persist(p) ==
  /\ pending[p] # None
  /\ store' = pending[p]
  /\ pending' = [pending EXCEPT ![p] = None]
  /\ UNCHANGED <<lock, call, auth, commands>>

-----------------------------------------------------------------------------
(* Entering getValidCodexToken *)

refreshLock(p, key) ==
  {l \in Calls : processOf[l] = p /\ call[l].pc \in Leading /\ call[l].key = key}

entered(c, a) ==
  LET r == store[a]
      key == refreshGrantFingerprint(a, r.cred)
      leaders == refreshLock(processOf[c], key) \ {c}
      at(pc) == [NotStarted EXCEPT !.pc = pc, !.account = a]
  IN  IF r.cred = None THEN ended("failed")
      ELSE IF isFresh(r.cred)
        THEN [at("answered") EXCEPT !.cred = r.cred, !.generation = r.generation]
      ELSE IF leaders # {}
        THEN [at("joined") EXCEPT !.key = key, !.joined = CHOOSE l \in leaders : TRUE]
      ELSE [at("opening") EXCEPT !.key = key]

Begin(c, a) ==
  /\ call[c].pc = "idle"
  /\ mayRun(processOf[c], c)
  /\ call' = [call EXCEPT ![c] = entered(c, a)]
  /\ UNCHANGED <<store, pending, lock, auth, commands>>

-----------------------------------------------------------------------------
(* Waiting for the exchange of another call *)

resumes(c) == settled(c) /\ isFree(processOf[c], c)

result(c) == call[call[c].joined].cred

\* Fault: the result is used by the account that was refreshed only.
takesResultIfSame(c) ==
  /\ store[call[c].account].cred # None
  /\ call[call[c].joined].account = call[c].account
  /\ grant(store[call[c].account].cred) = call[c].key

\* The record still has the grant that was exchanged.
takesResult(c) ==
  LET r == store[call[c].account] IN
  r.cred # None /\ refreshGrantFingerprint(call[c].account, r.cred) = call[c].key

JoinedFailed(c) ==
  /\ resumes(c)
  /\ call[call[c].joined].pc # "answered"
  /\ ends(c, "failed")
  /\ UNCHANGED <<store, pending, lock, auth, commands>>

\* The record gets the same credential, and with it a new generation even
\* when it was this record that was refreshed.
JoinedSaves(c) ==
  LET a == call[c].account IN
  /\ resumes(c)
  /\ call[call[c].joined].pc = "answered"
  /\ takesResult(c)
  /\ write(processOf[c], a, saved(a, result(c)))
  /\ answers(c, result(c), store[a].generation + 1)
  /\ UNCHANGED <<store, lock, auth, commands>>

JoinedStartsAgain(c) ==
  /\ resumes(c)
  /\ call[call[c].joined].pc = "answered"
  /\ ~takesResult(c)
  /\ call' = [call EXCEPT ![c] = entered(c, call[c].account)]
  /\ UNCHANGED <<store, pending, lock, auth, commands>>

-----------------------------------------------------------------------------
(* withCodexRefreshFileLock *)

\* A call that is running goes on, up to its next await.
runs(c, pc) ==
  /\ call[c].pc = pc
  /\ IF pc \in Running THEN isFree(processOf[c], c) ELSE mayRun(processOf[c], c)

lockOf(c) == lock[call[c].key]

setLock(c, file) == lock' = [lock EXCEPT ![call[c].key] = file]

\* openSync with "wx": creates the file, or fails because it exists.
OpenLock(c) ==
  /\ runs(c, "opening")
  /\ IF lockOf(c).state = "none"
       THEN setLock(c, [owner |-> c, state |-> "empty"]) /\ goto(c, "writing")
       ELSE goto(c, "checking") /\ UNCHANGED lock
  /\ UNCHANGED <<store, pending, auth, commands>>

\* The file that was opened may have been unlinked.
WriteLock(c) ==
  /\ runs(c, "writing")
  /\ IF lockOf(c).owner = c
       THEN setLock(c, [owner |-> c, state |-> "fresh"])
       ELSE UNCHANGED lock
  /\ goto(c, "locked")
  /\ UNCHANGED <<store, pending, auth, commands>>

\* Fault: a lock file that cannot be parsed is taken for a live one.
isRefreshLockStaleParsed(file) == file.state = "stale"

\* A file that cannot be read or parsed counts as stale.
isRefreshLockStale(file) == file.state # "fresh"

CheckLock(c) ==
  /\ runs(c, "checking")
  /\ IF isRefreshLockStale(lockOf(c)) THEN goto(c, "unlinking")
     ELSE IF call[c].late THEN ends(c, "timedOut")
     ELSE call' = [call EXCEPT ![c].pc = "sleeping", ![c].waitsFor =
            IF @ = None THEN lockOf(c).owner ELSE @]
  /\ UNCHANGED <<store, pending, lock, auth, commands>>

UnlinkStale(c) ==
  /\ runs(c, "unlinking")
  /\ setLock(c, NoLock)
  /\ goto(c, "opening")
  /\ UNCHANGED <<store, pending, auth, commands>>

Wake(c) ==
  /\ runs(c, "sleeping")
  /\ goto(c, "opening")
  /\ UNCHANGED <<store, pending, lock, auth, commands>>

\* The deadline is REFRESH_LOCK_WAIT_MS after the call began to wait, which
\* is longer than a lock stays fresh: by then, the file it found first is
\* stale or gone.
DeadlinePasses(c) ==
  /\ call[c].pc = "sleeping"
  /\ ~call[c].late
  /\ lockOf(c).state = "fresh" => lockOf(c).owner # call[c].waitsFor
  /\ call' = [call EXCEPT ![c].late = TRUE]
  /\ UNCHANGED <<store, pending, lock, auth, commands>>

\* A lock becomes stale only after its owner has crashed: the exchange is
\* aborted after half the time.
LockGoesStale(key) ==
  /\ lock[key].state = "fresh"
  /\ call[lock[key].owner].pc \notin Leading
  /\ lock' = [lock EXCEPT ![key].state = "stale"]
  /\ UNCHANGED <<store, pending, call, auth, commands>>

hasError(c) == call[c].cred = None

\* The finally clauses: whatever lock file is there is unlinked, and the
\* promise leaves refreshLocks.
Release(c) ==
  /\ runs(c, "releasing")
  /\ setLock(c, NoLock)
  /\ IF hasError(c) THEN ends(c, "failed")
     ELSE answers(c, call[c].cred, call[c].generation)
  /\ UNCHANGED <<store, pending, auth, commands>>

-----------------------------------------------------------------------------
(* The exchange, under the lock *)

\* The promise settles with a credential, or with None for an error.
settles(c, cred, generation) ==
  call' = [call EXCEPT ![c].pc = "releasing", ![c].cred = cred,
                       ![c].generation = generation]

holdsSameGrant(c) ==
  LET r == store[call[c].account] IN
  /\ r.cred # None
  /\ refreshGrantFingerprint(call[c].account, r.cred) = call[c].key

\* findFreshCredentialForGrant.
freshCredentialsForGrant(c) ==
  {store[b].cred : b \in {b \in Accounts \ {call[c].account} :
     /\ store[b].cred # None
     /\ refreshGrantFingerprint(b, store[b].cred) = call[c].key
     /\ isFresh(store[b].cred)}}

\* The account was deleted, or has another grant that has expired as well.
LockedConflict(c) ==
  /\ runs(c, "locked")
  /\ ~holdsSameGrant(c)
  /\ ~isFreshRecord(store[call[c].account])
  /\ settles(c, None, 0)
  /\ UNCHANGED <<store, pending, lock, auth, commands>>

LockedFresh(c) ==
  LET r == store[call[c].account] IN
  /\ runs(c, "locked")
  /\ isFreshRecord(r)
  /\ settles(c, r.cred, r.generation)
  /\ UNCHANGED <<store, pending, lock, auth, commands>>

needsExchange(c) ==
  /\ runs(c, "locked")
  /\ holdsSameGrant(c)
  /\ ~isFresh(store[call[c].account].cred)

LockedShares(c) ==
  LET a == call[c].account IN
  /\ needsExchange(c)
  /\ \E cred \in freshCredentialsForGrant(c) :
       /\ write(processOf[c], a, saved(a, cred))
       /\ settles(c, cred, store[a].generation + 1)
  /\ UNCHANGED <<store, lock, auth, commands>>

LockedFetches(c) ==
  LET r == store[call[c].account] IN
  /\ needsExchange(c)
  /\ freshCredentialsForGrant(c) = {}
  /\ call' = [call EXCEPT ![c].pc = "fetching", ![c].cred = r.cred,
                          ![c].generation = r.generation]
  /\ UNCHANGED <<store, pending, lock, auth, commands>>

\* The token endpoint issues a token, and a new grant if it rotates them; a
\* grant that was rotated away is refused.
issues(cred, rotates) ==
  /\ issued < MaxIssued
  /\ grant(cred) \notin spent
  /\ issued' = issued + 1
  /\ fresh' = fresh \union {issued + 1}
  /\ spent' = IF rotates THEN spent \union {grant(cred)} ELSE spent

renewed(cred, rotates) ==
  [login |-> cred.login, token |-> issued + 1,
   rotation |-> IF rotates THEN cred.rotation + 1 ELSE cred.rotation]

\* Fault: the answer carries the generation the exchange began with.
savedGenerationOld(generation) == generation

savedGeneration(generation) == generation + 1

FetchSucceeds(c, rotates) ==
  LET a == call[c].account
      cred == renewed(call[c].cred, rotates)
  IN  /\ runs(c, "fetching")
      /\ issues(call[c].cred, rotates)
      /\ IF isGenerationLive(a, call[c].generation)
           THEN /\ write(processOf[c], a, saved(a, cred))
                /\ settles(c, cred, savedGeneration(call[c].generation))
           ELSE settles(c, None, 0) /\ UNCHANGED pending
      /\ UNCHANGED <<store, lock, commands>>

FetchFails(c) ==
  /\ runs(c, "fetching")
  /\ settles(c, None, 0)
  /\ UNCHANGED <<store, pending, lock, auth, commands>>

\* The endpoint has rotated the grant and its answer is lost.
FetchIsLost(c) ==
  /\ runs(c, "fetching")
  /\ issues(call[c].cred, TRUE)
  /\ settles(c, None, 0)
  /\ UNCHANGED <<store, pending, lock, commands>>

-----------------------------------------------------------------------------
(* The rest of the program, and time *)

command == commands < MaxCommands /\ commands' = commands + 1

\* saveCodexAccountCredential, at the end of a login.
Login(p, a) ==
  /\ command
  /\ mayRun(p, None)
  /\ issued < MaxIssued
  /\ issued' = issued + 1
  /\ fresh' = fresh \union {issued + 1}
  /\ write(p, a, saved(a, [login |-> issued + 1, rotation |-> 0, token |-> issued + 1]))
  /\ UNCHANGED <<store, lock, call, spent>>

DeleteAccount(p, a) ==
  /\ command
  /\ mayRun(p, None)
  /\ write(p, a, tombstone(a))
  /\ UNCHANGED <<store, lock, call, auth>>

TokenExpires(t) ==
  /\ t \in fresh
  /\ fresh' = fresh \ {t}
  /\ UNCHANGED <<store, pending, lock, call, issued, spent, commands>>

\* The process dies and leaves its lock files behind.
Crash(p) ==
  /\ command
  /\ pending' = [pending EXCEPT ![p] = None]
  /\ call' = [c \in Calls |->
       IF processOf[c] = p /\ call[c].pc \in Leading \union {"joined"}
         THEN ended("crashed") ELSE call[c]]
  /\ UNCHANGED <<store, lock, auth>>

-----------------------------------------------------------------------------
\* Expired credentials of earlier logins, some of them under several aliases.
Init ==
  /\ \E login \in [Accounts -> Accounts] :
       store = [a \in Accounts |->
         [generation |-> 1, deletedAt |-> 0,
          cred |-> [login |-> login[a], rotation |-> 0, token |-> login[a]]]]
  /\ pending = [p \in Processes |-> None]
  /\ lock = [key \in Fingerprint |-> NoLock]
  /\ call = [c \in Calls |-> NotStarted]
  /\ issued = NumAccounts
  /\ fresh = {}
  /\ spent = {}
  /\ commands = 0

\* What a call does by itself; a response or an error always comes, since
\* the exchange is aborted after a while.
CallStep(c) ==
  \/ JoinedFailed(c) \/ JoinedSaves(c) \/ JoinedStartsAgain(c)
  \/ OpenLock(c) \/ WriteLock(c) \/ CheckLock(c) \/ UnlinkStale(c) \/ Wake(c)
  \/ LockedConflict(c) \/ LockedFresh(c) \/ LockedShares(c) \/ LockedFetches(c)
  \/ \E rotates \in BOOLEAN : FetchSucceeds(c, rotates)
  \/ FetchFails(c) \/ FetchIsLost(c)
  \/ Release(c)

Next ==
  \/ \E c \in Calls, a \in Accounts : Begin(c, a)
  \/ \E c \in Calls : CallStep(c) \/ DeadlinePasses(c)
  \/ \E p \in Processes : Persist(p) \/ Crash(p)
  \/ \E p \in Processes, a \in Accounts : Login(p, a) \/ DeleteAccount(p, a)
  \/ \E key \in Fingerprint : LockGoesStale(key)
  \/ \E t \in 1..MaxIssued : TokenExpires(t)

Spec == Init /\ [][Next]_vars

\* Processes run, writes end and time passes; nobody has to call.
Fairness ==
  /\ \A c \in Calls : WF_vars(CallStep(c))
  /\ \A p \in Processes : WF_vars(Persist(p))
  /\ WF_vars(\E key \in Fingerprint : LockGoesStale(key))

FairSpec == Spec /\ Fairness

-----------------------------------------------------------------------------
(* Properties *)

\* A refresh that ends late loses: it neither replaces the credential of a
\* newer login or of a newer refresh, nor brings a deleted account back.
LateRefreshLoses ==
  [][\A a \in Accounts :
       store'[a].cred # None =>
         IF store[a].cred = None
           THEN store'[a].cred.login > store[a].deletedAt
           ELSE \/ store'[a].cred.login > store[a].cred.login
                \/ /\ store'[a].cred.login = store[a].cred.login
                   /\ store'[a].cred.token >= store[a].cred.token]_vars

\* A refresh grant is good for one exchange, so no two are under way at a
\* time, whichever alias or process asked for them.
OneExchangePerGrant ==
  \A c, d \in Calls :
    /\ call[c].pc = "fetching" /\ call[d].pc = "fetching"
    /\ grant(call[c].cred) = grant(call[d].cred)
    => c = d

\* A call that waited for another one's exchange, and saw it succeed, never
\* exchanges the same grant again.
JoinersShareTheExchange ==
  [][\A c \in Calls :
       call[c].pc = "joined" /\ call'[c].pc \in {"joined", "opening"}
       => call'[c] = call[c] \/ call'[c].key # call[c].key]_vars

\* The generation a call returns is the one under which the store has the
\* token it returns: a request that is given both is admitted, unless the
\* account changes once more.
AnswersMatchTheStore ==
  [][\A c \in Calls :
       call[c].pc # "answered" /\ call'[c].pc = "answered" =>
         LET p == processOf[c]
             s == IF pending'[p] = None THEN store' ELSE pending'[p]
             r == s[call'[c].account]
         IN  r.cred = call'[c].cred /\ r.generation = call'[c].generation]_vars

\* A lock file left behind by a crash delays a call, and nothing more: it is
\* reclaimed before the call gives up.
LeftoverLocksAreReclaimed == \A c \in Calls : call[c].pc # "timedOut"

\* Every call ends: with a token or with an error.
EveryCallEnds ==
  \A c \in Calls : call[c].pc # "idle" ~> call[c].pc \in Ended

=============================================================================
