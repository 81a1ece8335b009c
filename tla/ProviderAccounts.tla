-------------------------- MODULE ProviderAccounts --------------------------
(***************************************************************************)
(* The accounts of an OAuth provider, and the refresh of their tokens: the *)
(* store of src/src/oauth/store.ts and the resolver of                     *)
(* src/src/oauth/index.ts.                                                 *)
(*                                                                         *)
(* A process has one refresh of an account under way at a time             *)
(* (tokenRefreshes); whoever else asks joins it.  For xAI a lock file keeps*)
(* the processes apart, until it is as old as its limit (a refresh may take*)
(* longer), and what comes of the exchange is merged only into the         *)
(* generation that was exchanged.  For the other providers it is saved as  *)
(* it comes.                                                               *)
(*                                                                         *)
(* A write of the store (mutateStore) is one step: it is queued in its     *)
(* process and holds the lock file of the store.  An account is told by    *)
(* its identity, which every credential here has; credentials of a local   *)
(* command line, and providers without identities, are left out.  A        *)
(* credential is a number, in the order of issue, and stands for its       *)
(* generation (a hash of its tokens); the provider rotates the grant at    *)
(* each exchange.                                                          *)
(***************************************************************************)
EXTENDS Naturals, Sequences, FiniteSets

CONSTANTS
  Accounts,
  Processes,
  None,       \* no row, no holder of a lock
  Left,       \* the holder of a lock file has crashed
  MaxIssued,  \* bound: credentials that the provider issues
  MaxMishaps  \* bound: crashes, and locks that a live process holds too long

ASSUME AccountsAssumption ==
  /\ MaxIssued \in Nat /\ MaxMishaps \in Nat
  /\ None \notin Accounts \union Processes /\ Left \notin Processes /\ Left # None
  /\ None \notin [cred : Nat, fresh : BOOLEAN, reauth : BOOLEAN]
  /\ None \notin [cred : Nat, condemned : BOOLEAN]

VARIABLES
  policy,   \* "locked" (xAI) or "plain"
  row,      \* the account's credential, whether its token is valid, and needsReauth
  active,   \* activeAccountId
  issued,   \* the credentials issued: their account, and what was exchanged for them
  alive,    \* those whose grant can be exchanged
  lost,     \* history: those exchanged for one that never reached the store
  overtaken,\* history: those in the hands of a process whose lock was taken over
  flight,   \* the refresh of an account in a process
  verdicts, \* permanentRefreshFailures of a process
  lock,     \* the intent lock file of an account
  mishaps   \* those of either kind so far

accountVars ==
  <<policy, row, active, issued, alive, lost, overtaken, flight, verdicts, lock, mishaps>>
grantVars == <<issued, alive>>
past == <<lost, overtaken>>

Ids == 1..MaxIssued
Row == [cred : Ids, fresh : BOOLEAN, reauth : BOOLEAN]

\* cred: what is exchanged; new: what came of it.
Idle == [pc |-> "idle", cred |-> 0, new |-> 0]
Flight == [pc : {"idle", "locking", "exchanging", "saving", "marking"},
           cred : Ids \union {0}, new : Ids \union {0}]

AccountsTypeOK ==
  /\ policy \in {"locked", "plain"}
  /\ row \in [Accounts -> Row \union {None}]
  /\ active \in Accounts \union {None}
  /\ issued \in Seq([owner : Accounts, from : Ids \union {0}]) /\ Len(issued) <= MaxIssued
  /\ alive \subseteq Ids /\ lost \subseteq Ids /\ overtaken \subseteq Ids
  /\ flight \in [Processes -> [Accounts -> Flight]]
  /\ verdicts \in [Processes -> SUBSET Ids]
  /\ lock \in [Accounts -> Processes \union {None, Left}]
  /\ mishaps \in Nat

AccountsInit ==
  /\ policy \in {"locked", "plain"}
  /\ row = [a \in Accounts |-> None]
  /\ active = None
  /\ issued = <<>> /\ alive = {} /\ lost = {} /\ overtaken = {}
  /\ flight = [p \in Processes |-> [a \in Accounts |-> Idle]]
  /\ verdicts = [p \in Processes |-> {}]
  /\ lock = [a \in Accounts |-> None]
  /\ mishaps = 0

mishap == mishaps < MaxMishaps /\ mishaps' = mishaps + 1

isLocked == policy = "locked"
isStored(a) == row[a] # None

-----------------------------------------------------------------------------
(* The provider *)

\* The provider issues one more credential of account a, for c or, if that is
\* 0, for a login.  next is the number it gets.
next == Len(issued) + 1
issues(a, c) ==
  /\ next <= MaxIssued
  /\ issued' = Append(issued, [owner |-> a, from |-> c])
  /\ alive' = (alive \ {c}) \union {next}

-----------------------------------------------------------------------------
(* The store *)

stored(c) == [cred |-> c, fresh |-> TRUE, reauth |-> FALSE]

\* saveCredential, with an identity.
saveCredential(a, c) ==
  /\ row' = [row EXCEPT ![a] = stored(c)]
  /\ active' = a

\* saveAccountCredential: of an account that is gone, nothing is saved.
saveAccountCredential(a, c) ==
  /\ row' = IF isStored(a) THEN [row EXCEPT ![a] = stored(c)] ELSE row
  /\ UNCHANGED active

\* Fault: the generation is not compared.
mergeAnyway(a, c, expected) == row' = [row EXCEPT ![a] = stored(c)]

\* mergeAccountCredential, of an account that is there.
mergeAccountCredential(a, c, expected) ==
  row' = IF row[a].cred = expected THEN [row EXCEPT ![a] = stored(c)] ELSE row

\* Fault: the generation is not compared.
markAnyway(a, c) == row' = IF isStored(a) THEN [row EXCEPT ![a].reauth = TRUE] ELSE row

\* markAccountNeedsReauthIfGeneration, and markAccountNeedsReauth.
mark(a, c) ==
  row' = IF isStored(a) /\ (isLocked => row[a].cred = c)
         THEN [row EXCEPT ![a].reauth = TRUE] ELSE row

\* The access token of account a gets too old.
Expires(a) ==
  /\ isStored(a) /\ row[a].fresh
  /\ row' = [row EXCEPT ![a].fresh = FALSE]
  /\ UNCHANGED <<policy, active, grantVars, past, flight, verdicts, lock, mishaps>>

setActiveAccount(a) ==
  /\ isStored(a) /\ active # a
  /\ active' = a
  /\ UNCHANGED <<policy, row, grantVars, past, flight, verdicts, lock, mishaps>>

\* removeAccount: the first of the others, here any, becomes active.
removed(a) ==
  LET rest == {b \in Accounts \ {a} : isStored(b)} IN
  /\ isStored(a)
  /\ row' = [row EXCEPT ![a] = None]
  /\ active' \in IF active # a THEN {active} ELSE IF rest = {} THEN {None} ELSE rest

-----------------------------------------------------------------------------
(* The refresh *)

at(p, a, pc) == flight[p][a].pc = pc
becomes(p, a, f) == flight' = [flight EXCEPT ![p][a] = f]

\* The end of a refresh, and the release of its lock, if it is still its own.
released(p, a) == lock' = IF lock[a] = p THEN [lock EXCEPT ![a] = None] ELSE lock
ends(p, a) == becomes(p, a, Idle) /\ released(p, a)

\* resolveAccessSnapshotForAccount: of a token that has expired, or that the
\* upstream has rejected before its time.
Start(p, a) ==
  /\ at(p, a, "idle") /\ isStored(a)
  /\ becomes(p, a, [Idle EXCEPT !.pc = IF isLocked THEN "locking" ELSE "exchanging",
                                !.cred = row[a].cred])
  /\ UNCHANGED <<policy, row, active, grantVars, past, verdicts, lock, mishaps>>

\* Fault: what the caller read before it waited is exchanged.
callersCredential(p, a) == flight[p][a].cred

\* The credential as it is once the lock is held.
currentCredential(p, a) == row[a].cred

\* Under the lock: the account may be gone, its token may have become fresh by
\* another's doing, and its grant is known for a while to be dead.
mustExchange(p, a) ==
  /\ isStored(a) /\ row[a].cred \notin verdicts[p]
  /\ row[a].cred = flight[p][a].cred \/ ~row[a].fresh

\* A lock file that is older than its limit is removed, whether its process has
\* crashed or is still at work: discovery, three attempts and their pauses can
\* take longer than the 120 s.
isOvertaken(a) ==
  \/ lock[a] \in {None, Left} /\ UNCHANGED <<overtaken, mishaps>>
  \/ /\ lock[a] \in Processes
     /\ mishap
     /\ overtaken' = overtaken \union {flight[lock[a]][a].cred}

\* refreshXaiAccountWithLock up to the exchange.
Lock(p, a) ==
  /\ at(p, a, "locking")
  /\ isOvertaken(a)
  /\ IF mustExchange(p, a)
     THEN /\ becomes(p, a, [Idle EXCEPT !.pc = "exchanging", !.cred = currentCredential(p, a)])
          /\ lock' = [lock EXCEPT ![a] = p]
     ELSE /\ becomes(p, a, Idle)
          /\ lock' = [lock EXCEPT ![a] = None]
  /\ UNCHANGED <<policy, row, active, grantVars, lost, verdicts>>

\* The wait for the lock has its limit.
LockTimesOut(p, a) ==
  /\ at(p, a, "locking") /\ lock[a] # None
  /\ becomes(p, a, Idle)
  /\ UNCHANGED <<policy, row, active, grantVars, past, verdicts, lock, mishaps>>

\* def.refresh: the provider exchanges the grant, and its answer may be lost.
Exchange(p, a) ==
  LET c == flight[p][a].cred IN
  /\ at(p, a, "exchanging") /\ c \in alive
  /\ issues(a, c)
  /\ \/ becomes(p, a, [flight[p][a] EXCEPT !.pc = "saving", !.new = next])
        /\ UNCHANGED <<lost, lock>>
     \/ ends(p, a) /\ lost' = lost \union {c}
     \/ becomes(p, a, flight[p][a]) /\ isLocked /\ lost' = lost \union {c} /\ UNCHANGED lock
  /\ UNCHANGED <<policy, row, active, overtaken, verdicts, mishaps>>

\* A failure that is not the grant's.
ExchangeFails(p, a) ==
  /\ at(p, a, "exchanging")
  /\ ends(p, a)
  /\ UNCHANGED <<policy, row, active, grantVars, past, verdicts, mishaps>>

\* invalid_grant.
ExchangeRefused(p, a) ==
  LET c == flight[p][a].cred IN
  /\ at(p, a, "exchanging") /\ c \notin alive
  /\ becomes(p, a, [flight[p][a] EXCEPT !.pc = "marking"])
  /\ verdicts' = IF isLocked THEN [verdicts EXCEPT ![p] = @ \union {c}] ELSE verdicts
  /\ UNCHANGED <<policy, row, active, grantVars, past, lock, mishaps>>

\* What came of the exchange is saved, or dropped: then the grant is lost.
Save(p, a) ==
  LET c == flight[p][a].cred
      n == flight[p][a].new IN
  /\ at(p, a, "saving")
  /\ IF isLocked
     THEN IF isStored(a) THEN mergeAccountCredential(a, n, c) ELSE UNCHANGED row
     ELSE row' = IF isStored(a) THEN [row EXCEPT ![a] = stored(n)] ELSE row
  /\ lost' = IF isStored(a) /\ row'[a].cred = n THEN lost ELSE lost \union {c}
  /\ ends(p, a)
  /\ UNCHANGED <<policy, active, grantVars, overtaken, verdicts, mishaps>>

\* The store cannot be written.
SaveFails(p, a) ==
  /\ at(p, a, "saving")
  /\ lost' = lost \union {flight[p][a].cred}
  /\ ends(p, a)
  /\ UNCHANGED <<policy, row, active, grantVars, overtaken, verdicts, mishaps>>

Mark(p, a) ==
  /\ at(p, a, "marking")
  /\ mark(a, flight[p][a].cred)
  /\ ends(p, a)
  /\ UNCHANGED <<policy, active, grantVars, past, verdicts, mishaps>>

\* XAI_PERMANENT_FAILURE_TTL_MS.
Forget(p, c) ==
  /\ c \in verdicts[p]
  /\ verdicts' = [verdicts EXCEPT ![p] = @ \ {c}]
  /\ UNCHANGED <<policy, row, active, grantVars, past, flight, lock, mishaps>>

crashed(p) ==
  /\ mishap
  /\ lost' = lost \union {flight[p][a].cred : a \in {b \in Accounts : at(p, b, "saving")}}
  /\ flight' = [flight EXCEPT ![p] = [a \in Accounts |-> Idle]]
  /\ verdicts' = [verdicts EXCEPT ![p] = {}]
  /\ lock' = [a \in Accounts |-> IF lock[a] = p THEN Left ELSE lock[a]]
  /\ UNCHANGED <<policy, row, active, grantVars, overtaken>>

RefreshStep(p, a) ==
  \/ Start(p, a) \/ Lock(p, a) \/ LockTimesOut(p, a)
  \/ Exchange(p, a) \/ ExchangeFails(p, a) \/ ExchangeRefused(p, a)
  \/ Save(p, a) \/ SaveFails(p, a) \/ Mark(p, a)

-----------------------------------------------------------------------------
(* Properties *)

\* Logins, refreshes and reauthentications of several accounts at once never
\* put a credential of one account into the row of another.
RowsAreOwned == \A a \in Accounts : isStored(a) => issued[row[a].cred].owner = a

\* For xAI a grant that an exchange has used up is presented again only if
\* what came of that exchange never reached the store, or if the lock of a
\* process that had the grant in hand grew older than its limit and was taken
\* over.  Short of these, neither two requests nor two processes exchange one
\* grant, which would revoke the login.
GrantsAreNotReplayed ==
  \A p \in Processes, a \in Accounts :
    isLocked /\ at(p, a, "exchanging") /\ flight[p][a].cred \notin alive
      => flight[p][a].cred \in lost \union overtaken

\* The user of an xAI account is asked to log in again only for a credential
\* whose grant is dead, and died for one of those two reasons: a login that
\* ended meanwhile is not condemned for it, nor is what a slow refresh saved.
ReauthIsDeserved ==
  \A a \in Accounts :
    isLocked /\ isStored(a) /\ row[a].reauth
      => row[a].cred \in (lost \union overtaken) \ alive

\* What the store promises of the credential of each account, with and
\* without the comparison of generations.
Cells ==
  INSTANCE AccountCells WITH
    checked <- isLocked,
    cell <- [a \in Accounts |-> IF isStored(a)
                                THEN [cred |-> row[a].cred, condemned |-> row[a].reauth]
                                ELSE None]
CellsSpec == Cells!Spec

=============================================================================
