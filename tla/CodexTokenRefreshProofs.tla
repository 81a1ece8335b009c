----------------------- MODULE CodexTokenRefreshProofs -----------------------
(***************************************************************************)
(* Proofs about CodexTokenRefresh, for any accounts, calls and bounds.     *)
(*                                                                         *)
(* What involves the grants and the lock files is proved of one process,   *)
(* whose refreshLocks lets only one call at a time lead the refresh of a   *)
(* grant; with two processes the lock file does not keep that up, as a run *)
(* shows.                                                                  *)
(*                                                                         *)
(* Inv is about grants, lock files and the write that follows an exchange. *)
(* Joins (what runs, and what waits) and Late (what a process knows is     *)
(* ordered by age) are invariants on top of it, for LateResultsLose only.  *)
(***************************************************************************)
EXTENDS CodexTokenRefresh, TLAPS

Alone == \A p, q \in Processes : p = q

-----------------------------------------------------------------------------
(* The inductive invariant *)

LockFile == [owner : Calls \union {None}, state : {"none", "empty", "fresh", "stale"}]

CallRecord ==
  [pc : {"idle", "joined"} \union Leading \union Ended,
   account : Accounts, key : Fingerprint, joined : Calls \union {None},
   waitsFor : Calls \union {None}, late : BOOLEAN,
   cred : Credential \union {None}, generation : Nat]

\* The endpoint has issued n tokens, the one of the credential among them.
isIssued(n, cred) == cred.login <= n /\ cred.rotation <= n /\ cred.token <= n

IsStore(n, s) ==
  s \in [Accounts -> Record] /\ \A a \in Accounts : s[a].cred # None => isIssued(n, s[a].cred)

IsCall(n, x) ==
  /\ x \in CallRecord
  /\ x.pc \in {"fetching", "answered"} => x.cred # None
  /\ x.pc = "joined" => x.joined # None
  /\ x.cred # None => isIssued(n, x.cred)

AuthOK ==
  /\ issued \in 0..MaxIssued
  /\ fresh \subseteq 1..issued
  /\ spent \subseteq Fingerprint
  /\ commands \in 0..MaxCommands

\* Whatever a credential is stored in, its token was issued: its grant is a
\* fingerprint.
Typed ==
  /\ IsStore(issued, store)
  /\ DOMAIN pending = Processes /\ pending = [p \in Processes |-> pending[p]]
  /\ \A p \in Processes : pending[p] = None \/ IsStore(issued, pending[p])
  /\ lock \in [Fingerprint -> LockFile]
  /\ call \in [Calls -> CallRecord]
  /\ \A c \in Calls : IsCall(issued, call[c])
  /\ AuthOK

isLeading(c) == call[c].pc \in Leading

\* refreshLocks has one promise for each grant.
OneLeaderPerGrant ==
  \A c, d \in Calls :
    isLeading(c) /\ isLeading(d) /\ processOf[c] = processOf[d] /\ call[c].key = call[d].key
      => c = d

FetchesItsGrant == \A c \in Calls : call[c].pc = "fetching" => grant(call[c].cred) = call[c].key

\* The owner of a lock file is past the opening of it, or has ended.
Holding == {"writing", "locked", "fetching", "releasing"}

LocksHaveOwners ==
  \A key \in Fingerprint :
    lock[key].state # "none" =>
      /\ lock[key].owner \in Calls
      /\ \/ call[lock[key].owner].pc \in Holding /\ call[lock[key].owner].key = key
         \/ call[lock[key].owner].pc \in Ended

\* A call that waits for a lock file waits for the one that it found first,
\* and is late only when that one is fresh no more.
Waiting == {"opening", "checking", "unlinking", "sleeping"}

WaitsFor(x, file) ==
  /\ x.pc = "sleeping" => x.waitsFor # None
  /\ x.pc \in Waiting /\ file.state = "fresh" =>
       ~x.late /\ (x.waitsFor # None => file.owner = x.waitsFor)
  /\ x.pc # "timedOut"

WaitsForOne == \A c \in Calls : WaitsFor(call[c], lock[call[c].key])

\* What the process has written, or is about to write.
view(p) == IF pending[p] = None THEN store ELSE pending[p]

\* Until its process runs anything else, a refresh has its result in the store.
IsStored(x, s) ==
  x.pc = "releasing" /\ x.cred # None =>
    s[x.account].cred = x.cred /\ s[x.account].generation = x.generation

ResultsAreStored == \A c \in Calls : IsStored(call[c], view(processOf[c]))

Inv ==
  /\ Typed
  /\ OneLeaderPerGrant
  /\ FetchesItsGrant
  /\ Alone => LocksHaveOwners /\ WaitsForOne /\ ResultsAreStored

-----------------------------------------------------------------------------
(* Types *)

LEMMA TypedIsTyped == Typed => TypeOK
<1> SUFFICES ASSUME Typed PROVE TypeOK
  OBVIOUS
<1>1. pending \in [Processes -> [Accounts -> Record] \union {None}]
  BY DEF Typed, IsStore
<1>2. \A c \in Calls : IsCall(issued, call[c])
  BY DEF Typed
<1>3. QED
  BY <1>1, <1>2 DEF Typed, TypeOK, IsStore, IsCall, AuthOK, LockFile, CallRecord

\* A grant that was issued is the fingerprint of a lock.
LEMMA GrantIsFingerprint ==
  ASSUME AuthOK, NEW cred \in Credential, isIssued(issued, cred)
  PROVE  grant(cred) \in Fingerprint
BY BoundsAssumption DEF AuthOK, isIssued, grant, Fingerprint, Credential

LEMMA IssuedGrows ==
  ASSUME NEW m \in Nat, NEW n \in Nat, m <= n
  PROVE  /\ \A s : IsStore(m, s) => IsStore(n, s)
         /\ \A x : IsCall(m, x) => IsCall(n, x)
<1>1. \A cred \in Credential : isIssued(m, cred) => isIssued(n, cred)
  BY DEF isIssued, Credential
<1>2. \A s : IsStore(m, s) => IsStore(n, s)
  BY <1>1 DEF IsStore, Record
<1>3. \A x : IsCall(m, x) => IsCall(n, x)
  BY <1>1 DEF IsCall, CallRecord
<1>4. QED
  BY <1>2, <1>3

LEMMA RecordsFit ==
  ASSUME NEW n \in Nat, NEW s, IsStore(n, s), NEW a \in Accounts,
         NEW r \in Record, r.cred # None => isIssued(n, r.cred)
  PROVE  IsStore(n, [s EXCEPT ![a] = r])
BY DEF IsStore

LEMMA EndedIsRecord ==
  ASSUME NEW pc \in Ended
  PROVE  ended(pc) \in CallRecord /\ ended(pc).pc = pc
<1>1. 1 \in Accounts /\ <<0, 0>> \in Fingerprint
  BY BoundsAssumption DEF Accounts, Fingerprint
<1>2. QED
  BY <1>1 DEF ended, NotStarted, CallRecord

LEMMA EndedIsCall ==
  ASSUME NEW n \in Nat, NEW pc \in Ended \ {"answered"}
  PROVE  IsCall(n, ended(pc)) /\ ended(pc).pc = pc
<1>1. ended(pc) \in CallRecord /\ ended(pc).pc = pc
  BY EndedIsRecord
<1>2. QED
  BY <1>1 DEF IsCall, ended, NotStarted, Ended

-----------------------------------------------------------------------------
(* A step of one call *)

\* No other call of the process is in the middle of something, and nothing
\* is being written.
Quiet(c) == isFree(processOf[c], c)

\* The call becomes x, and the lock file of its grant becomes file.
Moves(c, x, file) ==
  /\ call' = [call EXCEPT ![c] = x]
  /\ lock' = [lock EXCEPT ![call[c].key] = file]
  /\ store' = store

Leads(c, x) ==
  \/ x.pc \notin Leading
  \/ isLeading(c) /\ x.key = call[c].key
  \/ \A d \in Calls \ {c} : processOf[d] = processOf[c] /\ isLeading(d) => call[d].key # x.key

\* The lock file stays, or the call that leads creates, fills or removes it.
Locks(c, x, file) ==
  /\ file \in LockFile
  /\ \/ file = lock[call[c].key]
     \/ isLeading(c) /\ file.state = "none"
     \/ isLeading(c) /\ file.owner = c /\ x.pc \in Holding /\ x.key = call[c].key
  /\ call[c].pc \notin Ended
  /\ call[c].pc \in Holding => x.pc \in Ended \/ (x.pc \in Holding /\ x.key = call[c].key)

LEMMA MoveIsTyped ==
  ASSUME Typed, NEW c \in Calls, NEW x, NEW file, Moves(c, x, file), file \in LockFile,
         IsCall(issued', x), AuthOK', issued <= issued',
         DOMAIN pending' = Processes, pending' = [p \in Processes |-> pending'[p]],
         \A p \in Processes : pending'[p] = None \/ IsStore(issued', pending'[p])
  PROVE  Typed'
<1>1. issued \in Nat /\ issued' \in Nat
  BY BoundsAssumption DEF Typed, AuthOK
<1>2. IsStore(issued', store')
  BY <1>1, IssuedGrows DEF Typed, Moves
<1>3. lock' \in [Fingerprint -> LockFile]
  BY DEF Typed, Moves
<1>4. call' \in [Calls -> CallRecord]
  BY DEF Typed, Moves, IsCall
<1>5. \A d \in Calls : IsCall(issued', call'[d])
  BY <1>1, IssuedGrows DEF Typed, Moves
<1>6. QED
  BY <1>2, <1>3, <1>4, <1>5 DEF Typed

LEMMA MoveKeepsLeaders ==
  ASSUME Typed, OneLeaderPerGrant, FetchesItsGrant, NEW c \in Calls, NEW x, NEW file,
         Moves(c, x, file), Leads(c, x), x.pc = "fetching" => grant(x.cred) = x.key
  PROVE  OneLeaderPerGrant' /\ FetchesItsGrant'
<1>1. \A d \in Calls : call'[d] = IF d = c THEN x ELSE call[d]
  BY DEF Moves, Typed
<1>2. FetchesItsGrant'
  BY <1>1 DEF FetchesItsGrant
<1>3. ASSUME NEW d \in Calls, NEW e \in Calls, isLeading(d)', isLeading(e)',
             processOf[d] = processOf[e], call'[d].key = call'[e].key, d # e
      PROVE  FALSE
  <2>1. CASE d # c /\ e # c
    BY <1>1, <1>3, <2>1 DEF OneLeaderPerGrant, isLeading
  <2>2. CASE d = c
    BY <1>1, <1>3, <2>2 DEF OneLeaderPerGrant, isLeading, Leads
  <2>3. CASE e = c
    BY <1>1, <1>3, <2>3 DEF OneLeaderPerGrant, isLeading, Leads
  <2>4. QED
    BY <2>1, <2>2, <2>3
<1>4. OneLeaderPerGrant'
  BY <1>3 DEF OneLeaderPerGrant
<1>5. QED
  BY <1>2, <1>4

LEMMA MoveKeepsLocks ==
  ASSUME Typed, OneLeaderPerGrant, Alone, LocksHaveOwners, WaitsForOne,
         NEW c \in Calls, NEW x, NEW file, Moves(c, x, file), Locks(c, x, file),
         WaitsFor(x, lock'[x.key])
  PROVE  LocksHaveOwners' /\ WaitsForOne'
<1>1. \A d \in Calls : call'[d] = IF d = c THEN x ELSE call[d]
  BY DEF Moves, Typed
<1>2. \A d \in Calls : call[d].key \in Fingerprint
  BY DEF Typed, CallRecord
<1>3. \A key \in Fingerprint : lock'[key] = IF key = call[c].key THEN file ELSE lock[key]
  BY <1>2 DEF Moves, Typed
<1>4. LocksHaveOwners'
  <2> SUFFICES ASSUME NEW key \in Fingerprint, lock'[key].state # "none"
               PROVE  /\ lock'[key].owner \in Calls
                      /\ \/ call'[lock'[key].owner].pc \in Holding /\ call'[lock'[key].owner].key = key
                         \/ call'[lock'[key].owner].pc \in Ended
    BY DEF LocksHaveOwners
  <2>1. CASE lock'[key] = lock[key]
    BY <1>1, <2>1 DEF LocksHaveOwners, Locks
  <2>2. CASE lock'[key] # lock[key]
    BY <1>1, <1>3, <2>2 DEF Locks
  <2>3. QED
    BY <2>1, <2>2
<1>5. ASSUME NEW d \in Calls, d # c
      PROVE  WaitsFor(call'[d], lock'[call'[d].key])
  <2>1. call'[d] = call[d] /\ WaitsFor(call[d], lock[call[d].key])
    BY <1>1, <1>5 DEF WaitsForOne
  <2>2. processOf[d] = processOf[c]
    BY ProcessesAssumption DEF Alone
  <2>3. CASE lock'[call[d].key] = lock[call[d].key]
    BY <2>1, <2>3
  <2>4. CASE lock'[call[d].key] # lock[call[d].key]
    <3>1. isLeading(c) /\ call[d].key = call[c].key
      BY <1>2, <1>3, <2>4 DEF Locks
    <3>2. call[d].pc \notin Waiting
      BY <1>5, <2>2, <3>1 DEF OneLeaderPerGrant, isLeading, Waiting, Leading, Running
    <3>3. QED
      BY <2>1, <3>2 DEF WaitsFor, Waiting
  <2>5. QED
    BY <2>3, <2>4
<1>6. WaitsForOne'
  BY <1>1, <1>5 DEF WaitsForOne
<1>7. QED
  BY <1>4, <1>6

LEMMA MoveKeepsResults ==
  ASSUME Typed, Alone, ResultsAreStored, NEW c \in Calls, NEW x, NEW file,
         Moves(c, x, file), Quiet(c) \/ pending' = pending,
         IsStored(x, view(processOf[c])')
  PROVE  ResultsAreStored'
<1>1. \A d \in Calls : call'[d] = IF d = c THEN x ELSE call[d]
  BY DEF Moves, Typed
<1>2. ASSUME NEW d \in Calls, d # c
      PROVE  IsStored(call'[d], view(processOf[d])')
  <2>1. call'[d] = call[d]
    BY <1>1, <1>2
  <2>2. CASE pending' = pending
    BY <2>1, <2>2 DEF ResultsAreStored, view, Moves
  <2>3. CASE Quiet(c)
    <3>1. processOf[d] = processOf[c]
      BY ProcessesAssumption DEF Alone
    <3>2. call[d].pc # "releasing"
      BY <1>2, <2>3, <3>1 DEF Quiet, isFree, Running
    <3>3. QED
      BY <2>1, <3>2 DEF IsStored
  <2>4. QED
    BY <2>2, <2>3
<1>3. QED
  BY <1>1, <1>2 DEF ResultsAreStored

LEMMA MoveKeepsInv ==
  ASSUME Inv, NEW c \in Calls, NEW x, NEW file,
         Moves(c, x, file), Leads(c, x), Locks(c, x, file),
         Quiet(c) \/ pending' = pending,
         IsCall(issued', x), AuthOK', issued <= issued',
         DOMAIN pending' = Processes, pending' = [p \in Processes |-> pending'[p]],
         \A p \in Processes : pending'[p] = None \/ IsStore(issued', pending'[p]),
         x.pc = "fetching" => grant(x.cred) = x.key,
         Alone => WaitsFor(x, lock'[x.key]),
         Alone => IsStored(x, view(processOf[c])')
  PROVE  Inv'
<1>1. Typed'
  BY MoveIsTyped DEF Inv, Locks
<1>2. OneLeaderPerGrant' /\ FetchesItsGrant'
  BY MoveKeepsLeaders DEF Inv
<1>3. ASSUME Alone PROVE LocksHaveOwners' /\ WaitsForOne'
  BY <1>3, MoveKeepsLocks DEF Inv
<1>4. ASSUME Alone PROVE ResultsAreStored'
  BY <1>4, MoveKeepsResults DEF Inv
<1>5. Alone' <=> Alone
  BY DEF Alone
<1>6. QED
  BY <1>1, <1>2, <1>3, <1>4, <1>5 DEF Inv

-----------------------------------------------------------------------------
(* The actions of a call *)

\* What stays when a step writes nothing and no token is issued.
LEMMA NothingWritten ==
  ASSUME Typed, UNCHANGED <<pending, auth, commands>>
  PROVE  /\ AuthOK' /\ issued <= issued' /\ issued' = issued /\ pending' = pending
         /\ DOMAIN pending' = Processes /\ pending' = [p \in Processes |-> pending'[p]]
         /\ \A p \in Processes : pending'[p] = None \/ IsStore(issued', pending'[p])
BY BoundsAssumption DEF Typed, AuthOK, auth

LEMMA StepWithoutWrite ==
  ASSUME Inv, NEW c \in Calls, NEW x, NEW file,
         Moves(c, x, file), Leads(c, x), Locks(c, x, file),
         UNCHANGED <<pending, auth, commands>>,
         IsCall(issued, x), x.pc = "fetching" => grant(x.cred) = x.key,
         Alone => WaitsFor(x, lock'[x.key]),
         Alone => IsStored(x, view(processOf[c]))
  PROVE  Inv'
<1>1. view(processOf[c])' = view(processOf[c])
  BY DEF view, Moves
<1>2. Typed
  BY DEF Inv
<1>3. QED
  BY <1>1, <1>2, NothingWritten, MoveKeepsInv

\* A step that leaves the lock files alone.
LEMMA LockStays ==
  ASSUME Typed, NEW c \in Calls, NEW x, call' = [call EXCEPT ![c] = x],
         UNCHANGED <<store, lock>>
  PROVE  /\ Moves(c, x, lock[call[c].key]) /\ lock[call[c].key] \in LockFile
         /\ lock'[call[c].key] = lock[call[c].key]
<1>1. call[c].key \in Fingerprint
  BY DEF Typed, CallRecord
<1>2. QED
  BY <1>1 DEF Typed, Moves

LEMMA MayRunIsQuiet == \A c \in Calls : mayRun(processOf[c], c) => Quiet(c)
BY DEF mayRun, Quiet

LEMMA RunsIsQuiet == \A c \in Calls : \A pc : runs(c, pc) => Quiet(c)
BY MayRunIsQuiet DEF runs, Quiet

LEMMA ResumesIsQuiet == \A c \in Calls : resumes(c) => Quiet(c)
BY DEF resumes, Quiet

\* What a call is after it has entered getValidCodexToken.
LEMMA EnteredIsCall ==
  ASSUME Typed, NEW c \in Calls, NEW a \in Accounts, NEW x, x = entered(c, a)
  PROVE  /\ IsCall(issued, x)
         /\ x.pc \in {"failed", "answered", "joined", "opening"}
         /\ x.pc = "answered" => /\ x.account = a /\ x.cred = store[a].cred
                                 /\ x.generation = store[a].generation
         /\ x.pc \in {"joined", "opening"} => /\ x.key = grant(store[a].cred) /\ x.account = a
                                              /\ store[a].cred # None
         /\ x.pc = "joined" => /\ x.joined \in Calls \ {c} /\ processOf[x.joined] = processOf[c]
                               /\ isLeading(x.joined) /\ call[x.joined].key = x.key
         /\ x.pc = "opening" => /\ ~x.late /\ x.waitsFor = None
                                /\ \A d \in Calls \ {c} :
                                     processOf[d] = processOf[c] /\ isLeading(d)
                                       => call[d].key # x.key
<1> DEFINE r == store[a]
           key == refreshGrantFingerprint(a, r.cred)
           leaders == refreshLock(processOf[c], key) \ {c}
<1>1. 1 \in Accounts /\ <<0, 0>> \in Fingerprint
  BY BoundsAssumption DEF Accounts, Fingerprint
<1>2. r \in Record /\ (r.cred # None => r.cred \in Credential /\ isIssued(issued, r.cred))
  BY DEF Typed, IsStore, Record
<1>3. CASE r.cred = None
  <2>1. x = ended("failed")
    BY <1>3 DEF entered
  <2>2. issued \in Nat /\ "failed" \in Ended \ {"answered"}
    BY DEF Typed, AuthOK, Ended
  <2>3. QED
    BY <2>1, <2>2, EndedIsCall
<1>4. CASE r.cred # None
  <2>1. key = grant(r.cred) /\ key \in Fingerprint
    BY <1>2, <1>4, GrantIsFingerprint DEF Typed, refreshGrantFingerprint
  <2>2. CASE isFresh(r.cred)
    <3>1. x = [pc |-> "answered", account |-> a, key |-> <<0, 0>>, joined |-> None,
               waitsFor |-> None, late |-> FALSE, cred |-> r.cred, generation |-> r.generation]
      BY <1>4, <2>2 DEF entered, NotStarted
    <3>2. x \in CallRecord
      BY <1>1, <1>2, <1>4, <3>1 DEF CallRecord, Record, Ended
    <3>3. QED
      BY <1>2, <1>4, <3>1, <3>2 DEF IsCall
  <2>3. CASE ~isFresh(r.cred) /\ leaders # {}
    <3>1. PICK l \in leaders : l = CHOOSE k \in leaders : TRUE
      BY <2>3
    <3>2. x = [pc |-> "joined", account |-> a, key |-> key, joined |-> l,
               waitsFor |-> None, late |-> FALSE, cred |-> None, generation |-> 0]
      BY <1>4, <2>3, <3>1 DEF entered, NotStarted
    <3>3. /\ l \in Calls \ {c} /\ l # None /\ processOf[l] = processOf[c]
          /\ isLeading(l) /\ call[l].key = key
      BY <3>1, ProcessesAssumption DEF refreshLock, isLeading
    <3>4. x \in CallRecord
      BY <2>1, <3>2, <3>3 DEF CallRecord
    <3>5. /\ x.pc = "joined" /\ x.key = key /\ x.account = a /\ x.joined = l
          /\ x.joined # None /\ x.cred = None
      BY <3>2, <3>3
    <3>6. IsCall(issued, x)
      BY <3>4, <3>5 DEF IsCall
    <3>7. QED
      BY <1>4, <2>1, <3>3, <3>5, <3>6
  <2>4. CASE ~isFresh(r.cred) /\ leaders = {}
    <3>1. x = [pc |-> "opening", account |-> a, key |-> key, joined |-> None,
               waitsFor |-> None, late |-> FALSE, cred |-> None, generation |-> 0]
      BY <1>4, <2>4 DEF entered, NotStarted
    <3>2. x \in CallRecord
      BY <2>1, <3>1 DEF CallRecord, Leading, Running
    <3>3. \A d \in Calls \ {c} :
            processOf[d] = processOf[c] /\ isLeading(d) => call[d].key # key
      BY <2>4 DEF refreshLock, isLeading
    <3>4. IsCall(issued, x)
      BY <3>1, <3>2 DEF IsCall
    <3>5. QED
      BY <1>4, <2>1, <3>1, <3>3, <3>4
  <2>5. QED
    BY <2>2, <2>3, <2>4
<1>5. QED
  BY <1>3, <1>4

\* A call that is not leading enters.
LEMMA EntersKeepsInv ==
  ASSUME Inv, NEW c \in Calls, NEW a \in Accounts, call[c].pc \in {"idle", "joined"},
         call' = [call EXCEPT ![c] = entered(c, a)],
         UNCHANGED <<store, pending, lock, auth, commands>>
  PROVE  Inv'
<1>1. Typed
  BY DEF Inv
<1>2. PICK x : x = entered(c, a)
  OBVIOUS
<1>3. Moves(c, x, lock[call[c].key]) /\ lock[call[c].key] \in LockFile
  BY <1>1, <1>2, LockStays
<1>4. /\ IsCall(issued, x)
      /\ x.pc \in {"failed", "answered", "joined", "opening"}
      /\ x.pc = "opening" => /\ ~x.late /\ x.waitsFor = None
                             /\ \A d \in Calls \ {c} :
                                  processOf[d] = processOf[c] /\ isLeading(d)
                                    => call[d].key # x.key
  BY <1>1, <1>2, EnteredIsCall
<1>5. Leads(c, x)
  BY <1>4 DEF Leads, Leading, Running
<1>6. Locks(c, x, lock[call[c].key])
  BY <1>3 DEF Locks, Holding, Ended
<1>7. WaitsFor(x, lock'[x.key])
  BY <1>4 DEF WaitsFor, Waiting
<1>8. IsStored(x, view(processOf[c])) /\ x.pc # "fetching"
  BY <1>4 DEF IsStored
<1>9. QED
  BY <1>3, <1>4, <1>5, <1>6, <1>7, <1>8, StepWithoutWrite

LEMMA BeginKeepsInv ==
  ASSUME Inv, NEW c \in Calls, NEW a \in Accounts, Begin(c, a)
  PROVE  Inv'
BY EntersKeepsInv DEF Begin

LEMMA JoinedStartsAgainKeepsInv ==
  ASSUME Inv, NEW c \in Calls, JoinedStartsAgain(c)
  PROVE  Inv'
<1>1. call[c].account \in Accounts
  BY DEF Inv, Typed, CallRecord
<1>2. QED
  BY <1>1, EntersKeepsInv DEF JoinedStartsAgain, resumes, settled

\* A call that ends with an error, whatever it has done.
LEMMA EndsKeepsInv ==
  ASSUME Inv, NEW c \in Calls, call[c].pc \notin Ended, ends(c, "failed"), NEW file \in LockFile,
         file = lock[call[c].key] \/ (isLeading(c) /\ file.state = "none"),
         lock' = [lock EXCEPT ![call[c].key] = file],
         UNCHANGED <<store, pending, auth, commands>>
  PROVE  Inv'
<1>1. PICK x : x = ended("failed")
  OBVIOUS
<1>2. issued \in Nat /\ "failed" \in Ended \ {"answered"}
  BY DEF Inv, Typed, AuthOK, Ended
<1>3. IsCall(issued, x) /\ x.pc = "failed"
  BY <1>1, <1>2, EndedIsCall
<1>4. Moves(c, x, file)
  BY <1>1 DEF Moves, ends
<1>5. Leads(c, x) /\ Locks(c, x, file)
  BY <1>3 DEF Leads, Locks, Leading, Running, Ended
<1>6. WaitsFor(x, lock'[x.key]) /\ IsStored(x, view(processOf[c])) /\ x.pc # "fetching"
  BY <1>3 DEF WaitsFor, IsStored, Waiting
<1>7. QED
  BY <1>3, <1>4, <1>5, <1>6, StepWithoutWrite

LEMMA JoinedFailedKeepsInv ==
  ASSUME Inv, NEW c \in Calls, JoinedFailed(c)
  PROVE  Inv'
<1>1. call[c].pc \notin Ended
  BY DEF JoinedFailed, resumes, settled, Ended
<1>2. lock[call[c].key] \in LockFile /\ lock' = [lock EXCEPT ![call[c].key] = lock[call[c].key]]
  BY DEF Inv, Typed, CallRecord, JoinedFailed
<1>3. QED
  BY <1>1, <1>2, EndsKeepsInv DEF JoinedFailed

\* A call that waits for the lock file, or holds it, goes on.
LEMMA GotoKeepsInv ==
  ASSUME Inv, NEW c \in Calls, isLeading(c), NEW pc \in Leading \ {"sleeping", "fetching", "releasing"},
         goto(c, pc), call[c].pc \in Holding => pc \in Holding, NEW file \in LockFile,
         \/ file = lock[call[c].key]
         \/ file.state = "none"
         \/ file.owner = c /\ pc \in Holding,
         pc \in Waiting => call[c].pc \in Waiting,
         lock' = [lock EXCEPT ![call[c].key] = file],
         UNCHANGED <<store, pending, auth, commands>>
  PROVE  Inv'
<1>1. PICK x : x = [call[c] EXCEPT !.pc = pc]
  OBVIOUS
<1>2. IsCall(issued, call[c]) /\ call[c] \in CallRecord
  BY DEF Inv, Typed
<1>3. x \in CallRecord /\ x.pc = pc /\ x.key = call[c].key /\ x.cred = call[c].cred
      /\ x.late = call[c].late /\ x.waitsFor = call[c].waitsFor
  BY <1>1, <1>2 DEF CallRecord
<1>4. pc \notin {"fetching", "answered", "joined", "sleeping", "timedOut", "releasing"}
  BY DEF Leading, Running
<1>5. IsCall(issued, x)
  BY <1>2, <1>3, <1>4 DEF IsCall
<1>6. Moves(c, x, file)
  BY <1>1 DEF Moves, goto
<1>7. Leads(c, x)
  BY <1>3 DEF Leads
<1>8. Locks(c, x, file)
  BY <1>3 DEF Locks, isLeading, Leading, Running, Ended
<1>9. ASSUME Alone PROVE WaitsFor(x, lock'[x.key])
  <2>1. lock'[x.key] = file
    BY <1>2, <1>3 DEF Inv, Typed, CallRecord
  <2>2. WaitsFor(call[c], lock[call[c].key])
    BY <1>9 DEF Inv, WaitsForOne
  <2>3. CASE file = lock[call[c].key]
    BY <1>3, <1>4, <2>1, <2>2, <2>3 DEF WaitsFor
  <2>4. CASE file.state = "none" \/ pc \notin Waiting
    BY <1>3, <1>4, <2>1, <2>4 DEF WaitsFor
  <2>5. QED
    BY <2>3, <2>4 DEF Holding, Waiting
<1>10. IsStored(x, view(processOf[c]))
  BY <1>3, <1>4 DEF IsStored
<1>11. QED
  BY <1>3, <1>4, <1>5, <1>6, <1>7, <1>8, <1>9, <1>10, StepWithoutWrite

LEMMA LockFileOf ==
  ASSUME Typed, NEW c \in Calls
  PROVE  /\ lock[call[c].key] \in LockFile
         /\ lock = [lock EXCEPT ![call[c].key] = lock[call[c].key]]
BY DEF Typed, CallRecord

LEMMA OpenLockKeepsInv ==
  ASSUME Inv, NEW c \in Calls, OpenLock(c)
  PROVE  Inv'
<1>1. isLeading(c) /\ call[c].pc \in Waiting /\ call[c].pc \notin Holding
  BY DEF OpenLock, runs, isLeading, Leading, Running, Waiting, Holding
<1>2. lock[call[c].key] \in LockFile /\ lock = [lock EXCEPT ![call[c].key] = lock[call[c].key]]
  BY LockFileOf DEF Inv
<1>3. [owner |-> c, state |-> "empty"] \in LockFile
  BY DEF LockFile
<1>4. CASE lockOf(c).state = "none"
  <2>1. setLock(c, [owner |-> c, state |-> "empty"]) /\ goto(c, "writing")
    BY <1>4 DEF OpenLock
  <2>2. "writing" \in Leading \ {"sleeping", "fetching", "releasing"} /\ "writing" \in Holding
        /\ "writing" \notin Waiting
    BY DEF Leading, Running, Holding, Waiting
  <2>3. QED
    BY <1>1, <1>3, <2>1, <2>2, GotoKeepsInv DEF setLock, OpenLock
<1>5. CASE lockOf(c).state # "none"
  <2>1. goto(c, "checking") /\ UNCHANGED lock
    BY <1>5 DEF OpenLock
  <2>2. "checking" \in Leading \ {"sleeping", "fetching", "releasing"}
    BY DEF Leading, Running
  <2>3. lock' = [lock EXCEPT ![call[c].key] = lock[call[c].key]]
    BY <1>2, <2>1
  <2>4. QED
    BY <1>1, <1>2, <2>1, <2>2, <2>3, GotoKeepsInv DEF OpenLock
<1>6. QED
  BY <1>4, <1>5

LEMMA WriteLockKeepsInv ==
  ASSUME Inv, NEW c \in Calls, WriteLock(c)
  PROVE  Inv'
<1>1. isLeading(c)
  BY DEF WriteLock, runs, isLeading, Leading, Running
<1>2. lock[call[c].key] \in LockFile /\ lock = [lock EXCEPT ![call[c].key] = lock[call[c].key]]
  BY LockFileOf DEF Inv
<1>3. [owner |-> c, state |-> "fresh"] \in LockFile
  BY DEF LockFile
<1>4. "locked" \in Leading \ {"sleeping", "fetching", "releasing"} /\ "locked" \in Holding
      /\ "locked" \notin Waiting
  BY DEF Leading, Running, Holding, Waiting
<1>5. PICK file \in LockFile :
        /\ lock' = [lock EXCEPT ![call[c].key] = file]
        /\ file = lock[call[c].key] \/ file.owner = c
  BY <1>2, <1>3 DEF WriteLock, setLock
<1>6. QED
  BY <1>1, <1>4, <1>5, GotoKeepsInv DEF WriteLock

LEMMA UnlinkStaleKeepsInv ==
  ASSUME Inv, NEW c \in Calls, UnlinkStale(c)
  PROVE  Inv'
<1>1. isLeading(c) /\ call[c].pc \in Waiting /\ call[c].pc \notin Holding
  BY DEF UnlinkStale, runs, isLeading, Leading, Running, Waiting, Holding
<1>2. NoLock \in LockFile /\ NoLock.state = "none"
  BY DEF LockFile, NoLock
<1>3. "opening" \in Leading \ {"sleeping", "fetching", "releasing"}
  BY DEF Leading, Running
<1>4. QED
  BY <1>1, <1>2, <1>3, GotoKeepsInv DEF UnlinkStale, setLock

LEMMA WakeKeepsInv ==
  ASSUME Inv, NEW c \in Calls, Wake(c)
  PROVE  Inv'
<1>1. isLeading(c) /\ call[c].pc \in Waiting /\ call[c].pc \notin Holding
  BY DEF Wake, runs, isLeading, Leading, Running, Waiting, Holding
<1>2. lock[call[c].key] \in LockFile /\ lock = [lock EXCEPT ![call[c].key] = lock[call[c].key]]
  BY LockFileOf DEF Inv
<1>3. "opening" \in Leading \ {"sleeping", "fetching", "releasing"}
  BY DEF Leading, Running
<1>4. QED
  BY <1>1, <1>2, <1>3, GotoKeepsInv DEF Wake

\* The lock was found, or the time is over: the record of the call changes.
LEMMA WaitingKeepsInv ==
  ASSUME Inv, NEW c \in Calls, isLeading(c), call[c].pc \notin Holding, NEW x \in CallRecord,
         call' = [call EXCEPT ![c] = x], x.pc = "sleeping",
         x.key = call[c].key, x.cred = call[c].cred, x.joined = call[c].joined,
         Alone => WaitsFor(x, lock[x.key]),
         UNCHANGED <<store, pending, lock, auth, commands>>
  PROVE  Inv'
<1>1. Typed
  BY DEF Inv
<1>2. Moves(c, x, lock[call[c].key]) /\ lock[call[c].key] \in LockFile
  BY <1>1, LockStays
<1>3. IsCall(issued, x)
  BY <1>1 DEF Typed, IsCall
<1>4. Leads(c, x)
  BY DEF Leads
<1>5. Locks(c, x, lock[call[c].key])
  BY <1>2 DEF Locks, isLeading, Leading, Running, Ended
<1>6. IsStored(x, view(processOf[c])) /\ x.pc # "fetching"
  BY DEF IsStored
<1>7. Alone => WaitsFor(x, lock'[x.key])
  OBVIOUS
<1>8. QED
  BY <1>2, <1>3, <1>4, <1>5, <1>6, <1>7, StepWithoutWrite

LEMMA CheckLockKeepsInv ==
  ASSUME Inv, NEW c \in Calls, CheckLock(c)
  PROVE  Inv'
<1>1. isLeading(c) /\ call[c].pc = "checking" /\ call[c].pc \notin Holding
  BY DEF CheckLock, runs, isLeading, Leading, Running, Holding
<1>2. lock[call[c].key] \in LockFile /\ lock = [lock EXCEPT ![call[c].key] = lock[call[c].key]]
  BY LockFileOf DEF Inv
<1>3. CASE isRefreshLockStale(lockOf(c))
  <2>1. "unlinking" \in Leading \ {"sleeping", "fetching", "releasing"} /\ "checking" \in Waiting
    BY DEF Leading, Running, Waiting
  <2>2. QED
    BY <1>1, <1>2, <1>3, <2>1, GotoKeepsInv DEF CheckLock
<1>4. CASE ~isRefreshLockStale(lockOf(c)) /\ call[c].late
  <2>1. ends(c, "timedOut")
    BY <1>4 DEF CheckLock
  <2>2. ~Alone
    BY <1>1, <1>4 DEF Inv, WaitsForOne, WaitsFor, Waiting, isRefreshLockStale, lockOf
  <2>3. PICK x : x = ended("timedOut")
    OBVIOUS
  <2>4. issued \in Nat /\ "timedOut" \in Ended \ {"answered"}
    BY DEF Inv, Typed, AuthOK, Ended
  <2>5. IsCall(issued, x) /\ x.pc = "timedOut"
    BY <2>3, <2>4, EndedIsCall
  <2>6. Moves(c, x, lock[call[c].key])
    BY <1>2, <2>1, <2>3 DEF Moves, ends, CheckLock
  <2>7. Leads(c, x) /\ Locks(c, x, lock[call[c].key])
    BY <1>1, <1>2, <2>5 DEF Leads, Locks, Leading, Running, Ended, Holding
  <2>8. QED
    BY <2>2, <2>5, <2>6, <2>7, StepWithoutWrite DEF CheckLock
<1>5. CASE ~isRefreshLockStale(lockOf(c)) /\ ~call[c].late
  <2>1. PICK owner : owner = IF call[c].waitsFor = None THEN lockOf(c).owner ELSE call[c].waitsFor
    OBVIOUS
  <2>2. PICK x : x = [call[c] EXCEPT !.pc = "sleeping", !.waitsFor = owner]
    OBVIOUS
  <2>3. call[c] \in CallRecord /\ owner \in Calls \union {None}
    BY <1>2, <2>1 DEF Inv, Typed, CallRecord, lockOf, LockFile
  <2>4. /\ x \in CallRecord /\ x.pc = "sleeping" /\ x.waitsFor = owner /\ ~x.late
        /\ x.key = call[c].key /\ x.cred = call[c].cred /\ x.joined = call[c].joined
    BY <1>5, <2>2, <2>3 DEF CallRecord, Leading
  <2>5. call' = [call EXCEPT ![c] = x]
    BY <1>5, <2>1, <2>2 DEF CheckLock, Inv, Typed
  <2>6. ASSUME Alone PROVE WaitsFor(x, lock[x.key])
    <3>1. lockOf(c).owner \in Calls /\ lockOf(c).owner # None
      BY <1>5, <2>3, <2>6, ProcessesAssumption
         DEF Inv, LocksHaveOwners, isRefreshLockStale, lockOf, CallRecord
    <3>2. call[c].waitsFor # None /\ lockOf(c).state = "fresh" => lockOf(c).owner = call[c].waitsFor
      BY <1>1, <2>6 DEF Inv, WaitsForOne, WaitsFor, Waiting, lockOf
    <3>3. QED
      BY <2>1, <2>4, <3>1, <3>2 DEF WaitsFor, lockOf
  <2>7. QED
    BY <1>1, <2>4, <2>5, <2>6, WaitingKeepsInv DEF CheckLock
<1>6. QED
  BY <1>3, <1>4, <1>5

LEMMA DeadlinePassesKeepsInv ==
  ASSUME Inv, NEW c \in Calls, DeadlinePasses(c)
  PROVE  Inv'
<1>1. isLeading(c) /\ call[c].pc \notin Holding
  BY DEF DeadlinePasses, isLeading, Leading, Holding
<1>2. PICK x : x = [call[c] EXCEPT !.late = TRUE]
  OBVIOUS
<1>3. call[c] \in CallRecord
  BY DEF Inv, Typed
<1>4. /\ x \in CallRecord /\ x.pc = "sleeping" /\ x.waitsFor = call[c].waitsFor
      /\ x.key = call[c].key /\ x.cred = call[c].cred /\ x.joined = call[c].joined
  BY <1>2, <1>3 DEF CallRecord, DeadlinePasses
<1>5. call' = [call EXCEPT ![c] = x]
  BY <1>2 DEF DeadlinePasses, Inv, Typed
<1>6. ASSUME Alone PROVE WaitsFor(x, lock[x.key])
  <2>1. WaitsFor(call[c], lock[call[c].key])
    BY <1>6 DEF Inv, WaitsForOne
  <2>2. lock[call[c].key].state # "fresh"
    BY <2>1 DEF DeadlinePasses, WaitsFor, Waiting, lockOf
  <2>3. QED
    BY <1>4, <2>1, <2>2 DEF WaitsFor, DeadlinePasses
<1>7. QED
  BY <1>1, <1>4, <1>5, <1>6, WaitingKeepsInv DEF DeadlinePasses

\* The store a process is about to write has the record it writes.
LEMMA WriteIsStored ==
  ASSUME Typed, NEW p \in Processes, NEW a \in Accounts, NEW r \in Record,
         issued <= issued', issued' \in Nat, r.cred # None => isIssued(issued', r.cred),
         write(p, a, r), store' = store
  PROVE  /\ DOMAIN pending' = Processes /\ pending' = [q \in Processes |-> pending'[q]]
         /\ \A q \in Processes : pending'[q] = None \/ IsStore(issued', pending'[q])
         /\ view(p)' = [store EXCEPT ![a] = r] /\ view(p)'[a] = r
<1>1. issued \in Nat
  BY BoundsAssumption DEF Typed, AuthOK
<1>2. \A s : IsStore(issued, s) => IsStore(issued', s)
  BY <1>1, IssuedGrows
<1>3. IsStore(issued', [store EXCEPT ![a] = r])
  BY <1>2, RecordsFit DEF Typed
<1>4. \A q \in Processes :
        pending'[q] = IF q = p THEN [store EXCEPT ![a] = r] ELSE pending[q]
  BY DEF write, Typed
<1>5. DOMAIN pending' = Processes /\ pending' = [q \in Processes |-> pending'[q]]
  BY DEF write, Typed
<1>6. \A q \in Processes : pending'[q] = None \/ IsStore(issued', pending'[q])
  BY <1>2, <1>3, <1>4 DEF Typed
<1>7. [store EXCEPT ![a] = r] # None
  BY <1>3, NoneAssumption DEF IsStore
<1>8. view(p)' = [store EXCEPT ![a] = r]
  BY <1>4, <1>7 DEF view
<1>9. [store EXCEPT ![a] = r][a] = r
  BY DEF Typed, IsStore
<1>10. QED
  BY <1>5, <1>6, <1>8, <1>9

LEMMA SavedIsRecord ==
  ASSUME Typed, NEW a \in Accounts, NEW cred \in Credential
  PROVE  /\ saved(a, cred) \in Record /\ saved(a, cred).cred = cred
         /\ saved(a, cred).generation = store[a].generation + 1
         /\ store[a].generation \in Nat
BY DEF Typed, IsStore, saved, Record

\* The promise of the call settles; what it returns is in the store.
LEMMA SettlesKeepsInv ==
  ASSUME Inv, NEW c \in Calls, runs(c, "locked") \/ runs(c, "fetching"),
         NEW cred \in Credential \union {None}, NEW generation \in Nat,
         settles(c, cred, generation), UNCHANGED <<store, lock>>,
         AuthOK', issued <= issued', cred # None => isIssued(issued', cred),
         DOMAIN pending' = Processes, pending' = [p \in Processes |-> pending'[p]],
         \A p \in Processes : pending'[p] = None \/ IsStore(issued', pending'[p]),
         cred # None => /\ view(processOf[c])'[call[c].account].cred = cred
                        /\ view(processOf[c])'[call[c].account].generation = generation
  PROVE  Inv'
<1>1. isLeading(c) /\ call[c].pc \in Holding /\ Quiet(c)
  BY RunsIsQuiet DEF runs, isLeading, Leading, Running, Holding
<1>2. PICK x : x = [call[c] EXCEPT !.pc = "releasing", !.cred = cred, !.generation = generation]
  OBVIOUS
<1>3. call[c] \in CallRecord /\ Typed
  BY DEF Inv, Typed
<1>4. /\ x \in CallRecord /\ x.pc = "releasing" /\ x.key = call[c].key
      /\ x.account = call[c].account /\ x.cred = cred /\ x.generation = generation
  BY <1>2, <1>3 DEF CallRecord, Leading, Running
<1>5. call' = [call EXCEPT ![c] = x]
  BY <1>2, <1>3 DEF settles, Typed
<1>6. Moves(c, x, lock[call[c].key]) /\ lock[call[c].key] \in LockFile
  BY <1>3, <1>5, LockStays
<1>7. IsCall(issued', x)
  BY <1>4 DEF IsCall
<1>8. Leads(c, x)
  BY <1>1, <1>4 DEF Leads
<1>9. Locks(c, x, lock[call[c].key])
  BY <1>1, <1>4, <1>6 DEF Locks, Holding, Ended
<1>10. WaitsFor(x, lock'[x.key])
  BY <1>4 DEF WaitsFor, Waiting
<1>11. IsStored(x, view(processOf[c])')
  BY <1>4 DEF IsStored
<1>12. QED
  BY <1>1, <1>4, <1>6, <1>7, <1>8, <1>9, <1>10, <1>11, MoveKeepsInv

LEMMA RecordOf ==
  ASSUME Inv, NEW c \in Calls
  PROVE  /\ Typed /\ processOf[c] \in Processes /\ call[c] \in CallRecord
         /\ call[c].account \in Accounts /\ call[c].key \in Fingerprint
         /\ store[call[c].account] \in Record
         /\ store[call[c].account].generation \in Nat
         /\ store[call[c].account].cred # None =>
              /\ store[call[c].account].cred \in Credential
              /\ isIssued(issued, store[call[c].account].cred)
         /\ issued \in Nat
BY BoundsAssumption, ProcessesAssumption DEF Inv, Typed, CallRecord, IsStore, Record, AuthOK

LEMMA LockedConflictKeepsInv ==
  ASSUME Inv, NEW c \in Calls, LockedConflict(c)
  PROVE  Inv'
<1>1. Typed
  BY DEF Inv
<1>2. QED
  BY <1>1, NothingWritten, SettlesKeepsInv DEF LockedConflict

LEMMA FetchFailsKeepsInv ==
  ASSUME Inv, NEW c \in Calls, FetchFails(c)
  PROVE  Inv'
<1>1. Typed
  BY DEF Inv
<1>2. QED
  BY <1>1, NothingWritten, SettlesKeepsInv DEF FetchFails

LEMMA LockedFreshKeepsInv ==
  ASSUME Inv, NEW c \in Calls, LockedFresh(c)
  PROVE  Inv'
<1> DEFINE r == store[call[c].account]
<1>1. /\ Typed /\ r.generation \in Nat
      /\ r.cred \in Credential /\ isIssued(issued, r.cred)
  BY RecordOf DEF LockedFresh, isFreshRecord
<1>2. view(processOf[c])'[call[c].account] = r
  BY RunsIsQuiet DEF LockedFresh, Quiet, isFree, view
<1>3. QED
  BY <1>1, <1>2, NothingWritten, SettlesKeepsInv DEF LockedFresh

LEMMA LockedSharesKeepsInv ==
  ASSUME Inv, NEW c \in Calls, LockedShares(c)
  PROVE  Inv'
<1> DEFINE a == call[c].account
<1>1. Typed /\ a \in Accounts /\ processOf[c] \in Processes /\ issued \in Nat
  BY RecordOf
<1>2. PICK cred \in freshCredentialsForGrant(c) :
        write(processOf[c], a, saved(a, cred)) /\ settles(c, cred, store[a].generation + 1)
  BY DEF LockedShares
<1>3. cred \in Credential /\ isIssued(issued, cred)
  BY <1>1, <1>2 DEF freshCredentialsForGrant, Typed, IsStore, Record
<1>4. /\ saved(a, cred) \in Record /\ saved(a, cred).cred = cred
      /\ saved(a, cred).generation = store[a].generation + 1
      /\ store[a].generation \in Nat
  BY <1>1, <1>3, SavedIsRecord
<1>5. AuthOK' /\ issued' = issued /\ issued <= issued'
  BY <1>1 DEF LockedShares, Typed, AuthOK, auth
<1>6. PICK r \in Record : r = saved(a, cred)
  BY <1>4
<1>7. /\ DOMAIN pending' = Processes /\ pending' = [q \in Processes |-> pending'[q]]
      /\ \A q \in Processes : pending'[q] = None \/ IsStore(issued', pending'[q])
      /\ view(processOf[c])'[a] = r
  BY <1>1, <1>2, <1>3, <1>4, <1>5, <1>6, WriteIsStored DEF LockedShares
<1>8. runs(c, "locked")
  BY DEF LockedShares, needsExchange
<1>9. PICK generation \in Nat : generation = store[a].generation + 1
  BY <1>4
<1>10. QED
  BY <1>2, <1>3, <1>4, <1>5, <1>6, <1>7, <1>8, <1>9, SettlesKeepsInv DEF LockedShares

LEMMA LockedFetchesKeepsInv ==
  ASSUME Inv, NEW c \in Calls, LockedFetches(c)
  PROVE  Inv'
<1> DEFINE r == store[call[c].account]
<1>1. Typed /\ call[c] \in CallRecord /\ r.generation \in Nat
  BY RecordOf
<1>2. r.cred \in Credential /\ isIssued(issued, r.cred) /\ r.cred # None
  BY RecordOf DEF LockedFetches, needsExchange, holdsSameGrant
<1>3. grant(r.cred) = call[c].key
  BY DEF LockedFetches, needsExchange, holdsSameGrant, refreshGrantFingerprint
<1>4. isLeading(c) /\ call[c].pc \in Holding
  BY DEF LockedFetches, needsExchange, runs, isLeading, Leading, Running, Holding
<1>5. PICK x : x = [call[c] EXCEPT !.pc = "fetching", !.cred = r.cred, !.generation = r.generation]
  OBVIOUS
<1>6. x \in CallRecord /\ x.pc = "fetching" /\ x.key = call[c].key /\ x.cred = r.cred
  BY <1>1, <1>2, <1>5 DEF CallRecord, Leading
<1>7. call' = [call EXCEPT ![c] = x]
  BY <1>1, <1>5 DEF LockedFetches, Typed
<1>8. Moves(c, x, lock[call[c].key]) /\ lock[call[c].key] \in LockFile
  BY <1>1, <1>7, LockStays DEF LockedFetches
<1>9. IsCall(issued, x) /\ Leads(c, x)
  BY <1>2, <1>4, <1>6 DEF IsCall, Leads
<1>10. Locks(c, x, lock[call[c].key])
  BY <1>4, <1>6, <1>8 DEF Locks, Holding, Ended
<1>11. WaitsFor(x, lock'[x.key]) /\ IsStored(x, view(processOf[c]))
  BY <1>6 DEF WaitsFor, Waiting, IsStored
<1>12. QED
  BY <1>3, <1>6, <1>8, <1>9, <1>10, <1>11, StepWithoutWrite DEF LockedFetches

\* The token endpoint has issued a token.
LEMMA IssuesKeepsAuth ==
  ASSUME Inv, NEW c \in Calls, NEW rotates \in BOOLEAN,
         call[c].pc = "fetching", issues(call[c].cred, rotates), UNCHANGED commands
  PROVE  /\ AuthOK' /\ issued <= issued' /\ issued' \in Nat
         /\ renewed(call[c].cred, rotates) \in Credential
         /\ isIssued(issued', renewed(call[c].cred, rotates))
<1> DEFINE cred == call[c].cred
<1>1. AuthOK /\ cred \in Credential /\ isIssued(issued, cred)
  BY DEF Inv, Typed, IsCall, CallRecord
<1>2. grant(cred) \in Fingerprint
  BY <1>1, GrantIsFingerprint
<1>3. issued \in Nat /\ issued' = issued + 1 /\ issued < MaxIssued
  BY <1>1, BoundsAssumption DEF AuthOK, issues
<1>4. AuthOK'
  BY <1>1, <1>2, <1>3, BoundsAssumption DEF AuthOK, issues
<1>5. PICK r : r = IF rotates THEN cred.rotation + 1 ELSE cred.rotation
  OBVIOUS
<1>6. r \in Nat /\ r <= issued + 1 /\ cred.login \in Nat /\ cred.login <= issued
  BY <1>1, <1>3, <1>5 DEF isIssued, Credential
<1>7. renewed(cred, rotates) = [login |-> cred.login, token |-> issued + 1, rotation |-> r]
  BY <1>5 DEF renewed
<1>8. renewed(cred, rotates) \in Credential /\ isIssued(issued', renewed(cred, rotates))
  BY <1>3, <1>6, <1>7 DEF isIssued, Credential
<1>9. QED
  BY <1>3, <1>4, <1>8

\* No step of the call itself writes, though a token was issued.
LEMMA PendingStays ==
  ASSUME Typed, pending' = pending, issued' \in Nat, issued <= issued'
  PROVE  /\ DOMAIN pending' = Processes /\ pending' = [q \in Processes |-> pending'[q]]
         /\ \A q \in Processes : pending'[q] = None \/ IsStore(issued', pending'[q])
<1>1. issued \in Nat
  BY BoundsAssumption DEF Typed, AuthOK
<1>2. QED
  BY <1>1, IssuedGrows DEF Typed

LEMMA FetchIsLostKeepsInv ==
  ASSUME Inv, NEW c \in Calls, FetchIsLost(c)
  PROVE  Inv'
<1>1. Typed /\ call[c].pc = "fetching"
  BY DEF Inv, FetchIsLost, runs
<1>2. AuthOK' /\ issued <= issued' /\ issued' \in Nat
  BY <1>1, IssuesKeepsAuth DEF FetchIsLost
<1>3. QED
  BY <1>1, <1>2, PendingStays, SettlesKeepsInv DEF FetchIsLost

LEMMA FetchSucceedsKeepsInv ==
  ASSUME Inv, NEW c \in Calls, NEW rotates \in BOOLEAN, FetchSucceeds(c, rotates)
  PROVE  Inv'
<1> DEFINE a == call[c].account
<1>1. /\ Typed /\ call[c].pc = "fetching" /\ a \in Accounts /\ processOf[c] \in Processes
      /\ call[c].generation \in Nat
  BY RecordOf DEF FetchSucceeds, runs, CallRecord
<1>2. PICK cred : cred = renewed(call[c].cred, rotates)
  OBVIOUS
<1>3. /\ AuthOK' /\ issued <= issued' /\ issued' \in Nat
      /\ cred \in Credential /\ isIssued(issued', cred)
  BY <1>1, <1>2, IssuesKeepsAuth DEF FetchSucceeds
<1>4. CASE isGenerationLive(a, call[c].generation)
  <2>1. PICK r : r = saved(a, cred)
    OBVIOUS
  <2>2. r \in Record /\ r.cred = cred /\ r.generation = call[c].generation + 1
    BY <1>1, <1>3, <1>4, <2>1, SavedIsRecord DEF isGenerationLive
  <2>3. PICK generation \in Nat : generation = call[c].generation + 1
    BY <1>1
  <2>4. write(processOf[c], a, r) /\ settles(c, cred, generation)
    BY <1>2, <1>4, <2>1, <2>3 DEF FetchSucceeds, savedGeneration
  <2>5. /\ DOMAIN pending' = Processes /\ pending' = [q \in Processes |-> pending'[q]]
        /\ \A q \in Processes : pending'[q] = None \/ IsStore(issued', pending'[q])
        /\ view(processOf[c])'[a] = r
    BY <1>1, <1>3, <2>2, <2>4, WriteIsStored DEF FetchSucceeds
  <2>6. QED
    BY <1>3, <2>2, <2>3, <2>4, <2>5, SettlesKeepsInv DEF FetchSucceeds
<1>5. CASE ~isGenerationLive(a, call[c].generation)
  <2>1. settles(c, None, 0) /\ pending' = pending
    BY <1>5 DEF FetchSucceeds
  <2>2. QED
    BY <1>1, <1>3, <2>1, PendingStays, SettlesKeepsInv DEF FetchSucceeds
<1>6. QED
  BY <1>4, <1>5

\* What an answer is.
LEMMA AnswerIsCall ==
  ASSUME Inv, NEW c \in Calls, NEW cred \in Credential, isIssued(issued, cred), NEW g \in Nat,
         answers(c, cred, g)
  PROVE  \E x : /\ IsCall(issued, x) /\ x.pc = "answered" /\ x.cred = cred
                /\ x.account = call[c].account /\ x.generation = g
                /\ call' = [call EXCEPT ![c] = x]
<1>1. call[c].account \in Accounts /\ call[c].key \in Fingerprint
  BY RecordOf
<1>2. ended("answered") \in CallRecord /\ ended("answered").pc = "answered"
  BY EndedIsRecord DEF Ended
<1>3. PICK e : e = ended("answered")
  OBVIOUS
<1>4. PICK x : x = [e EXCEPT !.account = call[c].account, !.key = call[c].key,
                             !.cred = cred, !.generation = g]
  OBVIOUS
<1>5. x \in CallRecord /\ x.pc = "answered" /\ x.cred = cred
      /\ x.account = call[c].account /\ x.generation = g
  BY <1>1, <1>2, <1>3, <1>4 DEF CallRecord
<1>6. call' = [call EXCEPT ![c] = x]
  BY <1>3, <1>4 DEF answers
<1>7. QED
  BY <1>5, <1>6, NoneAssumption DEF IsCall

\* The result of the exchange is saved for the account that waited.
LEMMA JoinedSavesAnswers ==
  ASSUME Inv, NEW c \in Calls, JoinedSaves(c)
  PROVE  /\ \E x : /\ IsCall(issued, x) /\ x.pc = "answered" /\ call' = [call EXCEPT ![c] = x]
                   /\ view(processOf[c])'[x.account].cred = x.cred
                   /\ view(processOf[c])'[x.account].generation = x.generation
         /\ DOMAIN pending' = Processes /\ pending' = [q \in Processes |-> pending'[q]]
         /\ \A q \in Processes : pending'[q] = None \/ IsStore(issued', pending'[q])
<1> DEFINE a == call[c].account
<1>1. /\ Typed /\ a \in Accounts /\ processOf[c] \in Processes /\ issued \in Nat
      /\ store[a].generation \in Nat
  BY RecordOf
<1>2. call[c].pc = "joined" /\ call[call[c].joined].pc = "answered"
  BY DEF JoinedSaves, resumes, settled
<1>3. call[c].joined \in Calls
  BY <1>1, <1>2 DEF Typed, IsCall, CallRecord
<1>4. result(c) \in Credential /\ isIssued(issued, result(c))
  BY <1>1, <1>2, <1>3 DEF Typed, IsCall, CallRecord, result
<1>5. PICK cred \in Credential : cred = result(c)
  BY <1>4
<1>6. PICK g \in Nat : g = store[a].generation + 1
  BY <1>1
<1>7. answers(c, cred, g)
  BY <1>5, <1>6 DEF JoinedSaves
<1>8. PICK x : /\ IsCall(issued, x) /\ x.pc = "answered" /\ x.cred = cred
               /\ x.account = a /\ x.generation = g
               /\ call' = [call EXCEPT ![c] = x]
  BY <1>4, <1>5, <1>7, AnswerIsCall
<1>9. PICK r : r = saved(a, cred)
  OBVIOUS
<1>10. r \in Record /\ r.cred = cred /\ r.generation = g
  BY <1>1, <1>6, <1>9, SavedIsRecord
<1>11. issued' = issued /\ issued <= issued'
  BY <1>1 DEF JoinedSaves, auth
<1>12. /\ DOMAIN pending' = Processes /\ pending' = [q \in Processes |-> pending'[q]]
       /\ \A q \in Processes : pending'[q] = None \/ IsStore(issued', pending'[q])
       /\ view(processOf[c])'[a] = r
  BY <1>1, <1>4, <1>5, <1>9, <1>10, <1>11, WriteIsStored DEF JoinedSaves
<1>13. QED
  BY <1>8, <1>10, <1>12

LEMMA JoinedSavesKeepsInv ==
  ASSUME Inv, NEW c \in Calls, JoinedSaves(c)
  PROVE  Inv'
<1>1. Typed /\ issued \in Nat
  BY RecordOf
<1>2. call[c].pc = "joined" /\ Quiet(c)
  BY ResumesIsQuiet DEF JoinedSaves, resumes, settled
<1>3. PICK x : IsCall(issued, x) /\ x.pc = "answered" /\ call' = [call EXCEPT ![c] = x]
  BY JoinedSavesAnswers
<1>4. /\ DOMAIN pending' = Processes /\ pending' = [q \in Processes |-> pending'[q]]
      /\ \A q \in Processes : pending'[q] = None \/ IsStore(issued', pending'[q])
  BY JoinedSavesAnswers
<1>5. AuthOK' /\ issued' = issued /\ issued <= issued'
  BY <1>1 DEF JoinedSaves, Typed, AuthOK, auth
<1>6. Moves(c, x, lock[call[c].key]) /\ lock[call[c].key] \in LockFile
  BY <1>1, <1>3, LockStays DEF JoinedSaves
<1>7. Leads(c, x) /\ Locks(c, x, lock[call[c].key])
  BY <1>2, <1>3, <1>6 DEF Leads, Locks, Leading, Running, Holding, Ended
<1>8. WaitsFor(x, lock'[x.key]) /\ IsStored(x, view(processOf[c])') /\ x.pc # "fetching"
  BY <1>3 DEF WaitsFor, Waiting, IsStored
<1>9. IsCall(issued', x)
  BY <1>3, <1>5
<1>10. QED
  BY <1>2, <1>4, <1>5, <1>6, <1>7, <1>8, <1>9, MoveKeepsInv

LEMMA ReleaseKeepsInv ==
  ASSUME Inv, NEW c \in Calls, Release(c)
  PROVE  Inv'
<1>1. isLeading(c) /\ call[c].pc \notin Ended
  BY DEF Release, runs, isLeading, Leading, Running, Ended
<1>2. NoLock \in LockFile /\ NoLock.state = "none"
  BY DEF LockFile, NoLock
<1>3. lock' = [lock EXCEPT ![call[c].key] = NoLock]
  BY DEF Release, setLock
<1>4. CASE hasError(c)
  BY <1>1, <1>2, <1>3, <1>4, EndsKeepsInv DEF Release
<1>5. CASE ~hasError(c)
  <2>1. call[c].cred \in Credential /\ isIssued(issued, call[c].cred) /\ call[c].generation \in Nat
    BY <1>5 DEF Inv, Typed, IsCall, CallRecord, hasError
  <2>2. answers(c, call[c].cred, call[c].generation)
    BY <1>5 DEF Release
  <2>3. PICK x : IsCall(issued, x) /\ x.pc = "answered" /\ call' = [call EXCEPT ![c] = x]
    BY <2>1, <2>2, AnswerIsCall
  <2>4. Moves(c, x, NoLock)
    BY <1>3, <2>3 DEF Moves, Release
  <2>5. Leads(c, x) /\ Locks(c, x, NoLock)
    BY <1>1, <1>2, <2>3 DEF Leads, Locks, Leading, Running, Ended
  <2>6. WaitsFor(x, lock'[x.key]) /\ IsStored(x, view(processOf[c])) /\ x.pc # "fetching"
    BY <2>3 DEF WaitsFor, Waiting, IsStored
  <2>7. QED
    BY <2>3, <2>4, <2>5, <2>6, StepWithoutWrite DEF Release
<1>6. QED
  BY <1>4, <1>5

-----------------------------------------------------------------------------
(* The other actions *)

LEMMA PersistKeepsInv ==
  ASSUME Inv, NEW p \in Processes, Persist(p)
  PROVE  Inv'
<1>1. IsStore(issued', store')
  BY DEF Persist, Inv, Typed, auth
<1>2. \A q \in Processes : pending'[q] = IF q = p THEN None ELSE pending[q]
  BY DEF Persist, Inv, Typed
<1>3. Typed'
  BY <1>1, <1>2 DEF Persist, Inv, Typed, AuthOK, auth
<1>4. OneLeaderPerGrant' /\ FetchesItsGrant'
  BY DEF Persist, Inv, OneLeaderPerGrant, FetchesItsGrant, isLeading
<1>5. ASSUME Alone PROVE LocksHaveOwners' /\ WaitsForOne'
  BY <1>5 DEF Persist, Inv, LocksHaveOwners, WaitsForOne
<1>6. ASSUME Alone PROVE ResultsAreStored'
  <2>1. \A c \in Calls : view(processOf[c])' = view(processOf[c])
    BY <1>2, <1>6, ProcessesAssumption DEF Persist, Alone, view
  <2>2. QED
    BY <1>6, <2>1 DEF Persist, Inv, ResultsAreStored
<1>7. Alone' <=> Alone
  BY DEF Alone
<1>8. QED
  BY <1>3, <1>4, <1>5, <1>6, <1>7 DEF Inv

LEMMA CrashKeepsInv ==
  ASSUME Inv, NEW p \in Processes, Crash(p)
  PROVE  Inv'
<1> DEFINE dies(c) == processOf[c] = p /\ call[c].pc \in Leading \union {"joined"}
<1>1. PICK x : x = ended("crashed")
  OBVIOUS
<1>2. issued \in Nat /\ "crashed" \in Ended \ {"answered"}
  BY DEF Inv, Typed, AuthOK, Ended
<1>3. IsCall(issued, x) /\ x.pc = "crashed" /\ x \in CallRecord
  BY <1>1, <1>2, EndedIsCall DEF IsCall
<1>4. call' = [c \in Calls |-> IF dies(c) THEN x ELSE call[c]]
  BY <1>1 DEF Crash
<1>5. \A c \in Calls : call'[c] = IF dies(c) THEN x ELSE call[c]
  BY <1>4
<1>6. \A q \in Processes : pending'[q] = IF q = p THEN None ELSE pending[q]
  BY DEF Crash, Inv, Typed
<1>7. DOMAIN pending' = Processes /\ pending' = [q \in Processes |-> pending'[q]]
  BY DEF Crash, Inv, Typed
<1>8. AuthOK' /\ issued' = issued /\ store' = store /\ lock' = lock
  BY BoundsAssumption DEF Crash, Inv, Typed, AuthOK, auth, command
<1>9. Typed'
  <2>1. call' \in [Calls -> CallRecord]
    BY <1>3, <1>4 DEF Inv, Typed
  <2>2. \A c \in Calls : IsCall(issued', call'[c])
    BY <1>3, <1>5, <1>8 DEF Inv, Typed
  <2>3. \A q \in Processes : pending'[q] = None \/ IsStore(issued', pending'[q])
    BY <1>6, <1>8 DEF Inv, Typed
  <2>4. QED
    BY <1>7, <1>8, <2>1, <2>2, <2>3 DEF Inv, Typed
<1>10. OneLeaderPerGrant' /\ FetchesItsGrant'
  BY <1>3, <1>5 DEF Inv, OneLeaderPerGrant, FetchesItsGrant, isLeading, Leading, Running
<1>11. ASSUME Alone PROVE LocksHaveOwners' /\ WaitsForOne' /\ ResultsAreStored'
  <2>1. \A c \in Calls : processOf[c] = p
    BY <1>11, ProcessesAssumption DEF Alone
  <2>2. \A c \in Calls : call'[c].pc \notin Leading
    BY <1>3, <1>5, <2>1 DEF Leading, Running
  <2>3. LocksHaveOwners'
    BY <1>3, <1>5, <1>8, <1>11 DEF Inv, LocksHaveOwners, Ended
  <2>4. WaitsForOne'
    <3>1. \A c \in Calls : call'[c].pc # "timedOut"
      BY <1>3, <1>5, <1>11 DEF Inv, WaitsForOne, WaitsFor
    <3>2. QED
      BY <2>2, <3>1 DEF WaitsForOne, WaitsFor, Waiting, Leading, Running
  <2>5. ResultsAreStored'
    BY <2>2 DEF ResultsAreStored, IsStored, Leading, Running
  <2>6. QED
    BY <2>3, <2>4, <2>5
<1>12. Alone' <=> Alone
  BY DEF Alone
<1>13. QED
  BY <1>9, <1>10, <1>11, <1>12 DEF Inv

\* A login or a deletion, while no call is in the middle of something.
LEMMA CommandKeepsInv ==
  ASSUME Inv, NEW p \in Processes, NEW a \in Accounts, NEW r \in Record,
         mayRun(p, None), write(p, a, r), UNCHANGED <<store, lock, call>>,
         AuthOK', issued <= issued', r.cred # None => isIssued(issued', r.cred)
  PROVE  Inv'
<1>1. Typed /\ issued \in Nat /\ issued' \in Nat
  BY BoundsAssumption DEF Inv, Typed, AuthOK
<1>2. /\ DOMAIN pending' = Processes /\ pending' = [q \in Processes |-> pending'[q]]
      /\ \A q \in Processes : pending'[q] = None \/ IsStore(issued', pending'[q])
  BY <1>1, WriteIsStored
<1>3. IsStore(issued', store') /\ \A c \in Calls : IsCall(issued', call'[c])
  BY <1>1, IssuedGrows DEF Typed
<1>4. Typed'
  BY <1>1, <1>2, <1>3 DEF Typed
<1>5. OneLeaderPerGrant' /\ FetchesItsGrant'
  BY DEF Inv, OneLeaderPerGrant, FetchesItsGrant, isLeading
<1>6. ASSUME Alone PROVE LocksHaveOwners' /\ WaitsForOne'
  BY <1>6 DEF Inv, LocksHaveOwners, WaitsForOne
<1>7. ASSUME Alone PROVE ResultsAreStored'
  <2>1. \A c \in Calls : call[c].pc # "releasing"
    BY <1>7, ProcessesAssumption DEF Alone, mayRun, isFree, Running
  <2>2. QED
    BY <2>1 DEF ResultsAreStored, IsStored
<1>8. Alone' <=> Alone
  BY DEF Alone
<1>9. QED
  BY <1>4, <1>5, <1>6, <1>7, <1>8 DEF Inv

LEMMA LoginKeepsInv ==
  ASSUME Inv, NEW p \in Processes, NEW a \in Accounts, Login(p, a)
  PROVE  Inv'
<1>1. /\ Typed /\ issued \in Nat /\ issued' = issued + 1 /\ issued < MaxIssued
  BY BoundsAssumption DEF Inv, Typed, AuthOK, Login
<1>2. AuthOK' /\ issued <= issued'
  BY <1>1, BoundsAssumption DEF Typed, AuthOK, Login, command
<1>3. PICK cred : cred = [login |-> issued + 1, rotation |-> 0, token |-> issued + 1]
  OBVIOUS
<1>4. cred \in Credential /\ isIssued(issued', cred)
  BY <1>1, <1>3 DEF Credential, isIssued
<1>5. PICK r : r = saved(a, cred)
  OBVIOUS
<1>6. r \in Record /\ r.cred = cred
  BY <1>1, <1>4, <1>5, SavedIsRecord
<1>7. write(p, a, r)
  BY <1>3, <1>5 DEF Login
<1>8. QED
  BY <1>2, <1>4, <1>6, <1>7, CommandKeepsInv DEF Login

LEMMA DeleteAccountKeepsInv ==
  ASSUME Inv, NEW p \in Processes, NEW a \in Accounts, DeleteAccount(p, a)
  PROVE  Inv'
<1>1. AuthOK' /\ issued' = issued /\ issued \in Nat /\ issued <= issued'
  BY BoundsAssumption DEF Inv, Typed, AuthOK, DeleteAccount, command, auth
<1>2. PICK r : r = tombstone(a)
  OBVIOUS
<1>3. r \in Record /\ r.cred = None
  BY <1>1, <1>2 DEF Inv, Typed, IsStore, Record, tombstone
<1>4. QED
  BY <1>1, <1>2, <1>3, CommandKeepsInv DEF DeleteAccount

LEMMA LockGoesStaleKeepsInv ==
  ASSUME Inv, NEW key \in Fingerprint, LockGoesStale(key)
  PROVE  Inv'
<1>1. \A k \in Fingerprint :
        lock'[k] = IF k = key THEN [lock[k] EXCEPT !.state = "stale"] ELSE lock[k]
  BY DEF LockGoesStale, Inv, Typed
<1>2. lock[key] \in LockFile
  BY DEF Inv, Typed
<1>3. /\ lock'[key] \in LockFile /\ lock'[key].state = "stale"
      /\ lock'[key].owner = lock[key].owner /\ lock[key].state = "fresh"
  BY <1>1, <1>2 DEF LockFile, LockGoesStale
<1>4. lock' \in [Fingerprint -> LockFile]
  BY <1>1, <1>3 DEF LockGoesStale, Inv, Typed
<1>5. Typed'
  BY <1>4 DEF LockGoesStale, Inv, Typed, AuthOK, auth
<1>6. OneLeaderPerGrant' /\ FetchesItsGrant'
  BY DEF LockGoesStale, Inv, OneLeaderPerGrant, FetchesItsGrant, isLeading
<1>7. ASSUME Alone PROVE LocksHaveOwners' /\ WaitsForOne' /\ ResultsAreStored'
  <2>1. LocksHaveOwners'
    <3> SUFFICES ASSUME NEW k \in Fingerprint, lock'[k].state # "none"
                 PROVE  /\ lock'[k].owner \in Calls
                        /\ \/ call'[lock'[k].owner].pc \in Holding /\ call'[lock'[k].owner].key = k
                           \/ call'[lock'[k].owner].pc \in Ended
      BY DEF LocksHaveOwners
    <3>1. lock'[k].owner = lock[k].owner /\ lock[k].state # "none" /\ call' = call
      BY <1>1, <1>3 DEF LockGoesStale
    <3>2. QED
      BY <1>7, <3>1 DEF Inv, LocksHaveOwners
  <2>2. WaitsForOne'
    <3> SUFFICES ASSUME NEW c \in Calls PROVE WaitsFor(call[c], lock'[call[c].key])
      BY DEF WaitsForOne, LockGoesStale
    <3>1. WaitsFor(call[c], lock[call[c].key]) /\ call[c].key \in Fingerprint
      BY <1>7 DEF Inv, WaitsForOne, Typed, CallRecord
    <3>2. lock'[call[c].key] = lock[call[c].key] \/ lock'[call[c].key].state = "stale"
      BY <1>1, <1>3, <3>1
    <3>3. QED
      BY <3>1, <3>2 DEF WaitsFor
  <2>3. ResultsAreStored'
    BY <1>7 DEF Inv, ResultsAreStored, view, LockGoesStale
  <2>4. QED
    BY <2>1, <2>2, <2>3
<1>8. Alone' <=> Alone
  BY DEF Alone
<1>9. QED
  BY <1>5, <1>6, <1>7, <1>8 DEF Inv

\* Nothing but the clock, or nothing at all.
LEMMA IdleKeepsInv ==
  ASSUME Inv, UNCHANGED <<store, pending, lock, call, issued>>, AuthOK'
  PROVE  Inv'
<1>1. Typed'
  BY DEF Inv, Typed
<1>2. OneLeaderPerGrant' /\ FetchesItsGrant'
  BY DEF Inv, OneLeaderPerGrant, FetchesItsGrant, isLeading
<1>3. ASSUME Alone PROVE LocksHaveOwners' /\ WaitsForOne' /\ ResultsAreStored'
  BY <1>3 DEF Inv, LocksHaveOwners, WaitsForOne, ResultsAreStored, view
<1>4. Alone' <=> Alone
  BY DEF Alone
<1>5. QED
  BY <1>1, <1>2, <1>3, <1>4 DEF Inv

LEMMA InitIsInv == Init => Inv
<1> SUFFICES ASSUME Init PROVE Inv
  OBVIOUS
<1>1. PICK login \in [Accounts -> Accounts] :
        store = [a \in Accounts |->
          [generation |-> 1, deletedAt |-> 0,
           cred |-> [login |-> login[a], rotation |-> 0, token |-> login[a]]]]
  BY DEF Init
<1>2. \A a \in Accounts : login[a] \in Nat /\ login[a] <= issued
  <2>1. issued = NumAccounts
    BY DEF Init
  <2>2. QED
    BY <2>1, BoundsAssumption DEF Accounts
<1>3. IsStore(issued, store)
  <2>1. \A a \in Accounts : store[a] \in Record /\ isIssued(issued, store[a].cred)
    BY <1>1, <1>2, BoundsAssumption DEF Record, Credential, isIssued, Init
  <2>2. store = [a \in Accounts |-> store[a]] /\ DOMAIN store = Accounts
    BY <1>1
  <2>3. store \in [Accounts -> Record]
    BY <2>1, <2>2
  <2>4. QED
    BY <2>1, <2>3 DEF IsStore
<1>4. AuthOK
  BY BoundsAssumption DEF Init, AuthOK
<1>5. PICK x : x = NotStarted
  OBVIOUS
<1>6. 1 \in Accounts /\ <<0, 0>> \in Fingerprint
  BY BoundsAssumption DEF Accounts, Fingerprint
<1>7. x \in CallRecord /\ IsCall(issued, x) /\ x.pc = "idle"
  BY <1>5, <1>6 DEF NotStarted, CallRecord, IsCall
<1>8. \A c \in Calls : call[c] = x
  BY <1>5 DEF Init
<1>9. lock \in [Fingerprint -> LockFile] /\ \A key \in Fingerprint : lock[key].state = "none"
  BY DEF Init, LockFile, NoLock
<1>10. Typed
  BY <1>3, <1>4, <1>5, <1>7, <1>8, <1>9 DEF Init, Typed
<1>11. OneLeaderPerGrant /\ FetchesItsGrant
  BY <1>7, <1>8 DEF OneLeaderPerGrant, FetchesItsGrant, isLeading, Leading, Running
<1>12. LocksHaveOwners /\ WaitsForOne /\ ResultsAreStored
  BY <1>7, <1>8, <1>9
     DEF LocksHaveOwners, WaitsForOne, WaitsFor, Waiting, ResultsAreStored, IsStored
<1>13. QED
  BY <1>10, <1>11, <1>12 DEF Inv

LEMMA NextKeepsInv == Inv /\ [Next]_vars => Inv'
<1> SUFFICES ASSUME Inv, [Next]_vars PROVE Inv'
  OBVIOUS
<1>1. CASE \E c \in Calls, a \in Accounts : Begin(c, a)
  BY <1>1, BeginKeepsInv
<1>2. ASSUME NEW c \in Calls, CallStep(c) PROVE Inv'
  BY <1>2, JoinedFailedKeepsInv, JoinedSavesKeepsInv, JoinedStartsAgainKeepsInv,
     OpenLockKeepsInv, WriteLockKeepsInv, CheckLockKeepsInv, UnlinkStaleKeepsInv,
     WakeKeepsInv, LockedConflictKeepsInv, LockedFreshKeepsInv, LockedSharesKeepsInv,
     LockedFetchesKeepsInv, FetchSucceedsKeepsInv, FetchFailsKeepsInv,
     FetchIsLostKeepsInv, ReleaseKeepsInv DEF CallStep
<1>3. CASE \E c \in Calls : DeadlinePasses(c)
  BY <1>3, DeadlinePassesKeepsInv
<1>4. CASE \E p \in Processes : Persist(p) \/ Crash(p)
  BY <1>4, PersistKeepsInv, CrashKeepsInv
<1>5. CASE \E p \in Processes, a \in Accounts : Login(p, a) \/ DeleteAccount(p, a)
  BY <1>5, LoginKeepsInv, DeleteAccountKeepsInv
<1>6. CASE \E key \in Fingerprint : LockGoesStale(key)
  BY <1>6, LockGoesStaleKeepsInv
<1>7. CASE \E t \in 1..MaxIssued : TokenExpires(t)
  <2>1. AuthOK'
    BY <1>7 DEF TokenExpires, Inv, Typed, AuthOK
  <2>2. QED
    BY <1>7, <2>1, IdleKeepsInv DEF TokenExpires
<1>8. CASE UNCHANGED vars
  <2>1. AuthOK'
    BY <1>8 DEF vars, auth, Inv, Typed, AuthOK
  <2>2. QED
    BY <1>8, <2>1, IdleKeepsInv DEF vars, auth
<1>9. QED
  BY <1>1, <1>2, <1>3, <1>4, <1>5, <1>6, <1>7, <1>8 DEF Next

LEMMA Invariance == Spec => []Inv
<1>1. QED
  BY InitIsInv, NextKeepsInv, PTL DEF Spec

-----------------------------------------------------------------------------
(* Calls that run, and calls that wait *)

\* A process runs one call at a time.
OneRuns ==
  \A c, d \in Calls :
    processOf[c] = processOf[d] /\ call[c].pc \in Running /\ call[d].pc \in Running => c = d

\* A call waits for one of its process that leads, or has led, the same grant.
WaitersHaveLeaders ==
  \A c \in Calls : call[c].pc = "joined" =>
    LET l == call[c].joined IN
    /\ l \in Calls /\ processOf[l] = processOf[c]
    /\ call[l].pc \in Leading \union Ended
    /\ call[l].pc \in Leading \union {"answered"} => call[l].key = call[c].key

\* The waiters of one exchange resume before that of another one ends.
OneSettles ==
  \A c, d \in Calls :
    /\ processOf[c] = processOf[d]
    /\ call[c].pc = "joined" /\ call[call[c].joined].pc \in Running \union Ended
    /\ call[d].pc = "joined" /\ call[call[d].joined].pc \in Running \union Ended
    => call[c].joined = call[d].joined

Joins == OneRuns /\ WaitersHaveLeaders /\ OneSettles

\* The call becomes x by a step of its own, or because time passes.
Continues(c, x) ==
  /\ call' = [call EXCEPT ![c] = x]
  /\ x.pc \in Running => Quiet(c)
  /\ call[c].pc \in Leading \union Ended =>
       /\ x.pc \in Leading \union Ended
       /\ x.pc \in Leading \union {"answered"} => isLeading(c) /\ x.key = call[c].key
  /\ x.pc = "joined" =>
       /\ x.joined \in Calls \ {c} /\ processOf[x.joined] = processOf[c]
       /\ isLeading(x.joined) /\ call[x.joined].key = x.key /\ Quiet(c)
  /\ x.pc \in Running \union Ended =>
       call[c].pc \in {"idle", "joined"} \union Running \/ mayRun(processOf[c], c)

LEMMA ContinuesKeepsJoins ==
  ASSUME Typed, Joins, NEW c \in Calls, NEW x, Continues(c, x)
  PROVE  Joins'
<1>1. \A d \in Calls : call'[d] = IF d = c THEN x ELSE call[d]
  BY DEF Continues, Typed
<1>2. OneRuns'
  <2> SUFFICES ASSUME NEW d \in Calls, NEW e \in Calls, processOf[d] = processOf[e],
                      call'[d].pc \in Running, call'[e].pc \in Running, d # e
               PROVE  FALSE
    BY DEF OneRuns
  <2>1. CASE d # c /\ e # c
    BY <1>1, <2>1 DEF Joins, OneRuns
  <2>2. CASE d = c \/ e = c
    BY <1>1, <2>2 DEF Continues, Quiet, isFree
  <2>3. QED
    BY <2>1, <2>2
<1>3. WaitersHaveLeaders'
  <2> SUFFICES ASSUME NEW d \in Calls, call'[d].pc = "joined", NEW l, l = call'[d].joined
               PROVE  /\ l \in Calls /\ processOf[l] = processOf[d]
                      /\ call'[l].pc \in Leading \union Ended
                      /\ call'[l].pc \in Leading \union {"answered"} => call'[l].key = call'[d].key
    BY DEF WaitersHaveLeaders
  <2>1. CASE d = c
    BY <1>1, <2>1 DEF Continues, isLeading
  <2>2. CASE d # c /\ l # c
    BY <1>1, <2>2 DEF Joins, WaitersHaveLeaders
  <2>3. CASE d # c /\ l = c
    <3>1. call[d].pc = "joined" /\ call[d].joined = c /\ call'[d] = call[d] /\ call'[l] = x
      BY <1>1, <2>3
    <3>2. /\ processOf[c] = processOf[d] /\ call[c].pc \in Leading \union Ended
          /\ call[c].pc \in Leading \union {"answered"} => call[c].key = call[d].key
      BY <3>1 DEF Joins, WaitersHaveLeaders
    <3>3. QED
      BY <2>3, <3>1, <3>2 DEF Continues, isLeading
  <2>4. QED
    BY <2>1, <2>2, <2>3
<1>4. OneSettles'
  <2> DEFINE Settles(d) == call'[d].pc = "joined" /\ call'[call'[d].joined].pc \in Running \union Ended
  <2>1. ASSUME NEW d \in Calls, Settles(d)
        PROVE  d # c /\ call'[d] = call[d] /\ call[d].joined \in Calls
               /\ call[call[d].joined].pc \in Leading \union Ended
               /\ processOf[call[d].joined] = processOf[d]
    <3>1. CASE d = c
      <4>1. /\ x.joined \in Calls \ {c} /\ processOf[x.joined] = processOf[c]
            /\ isLeading(x.joined) /\ Quiet(c)
        BY <1>1, <2>1, <3>1 DEF Continues
      <4>2. call[x.joined].pc \in Leading /\ call[x.joined].pc \notin Running
            /\ call'[x.joined] = call[x.joined]
        BY <1>1, <4>1 DEF Quiet, isFree, isLeading
      <4>3. QED
        BY <1>1, <2>1, <3>1, <4>2 DEF Leading, Ended
    <3>2. CASE d # c
      BY <1>1, <2>1, <3>2 DEF Joins, WaitersHaveLeaders
    <3>3. QED
      BY <3>1, <3>2
  <2>2. ASSUME NEW d \in Calls, NEW e \in Calls, processOf[d] = processOf[e],
               Settles(d), Settles(e), call[d].joined = c, call[e].joined # c
        PROVE  FALSE
    <3>1. d # c /\ e # c /\ call'[d] = call[d] /\ call'[e] = call[e]
          /\ call[d].pc = "joined" /\ call[e].pc = "joined"
          /\ call[c].pc \in Leading \union Ended
          /\ x.pc \in Running \union Ended
          /\ call[e].joined \in Calls
          /\ call[call[e].joined].pc \in Running \union Ended
          /\ processOf[c] = processOf[e] /\ processOf[call[e].joined] = processOf[c]
      BY <1>1, <2>1, <2>2
    <3>2. CASE call[c].pc \in {"idle", "joined"} \union Running
      <4>1. call[c].pc \in Running
        BY <3>1, <3>2 DEF Leading, Running, Ended
      <4>2. QED
        BY <2>2, <3>1, <4>1 DEF Joins, OneSettles
    <3>3. CASE mayRun(processOf[c], c)
      BY <2>2, <3>1, <3>3 DEF mayRun, isFree, settled
    <3>4. QED
      BY <3>1, <3>2, <3>3 DEF Continues
  <2>3. ASSUME NEW d \in Calls, NEW e \in Calls, processOf[d] = processOf[e],
               Settles(d), Settles(e), call[d].joined # c, call[e].joined # c
        PROVE  call[d].joined = call[e].joined
    <3>1. call[d].pc = "joined" /\ call[e].pc = "joined"
          /\ call[call[d].joined].pc \in Running \union Ended
          /\ call[call[e].joined].pc \in Running \union Ended
      BY <1>1, <2>1, <2>3
    <3>2. QED
      BY <2>3, <3>1 DEF Joins, OneSettles
  <2>4. QED
    BY <2>1, <2>2, <2>3 DEF OneSettles
<1>5. QED
  BY <1>2, <1>3, <1>4 DEF Joins
-----------------------------------------------------------------------------
(* The steps of a call that write nothing and bring no new result *)

isAwaited(l) == \E c \in Calls : call[c].pc = "joined" /\ call[c].joined = l

hasResult(l) == call[l].pc \in {"releasing", "answered"} /\ call[l].cred # None

\* The call keeps its grant, or has entered with that of its record.
StaysBehind(c, x) ==
  x.pc \in Leading =>
    \/ isLeading(c) /\ x.key = call[c].key /\ x.account = call[c].account
    \/ /\ x.key = grant(store[x.account].cred) /\ store[x.account].cred # None
       /\ x.account \in Accounts /\ pending[processOf[c]] = None

\* The call goes on, waits, ends or answers with the result that it has.
Carries(c, x) ==
  /\ Continues(c, x)
  /\ UNCHANGED <<store, pending>>
  /\ x.pc # "fetching"
  /\ x.pc \in {"releasing", "answered"} /\ x.cred # None /\ isAwaited(c) =>
       hasResult(c) /\ x.cred = call[c].cred /\ x.key = call[c].key
  /\ StaysBehind(c, x)

LEMMA LeadersAreAwaited ==
  ASSUME Joins, NEW l \in Calls, isAwaited(l)
  PROVE  call[l].pc \in Leading \union Ended
BY DEF Joins, WaitersHaveLeaders, isAwaited

LEMMA EntersCarries ==
  ASSUME Inv, Joins, NEW c \in Calls, NEW a \in Accounts, call[c].pc \in {"idle", "joined"},
         call' = [call EXCEPT ![c] = entered(c, a)], UNCHANGED <<store, pending>>,
         Quiet(c), call[c].pc = "idle" => mayRun(processOf[c], c)
  PROVE  \E x : Carries(c, x)
<1>1. Typed
  BY DEF Inv
<1>2. PICK x : x = entered(c, a)
  OBVIOUS
<1>3. /\ x.pc \in {"failed", "answered", "joined", "opening"}
      /\ x.pc \in {"joined", "opening"} =>
           x.key = grant(store[a].cred) /\ x.account = a /\ store[a].cred # None
      /\ x.pc = "joined" => /\ x.joined \in Calls \ {c} /\ processOf[x.joined] = processOf[c]
                            /\ isLeading(x.joined) /\ call[x.joined].key = x.key
  BY <1>1, <1>2, EnteredIsCall
<1>4. call[c].pc \notin Leading \union Ended /\ ~isAwaited(c)
  BY LeadersAreAwaited DEF Leading, Running, Ended
<1>5. Continues(c, x)
  BY <1>2, <1>3, <1>4 DEF Continues
<1>6. pending[processOf[c]] = None
  BY DEF Quiet, isFree
<1>7. Carries(c, x)
  BY <1>3, <1>4, <1>5, <1>6 DEF Carries, StaysBehind, Leading, Running
<1>8. QED
  BY <1>7

LEMMA EndsCarries ==
  ASSUME Inv, NEW c \in Calls, NEW pc \in {"failed", "timedOut"}, ends(c, pc),
         UNCHANGED <<store, pending>>, call[c].pc \in Running \union {"joined"}
  PROVE  \E x : Carries(c, x)
<1>1. PICK x : x = ended(pc)
  OBVIOUS
<1>2. x.pc = pc
  BY <1>1, EndedIsRecord DEF Ended
<1>3. pc \in Ended /\ pc \notin Leading /\ pc \notin {"joined", "answered", "releasing", "fetching"}
  BY DEF Ended, Leading, Running
<1>4. Continues(c, x)
  BY <1>1, <1>2, <1>3 DEF Continues, ends, Leading
<1>5. Carries(c, x)
  BY <1>2, <1>3, <1>4 DEF Carries, StaysBehind
<1>6. QED
  BY <1>5

\* A call that leads goes on, waits or settles with an error.
LEMMA LeadsCarries ==
  ASSUME Inv, NEW c \in Calls, isLeading(c), UNCHANGED <<store, pending>>, NEW x,
         call' = [call EXCEPT ![c] = x], x.pc \in Leading \ {"fetching"},
         x.key = call[c].key, x.account = call[c].account, x.pc = "releasing" => x.cred = None,
         x.pc \in Running => Quiet(c) /\ (call[c].pc \in Running \/ mayRun(processOf[c], c))
  PROVE  Carries(c, x)
<1>1. x.pc \notin Ended /\ x.pc \notin {"joined", "answered"}
  BY DEF Ended, Leading, Running
<1>2. Continues(c, x)
  BY <1>1 DEF Continues
<1>3. QED
  BY <1>1, <1>2 DEF Carries, StaysBehind

LEMMA GotoCarries ==
  ASSUME Inv, NEW c \in Calls, NEW pc0 \in Leading, runs(c, pc0),
         NEW pc \in Running \ {"releasing"},
         goto(c, pc), UNCHANGED <<store, pending>>
  PROVE  \E x : Carries(c, x)
<1>1. PICK x : x = [call[c] EXCEPT !.pc = pc]
  OBVIOUS
<1>2. call[c] \in CallRecord
  BY RecordOf
<1>3. x.pc = pc /\ x.key = call[c].key /\ x.account = call[c].account
  BY <1>1, <1>2 DEF CallRecord
<1>4. isLeading(c) /\ Quiet(c) /\ (call[c].pc \in Running \/ mayRun(processOf[c], c))
  BY RunsIsQuiet DEF runs, isLeading
<1>5. pc \in Leading \ {"fetching", "releasing"}
  BY DEF Leading, Running
<1>6. call' = [call EXCEPT ![c] = x]
  BY <1>1 DEF goto
<1>7. Carries(c, x)
  BY <1>3, <1>4, <1>5, <1>6, LeadsCarries
<1>8. QED
  BY <1>7

LEMMA SettlesWithError ==
  ASSUME Inv, NEW c \in Calls, runs(c, "locked") \/ runs(c, "fetching"),
         settles(c, None, 0), UNCHANGED <<store, pending>>
  PROVE  \E x : Carries(c, x)
<1>1. PICK x : x = [call[c] EXCEPT !.pc = "releasing", !.cred = None, !.generation = 0]
  OBVIOUS
<1>2. call[c] \in CallRecord /\ Typed
  BY RecordOf
<1>3. x.pc = "releasing" /\ x.key = call[c].key /\ x.account = call[c].account /\ x.cred = None
  BY <1>1, <1>2 DEF CallRecord
<1>4. call' = [call EXCEPT ![c] = x]
  BY <1>1, <1>2 DEF settles, Typed
<1>5. isLeading(c) /\ Quiet(c) /\ (call[c].pc \in Running \/ mayRun(processOf[c], c))
  BY RunsIsQuiet DEF runs, isLeading, Leading, Running
<1>6. "releasing" \in Leading \ {"fetching"}
  BY DEF Leading, Running
<1>7. Carries(c, x)
  BY <1>3, <1>4, <1>5, <1>6, LeadsCarries
<1>8. QED
  BY <1>7

LEMMA CheckLockCarries ==
  ASSUME Inv, NEW c \in Calls, CheckLock(c)
  PROVE  \E x : Carries(c, x)
<1>1. runs(c, "checking") /\ call[c].pc = "checking" /\ call[c].pc \in Running
      /\ "checking" \in Leading /\ isLeading(c)
  BY DEF CheckLock, runs, Running, Leading, isLeading
<1>2. CASE goto(c, "unlinking")
  <2>1. "unlinking" \in Running \ {"releasing"}
    BY DEF Running
  <2>2. QED
    BY <1>1, <1>2, <2>1, GotoCarries DEF CheckLock
<1>3. CASE ends(c, "timedOut")
  BY <1>1, <1>3, EndsCarries DEF CheckLock
<1>4. CASE call' = [call EXCEPT ![c].pc = "sleeping", ![c].waitsFor =
              IF @ = None THEN lockOf(c).owner ELSE @]
  <2>1. PICK owner : owner = IF call[c].waitsFor = None THEN lockOf(c).owner ELSE call[c].waitsFor
    OBVIOUS
  <2>2. PICK x : x = [call[c] EXCEPT !.pc = "sleeping", !.waitsFor = owner]
    OBVIOUS
  <2>3. call[c] \in CallRecord /\ Typed
    BY RecordOf
  <2>4. x.pc = "sleeping" /\ x.key = call[c].key /\ x.account = call[c].account
    BY <2>2, <2>3 DEF CallRecord
  <2>5. call' = [call EXCEPT ![c] = x]
    BY <1>4, <2>1, <2>2, <2>3 DEF Typed
  <2>6. "sleeping" \in Leading \ {"fetching"} /\ "sleeping" \notin Running
    BY DEF Leading, Running
  <2>7. Carries(c, x)
    BY <1>1, <2>4, <2>5, <2>6, LeadsCarries DEF CheckLock
  <2>8. QED
    BY <2>7
<1>5. QED
  BY <1>2, <1>3, <1>4 DEF CheckLock

LEMMA DeadlinePassesCarries ==
  ASSUME Inv, NEW c \in Calls, DeadlinePasses(c)
  PROVE  \E x : Carries(c, x)
<1>1. PICK x : x = [call[c] EXCEPT !.late = TRUE]
  OBVIOUS
<1>2. call[c] \in CallRecord /\ Typed
  BY RecordOf
<1>3. x.pc = "sleeping" /\ x.key = call[c].key /\ x.account = call[c].account
  BY <1>1, <1>2 DEF CallRecord, DeadlinePasses
<1>4. call' = [call EXCEPT ![c] = x]
  BY <1>1, <1>2 DEF DeadlinePasses, Typed
<1>5. "sleeping" \in Leading \ {"fetching"} /\ "sleeping" \notin Running /\ isLeading(c)
  BY DEF Leading, Running, isLeading, DeadlinePasses
<1>6. Carries(c, x)
  BY <1>3, <1>4, <1>5, LeadsCarries DEF DeadlinePasses
<1>7. QED
  BY <1>6

LEMMA ReleaseCarries ==
  ASSUME Inv, NEW c \in Calls, Release(c)
  PROVE  \E x : Carries(c, x)
<1>1. runs(c, "releasing") /\ call[c].pc = "releasing" /\ call[c].pc \in Running /\ isLeading(c)
  BY DEF Release, runs, Running, Leading, isLeading
<1>2. CASE hasError(c)
  BY <1>1, <1>2, EndsCarries DEF Release
<1>3. CASE ~hasError(c)
  <2>1. PICK e : e = ended("answered")
    OBVIOUS
  <2>2. e \in CallRecord /\ e.pc = "answered"
    BY <2>1, EndedIsRecord DEF Ended
  <2>3. PICK x : x = [e EXCEPT !.account = call[c].account, !.key = call[c].key,
                               !.cred = call[c].cred, !.generation = call[c].generation]
    OBVIOUS
  <2>4. x.pc = "answered" /\ x.key = call[c].key /\ x.cred = call[c].cred
    BY <2>2, <2>3 DEF CallRecord
  <2>5. call' = [call EXCEPT ![c] = x]
    BY <1>3, <2>1, <2>3 DEF Release, answers
  <2>6. "answered" \in Ended /\ "answered" \notin Leading
    BY DEF Ended, Leading, Running
  <2>7. Continues(c, x)
    BY <1>1, <2>4, <2>5, <2>6 DEF Continues, Leading
  <2>8. Carries(c, x)
    BY <1>1, <1>3, <2>4, <2>6, <2>7 DEF Carries, StaysBehind, hasResult, hasError, Release
  <2>9. QED
    BY <2>8
<1>4. QED
  BY <1>2, <1>3
\* The steps of a call that write nothing and have no credential to give.
LEMMA StepCarries ==
  ASSUME Inv, Joins, NEW c \in Calls,
         \/ \E a \in Accounts : Begin(c, a)
         \/ JoinedFailed(c) \/ JoinedStartsAgain(c)
         \/ OpenLock(c) \/ WriteLock(c) \/ CheckLock(c) \/ UnlinkStale(c) \/ Wake(c)
         \/ LockedConflict(c) \/ FetchFails(c) \/ FetchIsLost(c) \/ Release(c)
         \/ DeadlinePasses(c)
         \/ \E rotates \in BOOLEAN :
              FetchSucceeds(c, rotates) /\ ~isGenerationLive(call[c].account, call[c].generation)
  PROVE  \E x : Carries(c, x)
<1>1. ASSUME NEW a \in Accounts, Begin(c, a) PROVE \E x : Carries(c, x)
  BY <1>1, MayRunIsQuiet, EntersCarries DEF Begin
<1>2. CASE JoinedStartsAgain(c)
  <2>1. call[c].account \in Accounts /\ call[c].pc = "joined" /\ Quiet(c)
    BY <1>2, RecordOf, ResumesIsQuiet DEF JoinedStartsAgain, resumes, settled
  <2>2. QED
    BY <1>2, <2>1, EntersCarries DEF JoinedStartsAgain
<1>3. CASE JoinedFailed(c)
  BY <1>3, EndsCarries DEF JoinedFailed, resumes, settled
<1>4. CASE OpenLock(c) \/ WriteLock(c) \/ UnlinkStale(c) \/ Wake(c)
  <2>1. {"opening", "writing", "unlinking", "sleeping"} \subseteq Leading
        /\ {"writing", "checking", "locked", "opening"} \subseteq Running \ {"releasing"}
    BY DEF Leading, Running
  <2>2. QED
    BY <1>4, <2>1, GotoCarries DEF OpenLock, WriteLock, UnlinkStale, Wake
<1>5. CASE \/ LockedConflict(c) \/ FetchFails(c) \/ FetchIsLost(c)
           \/ \E rotates \in BOOLEAN :
                FetchSucceeds(c, rotates) /\ ~isGenerationLive(call[c].account, call[c].generation)
  BY <1>5, SettlesWithError DEF LockedConflict, FetchFails, FetchIsLost, FetchSucceeds
<1>6. QED
  BY <1>1, <1>2, <1>3, <1>4, <1>5, CheckLockCarries, ReleaseCarries, DeadlinePassesCarries

-----------------------------------------------------------------------------
(* The steps of a call that have a credential *)

\* The promise of the call settles.
LEMMA SettlesContinues ==
  ASSUME Inv, NEW c \in Calls, runs(c, "locked") \/ runs(c, "fetching"), NEW cred, NEW g,
         settles(c, cred, g)
  PROVE  \E x : /\ Continues(c, x) /\ isLeading(c) /\ Quiet(c)
                /\ x.pc = "releasing" /\ x.cred = cred /\ x.generation = g
                /\ x.key = call[c].key /\ x.account = call[c].account
<1>1. PICK x : x = [call[c] EXCEPT !.pc = "releasing", !.cred = cred, !.generation = g]
  OBVIOUS
<1>2. call[c] \in CallRecord /\ Typed
  BY RecordOf
<1>3. /\ x.pc = "releasing" /\ x.cred = cred /\ x.generation = g
      /\ x.key = call[c].key /\ x.account = call[c].account
  BY <1>1, <1>2 DEF CallRecord
<1>4. call' = [call EXCEPT ![c] = x]
  BY <1>1, <1>2 DEF settles, Typed
<1>5. isLeading(c) /\ Quiet(c) /\ (call[c].pc \in Running \/ mayRun(processOf[c], c))
  BY RunsIsQuiet DEF runs, isLeading, Leading, Running
<1>6. "releasing" \in Leading /\ "releasing" \notin Ended
  BY DEF Leading, Running, Ended
<1>7. Continues(c, x)
  BY <1>3, <1>4, <1>5, <1>6 DEF Continues
<1>8. QED
  BY <1>3, <1>5, <1>7

LEMMA LockedFetchesContinues ==
  ASSUME Inv, NEW c \in Calls, LockedFetches(c)
  PROVE  \E x : /\ Continues(c, x) /\ isLeading(c) /\ Quiet(c) /\ x.pc = "fetching"
                /\ x.cred = store[call[c].account].cred
                /\ x.generation = store[call[c].account].generation
                /\ x.key = call[c].key /\ x.account = call[c].account
<1> DEFINE r == store[call[c].account]
<1>1. PICK x : x = [call[c] EXCEPT !.pc = "fetching", !.cred = r.cred, !.generation = r.generation]
  OBVIOUS
<1>2. call[c] \in CallRecord /\ Typed
  BY RecordOf
<1>3. /\ x.pc = "fetching" /\ x.cred = r.cred /\ x.generation = r.generation
      /\ x.key = call[c].key /\ x.account = call[c].account
  BY <1>1, <1>2 DEF CallRecord
<1>4. call' = [call EXCEPT ![c] = x]
  BY <1>1, <1>2 DEF LockedFetches, Typed
<1>5. isLeading(c) /\ Quiet(c)
  BY RunsIsQuiet DEF LockedFetches, needsExchange, runs, isLeading, Leading, Running
<1>6. "fetching" \in Leading /\ "fetching" \notin Ended \union Running
  BY DEF Leading, Running, Ended
<1>7. Continues(c, x)
  BY <1>3, <1>4, <1>5, <1>6 DEF Continues
<1>8. QED
  BY <1>3, <1>5, <1>7

LEMMA JoinedSavesContinues ==
  ASSUME Inv, Joins, NEW c \in Calls, JoinedSaves(c)
  PROVE  /\ Quiet(c) /\ call[c].pc = "joined" /\ call[c].joined \in Calls
         /\ call[call[c].joined].key = call[c].key
         /\ hasResult(call[c].joined) /\ ~isAwaited(c)
         /\ \E x : Continues(c, x) /\ x.pc = "answered" /\ x.cred = result(c)
<1>1. /\ Typed /\ call[c].account \in Accounts /\ store[call[c].account].generation \in Nat
      /\ issued \in Nat
  BY RecordOf
<1>2. call[c].pc = "joined" /\ call[call[c].joined].pc = "answered" /\ Quiet(c)
  BY ResumesIsQuiet DEF JoinedSaves, resumes, settled
<1>3. /\ call[c].joined \in Calls /\ call[call[c].joined].key = call[c].key /\ ~isAwaited(c)
  BY <1>2, LeadersAreAwaited DEF Joins, WaitersHaveLeaders, Leading, Running, Ended
<1>4. result(c) \in Credential /\ isIssued(issued, result(c)) /\ result(c) # None
  BY <1>1, <1>2, <1>3 DEF Typed, IsCall, CallRecord, result
<1>5. PICK g \in Nat : g = store[call[c].account].generation + 1
  BY <1>1
<1>6. answers(c, result(c), g)
  BY <1>5 DEF JoinedSaves
<1>7. PICK x : x.pc = "answered" /\ x.cred = result(c) /\ call' = [call EXCEPT ![c] = x]
  BY <1>4, <1>6, AnswerIsCall
<1>8. Continues(c, x)
  BY <1>2, <1>7 DEF Continues, Leading, Running, Ended
<1>9. QED
  BY <1>2, <1>3, <1>4, <1>7, <1>8 DEF hasResult, result

LEMMA CallKeepsJoins ==
  ASSUME Inv, Joins, NEW c \in Calls,
         CallStep(c) \/ DeadlinePasses(c) \/ \E a \in Accounts : Begin(c, a)
  PROVE  Joins'
<1>1. Typed
  BY DEF Inv
<1>2. ASSUME NEW cred, NEW g, settles(c, cred, g), runs(c, "locked") \/ runs(c, "fetching")
      PROVE  Joins'
  BY <1>1, <1>2, SettlesContinues, ContinuesKeepsJoins
<1>3. CASE JoinedSaves(c)
  BY <1>1, <1>3, JoinedSavesContinues, ContinuesKeepsJoins
<1>4. CASE LockedFetches(c)
  BY <1>1, <1>4, LockedFetchesContinues, ContinuesKeepsJoins
<1>5. CASE LockedFresh(c) \/ LockedShares(c)
  BY <1>2, <1>5 DEF LockedFresh, LockedShares, needsExchange
<1>6. CASE \E rotates \in BOOLEAN : FetchSucceeds(c, rotates)
  BY <1>2, <1>6 DEF FetchSucceeds
<1>7. CASE \E x : Carries(c, x)
  BY <1>1, <1>7, ContinuesKeepsJoins DEF Carries
<1>8. QED
  BY <1>3, <1>4, <1>5, <1>6, <1>7, StepCarries DEF CallStep

LEMMA CrashKeepsJoins ==
  ASSUME Typed, Joins, NEW p \in Processes, Crash(p)
  PROVE  /\ Joins'
         /\ \A c \in Calls : processOf[c] = p => call'[c].pc \notin Leading \union {"joined"}
<1> DEFINE dies(c) == processOf[c] = p /\ call[c].pc \in Leading \union {"joined"}
<1>1. PICK x : x = ended("crashed")
  OBVIOUS
<1>2. x.pc = "crashed"
  BY <1>1, EndedIsRecord DEF Ended
<1>3. \A c \in Calls : call'[c] = IF dies(c) THEN x ELSE call[c]
  BY <1>1 DEF Crash
<1>4. "crashed" \in Ended /\ "crashed" \notin Leading \union {"joined"} \union Running
  BY DEF Ended, Leading, Running
<1>5. \A c \in Calls : processOf[c] = p => call'[c].pc \notin Leading \union {"joined"}
  BY <1>2, <1>3, <1>4
<1>6. \A c \in Calls : processOf[c] # p => call'[c] = call[c]
  BY <1>3
<1>7. \A c \in Calls : call'[c].pc \in Running \union {"joined"} =>
        processOf[c] # p /\ call'[c] = call[c]
  BY <1>5, <1>6 DEF Leading
<1>8. OneRuns'
  BY <1>7 DEF Joins, OneRuns
<1>9. \A c \in Calls : call'[c].pc = "joined" =>
        /\ call'[c] = call[c] /\ call[c].joined \in Calls
        /\ call'[call[c].joined] = call[call[c].joined]
  BY <1>6, <1>7 DEF Joins, WaitersHaveLeaders
<1>10. WaitersHaveLeaders'
  BY <1>9 DEF Joins, WaitersHaveLeaders
<1>11. OneSettles'
  BY <1>9 DEF Joins, OneSettles
<1>12. QED
  BY <1>5, <1>8, <1>10, <1>11 DEF Joins

LEMMA CallsKeepJoins ==
  ASSUME Joins, call' = call
  PROVE  Joins'
BY DEF Joins, OneRuns, WaitersHaveLeaders, OneSettles

LEMMA InitIsJoins == Init => Joins
<1> SUFFICES ASSUME Init PROVE Joins
  OBVIOUS
<1>1. \A c \in Calls : call[c].pc = "idle"
  BY DEF Init, NotStarted
<1>2. QED
  BY <1>1 DEF Joins, OneRuns, WaitersHaveLeaders, OneSettles, Running

LEMMA NextKeepsJoins == Inv /\ Joins /\ [Next]_vars => Joins'
<1> SUFFICES ASSUME Inv, Joins, [Next]_vars PROVE Joins'
  OBVIOUS
<1>1. Typed
  BY DEF Inv
<1>2. ASSUME NEW c \in Calls,
             CallStep(c) \/ DeadlinePasses(c) \/ \E a \in Accounts : Begin(c, a)
      PROVE  Joins'
  BY <1>2, CallKeepsJoins
<1>3. ASSUME NEW p \in Processes, Crash(p) PROVE Joins'
  BY <1>1, <1>3, CrashKeepsJoins
<1>4. CASE call' = call
  BY <1>4, CallsKeepJoins
<1>5. QED
  BY <1>2, <1>3, <1>4
     DEF Next, Persist, Login, DeleteAccount, LockGoesStale, TokenExpires, vars

LEMMA JoinsInvariance == Spec => [](Inv /\ Joins)
BY InitIsInv, NextKeepsInv, InitIsJoins, NextKeepsJoins, PTL DEF Spec
-----------------------------------------------------------------------------
(* The credentials that are known *)

isResult(l) == isAwaited(l) /\ hasResult(l)

Stored(s) == {s[a].cred : a \in Accounts} \ {None}

\* In the store, in what is about to be written, in the answer that a call
\* waits for or in the request of an exchange.
Known(p) ==
  Stored(store) \union Stored(view(p))
    \union {call[l].cred : l \in {m \in Calls : isResult(m)}}
    \union {call[l].cred : l \in {m \in Calls : call[m].pc = "fetching"}}

\* The rotations of a grant were spent one after the other, their tokens were
\* issued in that order, and a token that is still fresh is the last one.
Ordered(K) ==
  /\ \A x \in K : \A i \in Nat : i < x.rotation => <<x.login, i>> \in spent
  /\ \A x, y \in K : x.login = y.login /\ x.rotation < y.rotation => x.token < y.token
  /\ \A x, y \in K : grant(x) = grant(y) /\ isFresh(x) => y.token <= x.token

\* The endpoint issues tokens, time passes.
AuthGrows ==
  issued <= issued' /\ spent \subseteq spent' /\ \A t \in fresh' : t <= issued => t \in fresh

\* At most one credential is new: a login, or the next of its grant.
NewFits(K, N) ==
  /\ \A z, w \in N : z = w
  /\ \A z \in N :
       /\ z \in Credential /\ z.token > issued
       /\ \A i \in Nat : i < z.rotation => <<z.login, i>> \in spent'
       /\ \A y \in K : y.login = z.login =>
            y.rotation <= z.rotation /\ (grant(y) = grant(z) => ~isFresh(y))

AreIssued(K) == \A y \in K : y \in Credential /\ isIssued(issued, y)

LEMMA KnownAreIssued ==
  ASSUME Typed, NEW p \in Processes
  PROVE  AreIssued(Known(p))
<1>1. \A a \in Accounts : store[a].cred # None =>
        store[a].cred \in Credential /\ isIssued(issued, store[a].cred)
  BY DEF Typed, IsStore, Record
<1>2. \A a \in Accounts : view(p)[a].cred # None =>
        view(p)[a].cred \in Credential /\ isIssued(issued, view(p)[a].cred)
  BY <1>1 DEF Typed, IsStore, Record, view
<1>3. \A l \in Calls : hasResult(l) \/ call[l].pc = "fetching" =>
        call[l].cred \in Credential /\ isIssued(issued, call[l].cred)
  BY DEF Typed, IsCall, CallRecord, hasResult
<1>4. QED
  BY <1>1, <1>2, <1>3 DEF AreIssued, Known, Stored, isResult

LEMMA OrderedGrows ==
  ASSUME Typed, NEW K, NEW N, AreIssued(K), Ordered(K), AuthGrows, NewFits(K, N)
  PROVE  Ordered(K \union N)'
<1>1. issued \in Nat /\ spent \subseteq spent' /\ \A t \in fresh' : t <= issued => t \in fresh
  BY BoundsAssumption DEF Typed, AuthOK, AuthGrows
<1>2. \A y \in K : /\ y \in Credential /\ y.login \in Nat /\ y.rotation \in Nat /\ y.token \in Nat
                   /\ y.token <= issued
  BY DEF AreIssued, Credential, isIssued
<1>3. \A z \in N : /\ z \in Credential /\ z.login \in Nat /\ z.rotation \in Nat /\ z.token \in Nat
                   /\ z.token > issued
  BY DEF NewFits, Credential
<1>4. \A y \in K : isFresh(y)' => isFresh(y)
  BY <1>1, <1>2 DEF isFresh
<1>5. ASSUME NEW y \in K \union N, NEW i \in Nat, i < y.rotation
      PROVE  <<y.login, i>> \in spent'
  BY <1>1, <1>5 DEF Ordered, NewFits
<1>6. ASSUME NEW x \in K \union N, NEW y \in K \union N, x.login = y.login, x.rotation < y.rotation
      PROVE  x.token < y.token
  <2>1. CASE x \in K /\ y \in K
    BY <1>6, <2>1 DEF Ordered
  <2>2. CASE x \in K /\ y \in N
    BY <1>1, <1>2, <1>3, <2>2
  <2>3. CASE x \in N /\ y \in K
    <3>1. y.rotation <= x.rotation
      BY <1>6, <2>3 DEF NewFits
    <3>2. QED
      BY <1>2, <1>3, <1>6, <2>3, <3>1
  <2>4. CASE x \in N /\ y \in N
    <3>1. x = y
      BY <2>4 DEF NewFits
    <3>2. QED
      BY <1>3, <1>6, <2>4, <3>1
  <2>5. QED
    BY <2>1, <2>2, <2>3, <2>4
<1>7. ASSUME NEW x \in K \union N, NEW y \in K \union N, grant(x) = grant(y), isFresh(x)'
      PROVE  y.token <= x.token
  <2>1. CASE x \in K /\ y \in K
    BY <1>4, <1>7, <2>1 DEF Ordered
  <2>2. CASE x \in N /\ y \in K
    BY <1>1, <1>2, <1>3, <2>2
  <2>3. CASE x \in K /\ y \in N
    <3>1. x.login = y.login
      BY <1>7 DEF grant
    <3>2. QED
      BY <1>4, <1>7, <2>3, <3>1 DEF NewFits
  <2>4. CASE x \in N /\ y \in N
    <3>1. x = y
      BY <2>4 DEF NewFits
    <3>2. QED
      BY <1>3, <2>4, <3>1
  <2>5. QED
    BY <2>1, <2>2, <2>3, <2>4
<1>8. QED
  BY <1>5, <1>6, <1>7 DEF Ordered, grant

-----------------------------------------------------------------------------
(* No result is older than what it replaces *)

\* The credential z is of a newer login than y, or of the same one and newer.
ahead(z, y) ==
  z.login > y.login \/ (z.login = y.login /\ z.rotation >= y.rotation /\ z.token >= y.token)

\* The record is of the grant or of a newer one, or was deleted since.
isPast(key, r) ==
  IF r.cred = None THEN r.deletedAt >= key[1]
  ELSE r.cred.login > key[1] \/ (r.cred.login = key[1] /\ r.cred.rotation >= key[2])

\* The record of the call has moved on from the grant that the call leads; it
\* has the credential under exchange while the generation is the same.
IsBehind(n, x, s) ==
  /\ x.pc \in Leading => x.key[1] <= n /\ isPast(x.key, s[x.account])
  /\ x.pc = "fetching" =>
       /\ x.generation <= s[x.account].generation
       /\ s[x.account].cred # None /\ x.generation = s[x.account].generation
            => s[x.account].cred = x.cred

CallsAreBehind(p) == \A c \in Calls : IsBehind(issued, call[c], view(p))

isNewer(r, s) ==
  s.cred # None =>
    IF r.cred = None THEN s.cred.login > r.deletedAt ELSE ahead(s.cred, r.cred)

\* A write replaces no record by an older one.
WritesAreNewer(p) ==
  /\ \A a \in Accounts : store[a].deletedAt <= issued /\ view(p)[a].deletedAt <= issued
  /\ \A a \in Accounts : isNewer(store[a], view(p)[a])

\* A result is ahead of all that is known of the grant its waiters have, and
\* as long as it is fresh some record has it.
ResultFits(p, l) ==
  /\ \A y \in Known(p) : grant(y) = call[l].key => ahead(call[l].cred, y)
  /\ isFresh(call[l].cred) => call[l].cred \in Stored(view(p))

ResultsLead(p) == \A l \in Calls : isResult(l) => ResultFits(p, l)

\* A grant is exchanged only while no token of it is fresh.
FetchesAreDue(p) ==
  \A l \in Calls : call[l].pc = "fetching" =>
    \A y \in Known(p) : grant(y) = call[l].key => ~isFresh(y)

Late(p) ==
  /\ Ordered(Known(p))
  /\ ResultsLead(p)
  /\ FetchesAreDue(p)
  /\ CallsAreBehind(p)
  /\ WritesAreNewer(p)

\* The calls that have a result after the step, but the one that moves, had
\* it before.
LEMMA ResultsStay ==
  ASSUME Typed, Joins, NEW c \in Calls, NEW x, Continues(c, x), NEW l \in Calls, isResult(l)'
  PROVE  isAwaited(l) /\ (l # c => isResult(l) /\ call'[l] = call[l])
<1>1. \A d \in Calls : call'[d] = IF d = c THEN x ELSE call[d]
  BY DEF Continues, Typed
<1>2. PICK d \in Calls : call'[d].pc = "joined" /\ call'[d].joined = l
  BY DEF isResult, isAwaited
<1>3. CASE d # c
  BY <1>1, <1>2, <1>3 DEF isResult, isAwaited, hasResult
<1>4. CASE d = c
  <2>1. l # c /\ isLeading(l) /\ processOf[l] = processOf[c] /\ Quiet(c)
    BY <1>1, <1>2, <1>4 DEF Continues
  <2>2. call'[l] = call[l] /\ call[l].pc \in Leading /\ call[l].pc \notin Running
    BY <1>1, <2>1 DEF isLeading, Quiet, isFree
  <2>3. call[l].pc \in {"releasing", "answered"}
    BY <2>2 DEF isResult, hasResult
  <2>4. QED
    BY <2>2, <2>3 DEF Leading, Running
<1>5. QED
  BY <1>3, <1>4

LEMMA KnownMoves ==
  ASSUME Typed, Joins, NEW p \in Processes, NEW c \in Calls, NEW x, Continues(c, x), NEW K,
         Known(p) \subseteq K, Stored(store') \subseteq K, Stored(view(p)') \subseteq K,
         x.pc = "fetching" => x.cred \in K,
         x.pc \in {"releasing", "answered"} /\ x.cred # None /\ isAwaited(c) => x.cred \in K
  PROVE  Known(p)' \subseteq K
<1>1. \A d \in Calls : call'[d] = IF d = c THEN x ELSE call[d]
  BY DEF Continues, Typed
<1>2. ASSUME NEW l \in Calls, isResult(l)'
      PROVE  call'[l].cred \in K
  <2>1. isAwaited(l) /\ (l # c => isResult(l) /\ call'[l] = call[l])
    BY <1>2, ResultsStay
  <2>2. CASE l = c
    BY <1>1, <1>2, <2>1, <2>2 DEF isResult, hasResult
  <2>3. CASE l # c
    BY <2>1, <2>3 DEF Known
  <2>4. QED
    BY <2>2, <2>3
<1>3. ASSUME NEW l \in Calls, call'[l].pc = "fetching"
      PROVE  call'[l].cred \in K
  BY <1>1, <1>3 DEF Known
<1>4. QED
  BY <1>2, <1>3 DEF Known, Stored

LEMMA AheadIsReflexive ==
  ASSUME NEW z \in Credential
  PROVE  ahead(z, z)
BY DEF ahead, Credential

\* What a write must be: it deletes, logs in or brings a newer credential.
supersedes(n, r, s) ==
  /\ s.generation = r.generation + 1
  /\ s.deletedAt <= n
  /\ s.cred = None => s.deletedAt = n
  /\ isNewer(r, s)

LEMMA SupersedesIsPast ==
  ASSUME NEW n \in Nat, NEW r \in Record, NEW s \in Record, NEW key \in Fingerprint,
         key[1] <= n, isPast(key, r), supersedes(n, r, s)
  PROVE  isPast(key, s)
<1>1. key[1] \in Nat /\ key[2] \in Nat
  BY BoundsAssumption DEF Fingerprint
<1>2. r.deletedAt \in Nat /\ s.deletedAt \in Nat
  BY DEF Record
<1>3. s.cred # None => s.cred.login \in Nat /\ s.cred.rotation \in Nat
  BY DEF Record, Credential
<1>4. r.cred # None => r.cred.login \in Nat /\ r.cred.rotation \in Nat
  BY DEF Record, Credential
<1>5. CASE s.cred = None
  BY <1>5 DEF isPast, supersedes
<1>6. CASE s.cred # None /\ r.cred = None
  BY <1>1, <1>2, <1>3, <1>6 DEF isPast, supersedes, isNewer
<1>7. CASE s.cred # None /\ r.cred # None
  BY <1>1, <1>3, <1>4, <1>7 DEF isPast, supersedes, isNewer, ahead
<1>8. QED
  BY <1>5, <1>6, <1>7

\* Calls stay behind when nothing is written.
LEMMA BehindWithoutWrite ==
  ASSUME Alone, Inv, NEW p \in Processes, CallsAreBehind(p), WritesAreNewer(p),
         NEW c \in Calls, NEW x, call' = [call EXCEPT ![c] = x],
         UNCHANGED <<store, pending>>, issued <= issued', issued' \in Nat,
         StaysBehind(c, x),
         x.pc = "fetching" =>
           /\ x.generation = view(p)[x.account].generation /\ x.generation \in Nat
           /\ view(p)[x.account].cred = x.cred
  PROVE  CallsAreBehind(p)' /\ WritesAreNewer(p)'
<1>1. view(p)' = view(p) /\ store' = store
  BY DEF view
<1>2. Typed /\ issued \in Nat
  BY BoundsAssumption DEF Inv, Typed, AuthOK
<1>3. \A d \in Calls : call'[d] = IF d = c THEN x ELSE call[d]
  BY <1>2 DEF Typed
<1>4. \A d \in Calls : call[d].key[1] \in Nat /\ call[d].account \in Accounts
  BY <1>2, BoundsAssumption DEF Typed, CallRecord, Fingerprint
<1>5. ASSUME NEW d \in Calls, d # c
      PROVE  IsBehind(issued', call'[d], view(p)')
  BY <1>1, <1>2, <1>3, <1>4, <1>5 DEF CallsAreBehind, IsBehind
<1>6. ASSUME x.pc \in Leading
      PROVE  x.key[1] <= issued' /\ isPast(x.key, view(p)[x.account])
  <2>1. CASE isLeading(c) /\ x.key = call[c].key /\ x.account = call[c].account
    BY <1>2, <1>4, <2>1 DEF CallsAreBehind, IsBehind, isLeading
  <2>2. CASE /\ x.key = grant(store[x.account].cred) /\ store[x.account].cred # None
             /\ x.account \in Accounts /\ pending[processOf[c]] = None
    <3>1. view(p) = store
      BY <2>2, ProcessesAssumption DEF Alone, view
    <3>2. /\ store[x.account].cred \in Credential /\ isIssued(issued, store[x.account].cred)
      BY <1>2, <2>2 DEF Typed, IsStore, Record
    <3>3. QED
      BY <1>2, <2>2, <3>1, <3>2 DEF isPast, grant, Credential, isIssued
  <2>3. QED
    BY <1>6, <2>1, <2>2 DEF StaysBehind
<1>7. IsBehind(issued', x, view(p)')
  BY <1>1, <1>6 DEF IsBehind
<1>8. CallsAreBehind(p)'
  BY <1>3, <1>5, <1>7 DEF CallsAreBehind
<1>9. WritesAreNewer(p)'
  <2>1. \A a \in Accounts : store[a].deletedAt \in Nat /\ view(p)[a].deletedAt \in Nat
    BY <1>2 DEF Typed, IsStore, Record, view
  <2>2. QED
    BY <1>1, <1>2, <2>1 DEF WritesAreNewer
<1>10. QED
  BY <1>8, <1>9

\* They stay behind when a record is superseded.
LEMMA BehindAfterWrite ==
  ASSUME Alone, Inv, NEW p \in Processes, CallsAreBehind(p), WritesAreNewer(p),
         pending[p] = None, NEW a \in Accounts, NEW r \in Record, write(p, a, r), store' = store,
         issued <= issued', issued' \in Nat, r.cred # None => isIssued(issued', r.cred),
         supersedes(issued', store[a], r),
         \A c \in Calls : call'[c].pc \in Leading =>
           /\ isLeading(c) /\ call'[c].key = call[c].key /\ call'[c].account = call[c].account
           /\ call'[c].pc = "fetching" => call[c].pc = "fetching" /\ call'[c] = call[c]
  PROVE  /\ CallsAreBehind(p)' /\ WritesAreNewer(p)'
         /\ view(p) = store /\ view(p)' = [store EXCEPT ![a] = r]
         /\ Stored(view(p)') \subseteq Stored(store) \union ({r.cred} \ {None})
         /\ r.cred # None => r.cred \in Stored(view(p)')
<1>1. Typed /\ issued \in Nat
  BY BoundsAssumption DEF Inv, Typed, AuthOK
<1>2. view(p) = store /\ view(p)' = [store EXCEPT ![a] = r]
  BY <1>1, WriteIsStored DEF view
<1>3. \A b \in Accounts : view(p)'[b] = IF b = a THEN r ELSE store[b]
  BY <1>1, <1>2 DEF Typed, IsStore
<1>4. \A b \in Accounts :
        /\ store[b] \in Record /\ store[b].deletedAt \in Nat /\ store[b].generation \in Nat
        /\ store[b].cred # None => store[b].cred \in Credential
  BY <1>1 DEF Typed, IsStore, Record
<1>5. \A c \in Calls : /\ call[c].key \in Fingerprint /\ call[c].key[1] \in Nat
                       /\ call[c].account \in Accounts /\ call[c].generation \in Nat
  BY <1>1, BoundsAssumption DEF Typed, CallRecord, Fingerprint
<1>6. ASSUME NEW c \in Calls, call'[c].pc \in Leading
      PROVE  IsBehind(issued', call'[c], view(p)')
  <2> DEFINE b == call[c].account
  <2>1. call'[c].key = call[c].key /\ call'[c].account = b /\ call[c].pc \in Leading
    BY <1>6 DEF isLeading
  <2>2. /\ call[c].key[1] <= issued /\ isPast(call[c].key, store[b])
        /\ call[c].key[1] <= issued'
    BY <1>1, <1>2, <1>5, <2>1 DEF CallsAreBehind, IsBehind
  <2>3. isPast(call[c].key, view(p)'[b])
    <3>1. CASE b = a
      BY <1>3, <1>4, <1>5, <2>2, <3>1, SupersedesIsPast
    <3>2. CASE b # a
      BY <1>3, <1>5, <2>2, <3>2
    <3>3. QED
      BY <3>1, <3>2
  <2>4. ASSUME call'[c].pc = "fetching"
        PROVE  /\ call[c].generation <= view(p)'[b].generation
               /\ view(p)'[b].cred # None /\ call[c].generation = view(p)'[b].generation
                    => view(p)'[b].cred = call[c].cred
               /\ call'[c] = call[c]
    <3>1. /\ call[c].generation <= store[b].generation
          /\ store[b].cred # None /\ call[c].generation = store[b].generation
               => store[b].cred = call[c].cred
          /\ call'[c] = call[c]
      BY <1>2, <1>6, <2>4 DEF CallsAreBehind, IsBehind
    <3>2. CASE b = a
      <4>1. r.generation = store[b].generation + 1
        BY <3>2 DEF supersedes
      <4>2. QED
        BY <1>3, <1>4, <1>5, <3>1, <3>2, <4>1
    <3>3. CASE b # a
      BY <1>3, <1>5, <3>1, <3>3
    <3>4. QED
      BY <3>2, <3>3
  <2>5. QED
    BY <2>1, <2>2, <2>3, <2>4 DEF IsBehind
<1>7. CallsAreBehind(p)'
  <2>1. "fetching" \in Leading
    BY DEF Leading
  <2>2. \A c \in Calls : IsBehind(issued', call'[c], view(p)')
    BY <1>6, <2>1 DEF IsBehind
  <2>3. QED
    BY <2>2 DEF CallsAreBehind
<1>8. WritesAreNewer(p)'
  <2>1. \A b \in Accounts : store[b].deletedAt <= issued' /\ view(p)'[b].deletedAt <= issued'
    BY <1>1, <1>3, <1>4 DEF WritesAreNewer, supersedes
  <2>2. \A b \in Accounts : isNewer(store[b], view(p)'[b])
    BY <1>3, <1>4, AheadIsReflexive DEF isNewer, supersedes
  <2>3. QED
    BY <2>1, <2>2 DEF WritesAreNewer
<1>9. /\ Stored(view(p)') \subseteq Stored(store) \union ({r.cred} \ {None})
      /\ r.cred # None => r.cred \in Stored(view(p)')
  BY <1>3 DEF Stored
<1>10. QED
  BY <1>2, <1>7, <1>8, <1>9
\* What a step of a call must show to keep late results from winning.
LEMMA MoveKeepsLate ==
  ASSUME Inv, Joins, NEW p \in Processes, Late(p),
         NEW c \in Calls, NEW x, Continues(c, x), store' = store, AuthGrows,
         NEW N, NewFits(Known(p), N), Stored(view(p)') \subseteq Known(p) \union N,
         CallsAreBehind(p)', WritesAreNewer(p)',
         x.pc = "fetching" => /\ N = {} /\ x.cred \in Known(p)
                              /\ \A y \in Known(p) : grant(y) = x.key => ~isFresh(y),
         x.pc \in {"releasing", "answered"} /\ x.cred # None /\ isAwaited(c) =>
           \/ /\ hasResult(c) /\ N = {} /\ view(p)' = view(p)
              /\ x.cred = call[c].cred /\ x.key = call[c].key
           \/ /\ x.cred \in Known(p) \union N /\ x.cred \in Stored(view(p)')
              /\ \A y \in Known(p) \union N : grant(y) = x.key => ahead(x.cred, y),
         \A l \in Calls \ {c} : isResult(l) =>
           N = {} /\ (isFresh(call[l].cred) => call[l].cred \in Stored(view(p)')),
         \A l \in Calls \ {c} : call[l].pc = "fetching" =>
           \A z \in N : grant(z) # call[l].key
  PROVE  Late(p)'
<1> DEFINE K == Known(p)
<1>1. Typed /\ AreIssued(K)
  BY KnownAreIssued DEF Inv
<1>2. \A d \in Calls : call'[d] = IF d = c THEN x ELSE call[d]
  BY <1>1 DEF Continues, Typed
<1>3. \A y \in K : isFresh(y)' => isFresh(y)
  BY <1>1 DEF AreIssued, isIssued, isFresh, AuthGrows
<1>4. x.pc \in {"releasing", "answered"} /\ x.cred # None /\ isAwaited(c) => x.cred \in K \union N
  <2>1. hasResult(c) /\ isAwaited(c) => call[c].cred \in K
    BY DEF Known, isResult
  <2>2. QED
    BY <2>1
<1>5. Known(p)' \subseteq K \union N
  <2>1. Stored(store') \subseteq K \union N /\ K \subseteq K \union N
    BY DEF Known
  <2>2. QED
    BY <1>1, <1>4, <2>1, KnownMoves
<1>6. Ordered(Known(p))'
  <2>1. PICK k : k = K
    OBVIOUS
  <2>2. Ordered(k \union N)'
    BY <1>1, <2>1, OrderedGrows DEF Late
  <2>3. QED
    BY <1>5, <2>1, <2>2 DEF Ordered
<1>7. ASSUME NEW l \in Calls, isResult(l)'
      PROVE  /\ \A y \in Known(p)' : grant(y) = call'[l].key => ahead(call'[l].cred, y)
             /\ isFresh(call[l].cred)' => call'[l].cred \in Stored(view(p)')
  <2>1. isAwaited(l) /\ (l # c => isResult(l) /\ call'[l] = call[l])
    BY <1>1, <1>7, ResultsStay
  <2>2. CASE isResult(l) /\ N = {} /\ call'[l].cred = call[l].cred /\ call'[l].key = call[l].key
             /\ (isFresh(call[l].cred) => call[l].cred \in Stored(view(p)'))
    <3>1. ResultFits(p, l) /\ call[l].cred \in K
      BY <2>2 DEF Late, ResultsLead, Known
    <3>2. QED
      BY <1>3, <1>5, <2>2, <3>1 DEF ResultFits, isFresh
  <2>3. CASE l = c /\ /\ x.cred \in K \union N /\ x.cred \in Stored(view(p)')
                      /\ \A y \in K \union N : grant(y) = x.key => ahead(x.cred, y)
    BY <1>2, <1>5, <2>3
  <2>4. CASE l = c /\ /\ hasResult(c) /\ N = {} /\ view(p)' = view(p)
                      /\ x.cred = call[c].cred /\ x.key = call[c].key
    <3>1. isResult(l) /\ ResultFits(p, l)
      BY <2>1, <2>4 DEF isResult, Late, ResultsLead
    <3>2. QED
      BY <1>2, <2>2, <2>4, <3>1 DEF ResultFits
  <2>5. QED
    BY <1>2, <1>7, <2>1, <2>2, <2>3, <2>4 DEF isResult, hasResult
<1>8. ResultsLead(p)'
  BY <1>7 DEF ResultsLead, ResultFits, grant
<1>9. FetchesAreDue(p)'
  <2> SUFFICES ASSUME NEW l \in Calls, call'[l].pc = "fetching", NEW y \in Known(p)',
                      grant(y) = call'[l].key
               PROVE  ~isFresh(y)'
    BY DEF FetchesAreDue, isFresh, grant
  <2>1. CASE l = c
    BY <1>2, <1>3, <1>5, <2>1
  <2>2. CASE l # c
    <3>1. call[l].pc = "fetching" /\ call'[l] = call[l]
      BY <1>2, <2>2
    <3>2. y \in K
      BY <1>5, <2>2, <3>1
    <3>3. QED
      BY <1>3, <3>1, <3>2 DEF Late, FetchesAreDue
  <2>3. QED
    BY <2>1, <2>2
<1>10. QED
  BY <1>6, <1>8, <1>9 DEF Late

\* The same for a step that brings no new credential.
LEMMA KnownKeepsLate ==
  ASSUME Inv, Joins, NEW p \in Processes, Late(p),
         NEW c \in Calls, NEW x, Continues(c, x), store' = store, AuthGrows,
         Stored(view(p)') \subseteq Known(p), CallsAreBehind(p)', WritesAreNewer(p)',
         x.pc = "fetching" => /\ x.cred \in Known(p)
                              /\ \A y \in Known(p) : grant(y) = x.key => ~isFresh(y),
         x.pc \in {"releasing", "answered"} /\ x.cred # None /\ isAwaited(c) =>
           \/ /\ hasResult(c) /\ view(p)' = view(p)
              /\ x.cred = call[c].cred /\ x.key = call[c].key
           \/ /\ x.cred \in Known(p) /\ x.cred \in Stored(view(p)')
              /\ \A y \in Known(p) : grant(y) = x.key => ahead(x.cred, y),
         \A l \in Calls \ {c} :
           isResult(l) /\ isFresh(call[l].cred) => call[l].cred \in Stored(view(p)')
  PROVE  Late(p)'
<1>1. PICK N : N = {}
  OBVIOUS
<1>2. NewFits(Known(p), N)
  BY <1>1 DEF NewFits
<1>3. Known(p) \union N = Known(p)
  BY <1>1
<1>4. \A l \in Calls \ {c} : isResult(l) =>
        N = {} /\ (isFresh(call[l].cred) => call[l].cred \in Stored(view(p)'))
  BY <1>1
<1>5. \A l \in Calls \ {c} : call[l].pc = "fetching" => \A z \in N : grant(z) # call[l].key
  BY <1>1
<1>6. QED
  BY <1>1, <1>2, <1>3, <1>4, <1>5, MoveKeepsLate

\* A step without a credential to give.
LEMMA CarriesKeepsLate ==
  ASSUME Alone, Inv, Joins, NEW p \in Processes, Late(p), NEW c \in Calls, NEW x, Carries(c, x),
         AuthGrows, issued' \in Nat
  PROVE  Late(p)'
<1>1. view(p)' = view(p) /\ store' = store
  BY DEF Carries, view
<1>2. CallsAreBehind(p) /\ WritesAreNewer(p) /\ Continues(c, x)
  BY DEF Late, Carries
<1>3. StaysBehind(c, x) /\ x.pc # "fetching"
  BY DEF Carries
<1>4. CallsAreBehind(p)' /\ WritesAreNewer(p)'
  BY <1>2, <1>3, BehindWithoutWrite DEF Carries, Continues, AuthGrows
<1>5. Stored(view(p)') \subseteq Known(p)
  BY <1>1 DEF Known
<1>6. \A l \in Calls : isResult(l) /\ isFresh(call[l].cred) => call[l].cred \in Stored(view(p)')
  BY <1>1 DEF Late, ResultsLead, ResultFits
<1>7. QED
  BY <1>1, <1>2, <1>3, <1>4, <1>5, <1>6, KnownKeepsLate DEF Carries
\* A token that is fresh is ahead of every other one of its grant, and of those
\* of the rotations before.
LEMMA FreshIsAhead ==
  ASSUME NEW K, AreIssued(K), Ordered(K), NEW z \in K, NEW y \in K, isFresh(z),
         z.login > y.login \/ (z.login = y.login /\ z.rotation >= y.rotation)
  PROVE  ahead(z, y)
<1>1. /\ z.login \in Nat /\ z.rotation \in Nat /\ z.token \in Nat
      /\ y.login \in Nat /\ y.rotation \in Nat /\ y.token \in Nat
  BY DEF AreIssued, Credential
<1>2. CASE z.login > y.login
  BY <1>2 DEF ahead
<1>3. CASE z.login = y.login /\ z.rotation = y.rotation
  BY <1>1, <1>3 DEF ahead, Ordered, grant
<1>4. CASE z.login = y.login /\ z.rotation > y.rotation
  <2>1. y.token < z.token
    BY <1>1, <1>4 DEF Ordered
  <2>2. QED
    BY <1>1, <1>4, <2>1 DEF ahead
<1>5. QED
  BY <1>1, <1>2, <1>3, <1>4

\* What is there before a step of a call of the process.
LEMMA QuietView ==
  ASSUME Alone, Inv, NEW p \in Processes, NEW c \in Calls, Quiet(c)
  PROVE  /\ processOf[c] = p /\ pending[p] = None /\ view(p) = store
         /\ \A d \in Calls \ {c} : processOf[d] = p /\ call[d].pc \notin Running
BY ProcessesAssumption DEF Alone, Quiet, isFree, view

LEMMA NothingIssued ==
  ASSUME Inv, UNCHANGED auth
  PROVE  AuthGrows /\ issued' = issued /\ issued' \in Nat
BY BoundsAssumption DEF AuthGrows, auth, Inv, Typed, AuthOK

LEMMA LockedFreshKeepsLate ==
  ASSUME Alone, Inv, Joins, NEW p \in Processes, Late(p), NEW c \in Calls, LockedFresh(c)
  PROVE  Late(p)'
<1> DEFINE a == call[c].account
           r == store[a]
<1>1. PICK x : /\ Continues(c, x) /\ isLeading(c) /\ Quiet(c)
               /\ x.pc = "releasing" /\ x.cred = r.cred /\ x.generation = r.generation
               /\ x.key = call[c].key /\ x.account = a
  BY SettlesContinues DEF LockedFresh
<1>2. view(p) = store /\ view(p)' = store
  BY <1>1, QuietView DEF view, LockedFresh
<1>3. AuthGrows /\ issued' \in Nat
  BY NothingIssued DEF LockedFresh
<1>4. Typed /\ AreIssued(Known(p)) /\ a \in Accounts /\ call[c].key \in Fingerprint
  BY RecordOf, KnownAreIssued
<1>5. r.cred # None /\ isFresh(r.cred)
  BY DEF LockedFresh, isFreshRecord
<1>6. r.cred \in Stored(store) /\ r.cred \in Known(p)
  BY <1>4, <1>5 DEF Stored, Known
<1>7. CallsAreBehind(p)' /\ WritesAreNewer(p)'
  BY <1>1, <1>3, BehindWithoutWrite DEF LockedFresh, Late, Continues, StaysBehind, AuthGrows
<1>8. ASSUME NEW y \in Known(p), grant(y) = x.key PROVE ahead(r.cred, y)
  <2>1. isPast(call[c].key, r)
    BY <1>1, <1>2 DEF Late, CallsAreBehind, IsBehind, isLeading
  <2>2. y.login = call[c].key[1] /\ y.rotation = call[c].key[2]
    BY <1>1, <1>8 DEF grant
  <2>3. r.cred.login > y.login \/ (r.cred.login = y.login /\ r.cred.rotation >= y.rotation)
    BY <1>5, <2>1, <2>2 DEF isPast
  <2>4. QED
    BY <1>4, <1>5, <1>6, <1>8, <2>3, FreshIsAhead DEF Late
<1>9. Stored(view(p)') \subseteq Known(p)
  BY <1>2 DEF Known
<1>10. \A l \in Calls : isResult(l) /\ isFresh(call[l].cred) => call[l].cred \in Stored(view(p)')
  BY <1>2 DEF Late, ResultsLead, ResultFits
<1>11. QED
  BY <1>1, <1>2, <1>3, <1>6, <1>7, <1>8, <1>9, <1>10, KnownKeepsLate DEF LockedFresh

\* What needsExchange says of the record.
LEMMA NeedsExchange ==
  ASSUME Alone, Inv, NEW p \in Processes, NEW c \in Calls, needsExchange(c)
  PROVE  LET r == store[call[c].account] IN
         /\ runs(c, "locked") /\ Quiet(c) /\ call[c].account \in Accounts
         /\ r.cred # None /\ grant(r.cred) = call[c].key /\ ~isFresh(r.cred)
         /\ r.cred \in Stored(store) /\ r.cred \in Known(p)
<1>1. call[c].account \in Accounts
  BY RecordOf
<1>2. QED
  BY <1>1, RunsIsQuiet
     DEF needsExchange, holdsSameGrant, refreshGrantFingerprint, Stored, Known

LEMMA LockedFetchesKeepsLate ==
  ASSUME Alone, Inv, Joins, NEW p \in Processes, Late(p), NEW c \in Calls, LockedFetches(c)
  PROVE  Late(p)'
<1> DEFINE a == call[c].account
           r == store[a]
<1>1. PICK x : /\ Continues(c, x) /\ isLeading(c) /\ Quiet(c)
               /\ x.pc = "fetching" /\ x.cred = r.cred /\ x.generation = r.generation
               /\ x.key = call[c].key /\ x.account = a
  BY LockedFetchesContinues
<1>2. view(p) = store /\ view(p)' = store
  BY <1>1, QuietView DEF view, LockedFetches
<1>3. AuthGrows /\ issued' \in Nat
  BY NothingIssued DEF LockedFetches
<1>4. Typed /\ r.generation \in Nat
  BY RecordOf
<1>5. /\ runs(c, "locked") /\ r.cred # None /\ grant(r.cred) = call[c].key /\ ~isFresh(r.cred)
      /\ r.cred \in Known(p)
  BY NeedsExchange DEF LockedFetches
<1>6. CallsAreBehind(p)' /\ WritesAreNewer(p)'
  <2>1. StaysBehind(c, x)
    BY <1>1 DEF StaysBehind
  <2>2. call' = [call EXCEPT ![c] = x] /\ UNCHANGED <<store, pending>> /\ issued <= issued'
    BY <1>1, <1>3 DEF LockedFetches, Continues, AuthGrows
  <2>3. /\ x.generation = view(p)[x.account].generation /\ x.generation \in Nat
        /\ view(p)[x.account].cred = x.cred
    BY <1>1, <1>2, <1>4
  <2>4. CallsAreBehind(p) /\ WritesAreNewer(p)
    BY DEF Late
  <2>5. QED
    BY <1>3, <2>1, <2>2, <2>3, <2>4, BehindWithoutWrite
<1>7. ASSUME NEW y \in Stored(store), grant(y) = call[c].key PROVE ~isFresh(y)
  <2>1. PICK b \in Accounts : y = store[b].cred /\ y # None
    BY <1>7 DEF Stored
  <2>2. CASE b = a
    BY <1>5, <2>1, <2>2
  <2>3. CASE b # a
    BY <1>7, <2>1, <2>3
       DEF LockedFetches, freshCredentialsForGrant, refreshGrantFingerprint
  <2>4. QED
    BY <2>2, <2>3
<1>8. ASSUME NEW y \in Known(p), grant(y) = call[c].key, isFresh(y) PROVE FALSE
  <2>1. ASSUME NEW l \in Calls, isResult(l), y = call[l].cred PROVE FALSE
    <3>1. y \in Stored(view(p))
      BY <1>8, <2>1 DEF Late, ResultsLead, ResultFits
    <3>2. QED
      BY <1>2, <1>7, <1>8, <3>1
  <2>2. ASSUME NEW m \in Calls, call[m].pc = "fetching", y = call[m].cred PROVE FALSE
    <3>1. call[m].key = call[c].key /\ isLeading(m) /\ processOf[m] = processOf[c]
      BY <1>8, <2>2, ProcessesAssumption DEF Inv, FetchesItsGrant, isLeading, Leading, Alone
    <3>2. m = c
      BY <1>1, <3>1 DEF Inv, OneLeaderPerGrant
    <3>3. QED
      BY <1>5, <2>2, <3>2 DEF runs
  <2>3. QED
    BY <1>2, <1>7, <1>8, <2>1, <2>2 DEF Known
<1>9. Stored(view(p)') \subseteq Known(p)
  BY <1>2 DEF Known
<1>10. \A l \in Calls : isResult(l) /\ isFresh(call[l].cred) => call[l].cred \in Stored(view(p)')
  BY <1>2 DEF Late, ResultsLead, ResultFits
<1>11. QED
  BY <1>1, <1>3, <1>5, <1>6, <1>8, <1>9, <1>10, KnownKeepsLate DEF LockedFetches

LEMMA LockedSharesKeepsLate ==
  ASSUME Alone, Inv, Joins, NEW p \in Processes, Late(p), NEW c \in Calls, LockedShares(c)
  PROVE  Late(p)'
<1> DEFINE a == call[c].account
<1>1. PICK cred \in freshCredentialsForGrant(c) :
        write(processOf[c], a, saved(a, cred)) /\ settles(c, cred, store[a].generation + 1)
  BY DEF LockedShares
<1>2. /\ runs(c, "locked") /\ Quiet(c) /\ a \in Accounts
      /\ store[a].cred # None /\ grant(store[a].cred) = call[c].key /\ ~isFresh(store[a].cred)
      /\ store[a].cred \in Known(p)
  BY NeedsExchange DEF LockedShares
<1>3. PICK x : /\ Continues(c, x) /\ isLeading(c) /\ x.pc = "releasing" /\ x.cred = cred
               /\ x.key = call[c].key /\ x.account = a
  BY <1>1, <1>2, SettlesContinues
<1>4. processOf[c] = p /\ pending[p] = None /\ view(p) = store
  BY <1>2, QuietView
<1>5. AuthGrows /\ issued' = issued /\ issued' \in Nat
  BY NothingIssued DEF LockedShares
<1>6. PICK b \in Accounts : /\ cred = store[b].cred /\ cred # None
                            /\ grant(cred) = call[c].key /\ isFresh(cred)
  BY <1>1 DEF freshCredentialsForGrant, refreshGrantFingerprint
<1>7. Typed /\ AreIssued(Known(p)) /\ cred \in Known(p)
  BY <1>6, RecordOf, KnownAreIssued DEF Known, Stored
<1>8. cred \in Credential /\ isIssued(issued, cred)
  BY <1>7 DEF AreIssued
<1>9. ASSUME NEW y \in Known(p), grant(y) = call[c].key PROVE ahead(cred, y)
  <2>1. cred.login = y.login /\ cred.rotation = y.rotation /\ cred.rotation \in Nat
    BY <1>6, <1>8, <1>9 DEF grant, Credential
  <2>2. QED
    BY <1>6, <1>7, <1>9, <2>1, FreshIsAhead DEF Late
<1>10. PICK r \in Record : /\ r = saved(a, cred) /\ r.cred = cred
                           /\ r.generation = store[a].generation + 1
  BY <1>2, <1>7, <1>8, SavedIsRecord
<1>11. supersedes(issued', store[a], r)
  BY <1>2, <1>5, <1>6, <1>9, <1>10 DEF supersedes, isNewer, saved
<1>12. \A d \in Calls : call'[d].pc \in Leading =>
         /\ isLeading(d) /\ call'[d].key = call[d].key /\ call'[d].account = call[d].account
         /\ call'[d].pc = "fetching" => call[d].pc = "fetching" /\ call'[d] = call[d]
  BY <1>3, <1>7 DEF Continues, Typed, isLeading
<1>13. /\ CallsAreBehind(p)' /\ WritesAreNewer(p)' /\ view(p)' = [store EXCEPT ![a] = r]
       /\ Stored(view(p)') \subseteq Stored(store) \union ({r.cred} \ {None})
       /\ r.cred # None => r.cred \in Stored(view(p)')
  BY <1>1, <1>2, <1>4, <1>5, <1>8, <1>10, <1>11, <1>12, BehindAfterWrite
     DEF Late, LockedShares, AuthGrows
<1>14. ASSUME NEW l \in Calls, isResult(l), isFresh(call[l].cred)
       PROVE  call[l].cred \in Stored(view(p)')
  <2>1. PICK d \in Accounts : call[l].cred = store[d].cred /\ call[l].cred # None
    BY <1>4, <1>14 DEF Late, ResultsLead, ResultFits, Stored
  <2>2. view(p)'[d] = store[d]
    BY <1>2, <1>7, <1>13, <1>14, <2>1 DEF Typed, IsStore
  <2>3. QED
    BY <2>1, <2>2 DEF Stored
<1>15. Stored(view(p)') \subseteq Known(p)
  BY <1>7, <1>10, <1>13 DEF Known
<1>16. x.cred \in Known(p) /\ x.cred \in Stored(view(p)')
  BY <1>3, <1>6, <1>7, <1>10, <1>13
<1>17. \A y \in Known(p) : grant(y) = x.key => ahead(x.cred, y)
  BY <1>3, <1>9
<1>18. x.pc # "fetching" /\ Continues(c, x) /\ store' = store
  BY <1>3 DEF LockedShares
<1>19. QED
  BY <1>5, <1>13, <1>14, <1>15, <1>16, <1>17, <1>18, KnownKeepsLate
LEMMA JoinedSavesKeepsLate ==
  ASSUME Alone, Inv, Joins, NEW p \in Processes, Late(p), NEW c \in Calls, JoinedSaves(c)
  PROVE  Late(p)'
<1> DEFINE a == call[c].account
           l == call[c].joined
           cred == call[l].cred
<1>1. /\ Quiet(c) /\ call[c].pc = "joined" /\ l \in Calls
      /\ call[l].key = call[c].key /\ hasResult(l) /\ ~isAwaited(c)
  BY JoinedSavesContinues
<1>2. PICK x : Continues(c, x) /\ x.pc = "answered" /\ x.cred = cred
  BY JoinedSavesContinues DEF result
<1>3. processOf[c] = p /\ pending[p] = None /\ view(p) = store
  BY <1>1, QuietView
<1>4. AuthGrows /\ issued' = issued /\ issued' \in Nat
  BY NothingIssued DEF JoinedSaves
<1>5. Typed /\ AreIssued(Known(p)) /\ a \in Accounts
  BY RecordOf, KnownAreIssued
<1>6. isResult(l) /\ cred \in Known(p)
  BY <1>1 DEF isResult, isAwaited, Known
<1>7. cred \in Credential /\ isIssued(issued, cred)
  BY <1>5, <1>6 DEF AreIssued
<1>8. /\ store[a].cred # None /\ grant(store[a].cred) = call[l].key /\ store[a].cred \in Known(p)
  BY <1>1, <1>5 DEF JoinedSaves, takesResult, refreshGrantFingerprint, Known, Stored
<1>9. ahead(cred, store[a].cred)
  BY <1>1, <1>6, <1>8 DEF Late, ResultsLead, ResultFits
<1>10. PICK r \in Record : /\ r = saved(a, cred) /\ r.cred = cred
                           /\ r.generation = store[a].generation + 1
  BY <1>5, <1>7, SavedIsRecord
<1>11. supersedes(issued', store[a], r)
  <2>1. r.deletedAt = 0 /\ r.cred # None
    BY <1>7, <1>10, NoneAssumption DEF saved
  <2>2. QED
    BY <1>4, <1>8, <1>9, <1>10, <2>1 DEF supersedes, isNewer
<1>12. \A d \in Calls : call'[d].pc \in Leading =>
         /\ isLeading(d) /\ call'[d].key = call[d].key /\ call'[d].account = call[d].account
         /\ call'[d].pc = "fetching" => call[d].pc = "fetching" /\ call'[d] = call[d]
  BY <1>2, <1>5 DEF Continues, Typed, isLeading, Leading, Running
<1>13. write(p, a, r) /\ store' = store
  BY <1>3, <1>10 DEF JoinedSaves, result
<1>14. /\ CallsAreBehind(p)' /\ WritesAreNewer(p)'
       /\ Stored(view(p)') \subseteq Stored(store) \union ({r.cred} \ {None})
       /\ r.cred # None => r.cred \in Stored(view(p)')
  BY <1>3, <1>4, <1>5, <1>7, <1>10, <1>11, <1>12, <1>13, BehindAfterWrite DEF Late, AuthGrows
<1>15. ASSUME NEW m \in Calls, isResult(m), isFresh(call[m].cred)
       PROVE  call[m].cred \in Stored(view(p)')
  <2>1. PICK d \in Calls : call[d].pc = "joined" /\ call[d].joined = m
    BY <1>15 DEF isResult, isAwaited
  <2>2. {"releasing", "answered"} \subseteq Running \union Ended
    BY DEF Running, Ended
  <2>3. call[m].pc \in Running \union Ended /\ call[l].pc \in Running \union Ended
    BY <1>6, <1>15, <2>2 DEF isResult, hasResult
  <2>4. processOf[d] = processOf[c]
    BY ProcessesAssumption DEF Alone
  <2>5. m = l
    BY <1>1, <2>1, <2>3, <2>4 DEF Joins, OneSettles
  <2>6. QED
    BY <1>7, <1>10, <1>14, <2>5, NoneAssumption
<1>16. Stored(view(p)') \subseteq Known(p)
  BY <1>6, <1>10, <1>14 DEF Known
<1>17. x.pc # "fetching" /\ ~isAwaited(c)
  BY <1>1, <1>2
<1>18. QED
  BY <1>2, <1>4, <1>13, <1>14, <1>15, <1>16, <1>17, KnownKeepsLate

\* The credential that the endpoint returns is new to everyone.
LEMMA RenewedFits ==
  ASSUME Alone, Inv, NEW p \in Processes, Late(p), NEW c \in Calls, NEW rotates \in BOOLEAN,
         call[c].pc = "fetching", issues(call[c].cred, rotates), UNCHANGED commands,
         NEW z, z = renewed(call[c].cred, rotates)
  PROVE  /\ NewFits(Known(p), {z}) /\ AuthGrows /\ issued' \in Nat
         /\ z \in Credential /\ isIssued(issued', z)
         /\ \A y \in Known(p) \union {z} : grant(y) = call[c].key => ahead(z, y)
         /\ ahead(z, call[c].cred)
         /\ \A d \in Calls \ {c} : call[d].pc = "fetching" => grant(z) # call[d].key
<1> DEFINE cred == call[c].cred
           K == Known(p)
<1>1. AuthOK /\ Typed /\ AreIssued(K) /\ issued \in Nat
  BY BoundsAssumption, KnownAreIssued DEF Inv, Typed, AuthOK
<1>2. /\ AuthOK' /\ issued <= issued' /\ issued' \in Nat
      /\ z \in Credential /\ isIssued(issued', z)
  BY IssuesKeepsAuth
<1>3. /\ issued' = issued + 1 /\ fresh' = fresh \union {issued + 1} /\ grant(cred) \notin spent
      /\ spent' = IF rotates THEN spent \union {grant(cred)} ELSE spent
  BY DEF issues
<1>4. AuthGrows
  BY <1>1, <1>3 DEF AuthGrows
<1>5. cred \in K /\ cred \in Credential /\ isIssued(issued, cred) /\ grant(cred) = call[c].key
  <2>1. cred \in K
    BY DEF Known
  <2>2. QED
    BY <1>1, <2>1 DEF AreIssued, Inv, FetchesItsGrant
<1>6. /\ z.login = cred.login /\ z.token = issued + 1
      /\ z.rotation = IF rotates THEN cred.rotation + 1 ELSE cred.rotation
  BY DEF renewed
<1>7. /\ cred.login \in Nat /\ cred.rotation \in Nat /\ cred.token \in Nat /\ cred.token <= issued
      /\ z.rotation \in Nat /\ z.token \in Nat
  BY <1>1, <1>2, <1>5 DEF Credential, isIssued
<1>8. ASSUME NEW y \in K
      PROVE  /\ y.login \in Nat /\ y.rotation \in Nat /\ y.token \in Nat /\ y.token <= issued
             /\ y.login = cred.login => y.rotation <= cred.rotation
  <2>1. y.login \in Nat /\ y.rotation \in Nat /\ y.token \in Nat /\ y.token <= issued
    BY <1>1, <1>8 DEF AreIssued, Credential, isIssued
  <2>2. ASSUME y.login = cred.login, cred.rotation < y.rotation PROVE FALSE
    <3>1. <<y.login, cred.rotation>> \in spent
      BY <1>7, <1>8, <2>2 DEF Late, Ordered
    <3>2. QED
      BY <1>3, <2>2, <3>1 DEF grant
  <2>3. QED
    BY <1>7, <2>1, <2>2
<1>9. ASSUME NEW y \in K, grant(y) = grant(z) PROVE ~isFresh(y) /\ ~rotates
  <2>1. y.login = cred.login /\ y.rotation = z.rotation
    BY <1>6, <1>9 DEF grant
  <2>2. ~rotates
    BY <1>6, <1>7, <1>8, <1>9, <2>1
  <2>3. grant(y) = call[c].key
    BY <1>5, <1>6, <1>9, <2>2 DEF grant
  <2>4. QED
    BY <1>9, <2>2, <2>3 DEF Late, FetchesAreDue
<1>10. \A i \in Nat : i < z.rotation => <<z.login, i>> \in spent'
  <2> SUFFICES ASSUME NEW i \in Nat, i < z.rotation PROVE <<z.login, i>> \in spent'
    OBVIOUS
  <2>1. CASE i < cred.rotation
    BY <1>3, <1>5, <1>6, <2>1 DEF Late, Ordered
  <2>2. CASE ~(i < cred.rotation)
    <3>1. rotates /\ i = cred.rotation
      BY <1>6, <1>7, <2>2
    <3>2. QED
      BY <1>3, <1>6, <3>1 DEF grant
  <2>3. QED
    BY <2>1, <2>2
<1>11. NewFits(K, {z})
  <2>1. \A y \in K : y.login = z.login => y.rotation <= z.rotation
    BY <1>6, <1>7, <1>8
  <2>2. z.token > issued
    BY <1>1, <1>6
  <2>3. QED
    BY <1>2, <1>9, <1>10, <2>1, <2>2 DEF NewFits
<1>12. ASSUME NEW y \in K, y.login = cred.login PROVE ahead(z, y)
  <2>1. y.rotation <= z.rotation /\ y.token <= z.token
    BY <1>1, <1>6, <1>7, <1>8, <1>12
  <2>2. QED
    BY <1>6, <1>7, <1>8, <1>12, <2>1 DEF ahead
<1>13. \A y \in K \union {z} : grant(y) = call[c].key => ahead(z, y)
  BY <1>2, <1>5, <1>12, AheadIsReflexive DEF grant
<1>14. ahead(z, cred)
  BY <1>5, <1>12
<1>15. ASSUME NEW d \in Calls \ {c}, call[d].pc = "fetching", grant(z) = call[d].key
       PROVE  FALSE
  <2>1. call[d].cred \in K /\ grant(call[d].cred) = grant(z)
    BY <1>15 DEF Known, Inv, FetchesItsGrant
  <2>2. ~rotates
    BY <1>9, <2>1
  <2>3. grant(z) = call[c].key
    BY <1>5, <1>6, <2>2 DEF grant
  <2>4. isLeading(c) /\ isLeading(d) /\ processOf[c] = processOf[d]
    BY <1>15, ProcessesAssumption DEF isLeading, Leading, Alone
  <2>5. QED
    BY <1>15, <2>3, <2>4 DEF Inv, OneLeaderPerGrant
<1>16. QED
  BY <1>2, <1>4, <1>11, <1>13, <1>14, <1>15

LEMMA FetchSucceedsKeepsLate ==
  ASSUME Alone, Inv, Joins, NEW p \in Processes, Late(p), NEW c \in Calls,
         NEW rotates \in BOOLEAN, FetchSucceeds(c, rotates),
         isGenerationLive(call[c].account, call[c].generation)
  PROVE  Late(p)'
<1> DEFINE a == call[c].account
<1>1. PICK z : z = renewed(call[c].cred, rotates)
  OBVIOUS
<1>2. /\ runs(c, "fetching") /\ call[c].pc = "fetching" /\ mayRun(processOf[c], c)
      /\ issues(call[c].cred, rotates) /\ store' = store /\ commands' = commands
      /\ write(processOf[c], a, saved(a, z))
      /\ settles(c, z, savedGeneration(call[c].generation))
  BY <1>1 DEF FetchSucceeds, runs, Running
<1>3. PICK N : N = {z}
  OBVIOUS
<1>4. /\ NewFits(Known(p), N) /\ AuthGrows /\ issued' \in Nat
      /\ z \in Credential /\ isIssued(issued', z)
      /\ \A y \in Known(p) \union N : grant(y) = call[c].key => ahead(z, y)
      /\ ahead(z, call[c].cred)
      /\ \A d \in Calls \ {c} : call[d].pc = "fetching" => \A w \in N : grant(w) # call[d].key
  BY <1>1, <1>2, <1>3, RenewedFits
<1>5. PICK x : /\ Continues(c, x) /\ isLeading(c) /\ Quiet(c) /\ x.pc = "releasing" /\ x.cred = z
               /\ x.key = call[c].key /\ x.account = a
  BY <1>2, SettlesContinues
<1>6. processOf[c] = p /\ pending[p] = None /\ view(p) = store
      /\ \A d \in Calls \ {c} : processOf[d] = p /\ call[d].pc \notin Running
  BY <1>5, QuietView
<1>7. Typed /\ a \in Accounts
  BY RecordOf
<1>8. PICK r \in Record : /\ r = saved(a, z) /\ r.cred = z
                          /\ r.generation = store[a].generation + 1
  BY <1>4, <1>7, SavedIsRecord
<1>9. store[a].cred = call[c].cred /\ store[a].cred # None
  BY <1>2, <1>6 DEF isGenerationLive, Late, CallsAreBehind, IsBehind
<1>10. supersedes(issued', store[a], r)
  <2>1. r.deletedAt = 0 /\ r.cred # None
    BY <1>4, <1>8, NoneAssumption DEF saved
  <2>2. QED
    BY <1>4, <1>8, <1>9, <2>1 DEF supersedes, isNewer
<1>11. \A d \in Calls : call'[d].pc \in Leading =>
         /\ isLeading(d) /\ call'[d].key = call[d].key /\ call'[d].account = call[d].account
         /\ call'[d].pc = "fetching" => call[d].pc = "fetching" /\ call'[d] = call[d]
  BY <1>5, <1>7 DEF Continues, Typed, isLeading
<1>12. write(p, a, r) /\ issued <= issued'
  BY <1>2, <1>4, <1>6, <1>8 DEF AuthGrows
<1>13. /\ CallsAreBehind(p)' /\ WritesAreNewer(p)'
       /\ Stored(view(p)') \subseteq Stored(store) \union ({r.cred} \ {None})
       /\ r.cred # None => r.cred \in Stored(view(p)')
  BY <1>2, <1>4, <1>6, <1>7, <1>8, <1>10, <1>11, <1>12, BehindAfterWrite DEF Late
<1>14. Stored(view(p)') \subseteq Known(p) \union N
  BY <1>3, <1>8, <1>13 DEF Known
<1>15. ASSUME NEW l \in Calls \ {c}, isResult(l) PROVE FALSE
  <2>1. PICK d \in Calls : call[d].pc = "joined" /\ call[d].joined = l
    BY <1>15 DEF isResult, isAwaited
  <2>2. call[l].pc = "answered"
    BY <1>6, <1>15 DEF isResult, hasResult, Running
  <2>3. settled(d) /\ d # c /\ processOf[d] = p
    BY <1>2, <1>6, <2>1, <2>2 DEF settled, Ended
  <2>4. QED
    BY <1>2, <1>6, <2>3 DEF mayRun
<1>16. x.pc # "fetching" /\ x.cred \in Known(p) \union N /\ x.cred \in Stored(view(p)')
  BY <1>3, <1>4, <1>5, <1>8, <1>13, NoneAssumption
<1>17. \A y \in Known(p) \union N : grant(y) = x.key => ahead(x.cred, y)
  BY <1>4, <1>5
<1>18. QED
  BY <1>2, <1>4, <1>5, <1>13, <1>14, <1>15, <1>16, <1>17, MoveKeepsLate
\* A login or a deletion, while no call is in the middle of something.
LEMMA CommandKeepsLate ==
  ASSUME Alone, Inv, NEW p \in Processes, Late(p), NEW a \in Accounts, NEW r \in Record,
         mayRun(p, None), write(p, a, r), UNCHANGED <<store, call>>, AuthGrows, issued' \in Nat,
         r.cred # None => isIssued(issued', r.cred), supersedes(issued', store[a], r),
         NEW N, N = {r.cred} \ {None}, NewFits(Known(p), N),
         \A l \in Calls : call[l].pc = "fetching" => \A z \in N : grant(z) # call[l].key
  PROVE  Late(p)'
<1> DEFINE K == Known(p)
<1>1. Typed /\ AreIssued(K)
  BY KnownAreIssued DEF Inv
<1>2. pending[p] = None /\ \A d \in Calls : call[d].pc \notin Running /\ ~settled(d)
  BY ProcessesAssumption DEF mayRun, isFree, Alone
<1>3. \A d \in Calls : call'[d].pc \in Leading =>
        /\ isLeading(d) /\ call'[d].key = call[d].key /\ call'[d].account = call[d].account
        /\ call'[d].pc = "fetching" => call[d].pc = "fetching" /\ call'[d] = call[d]
  BY DEF isLeading
<1>4. /\ CallsAreBehind(p)' /\ WritesAreNewer(p)'
      /\ Stored(view(p)') \subseteq Stored(store) \union N
  BY <1>2, <1>3, BehindAfterWrite DEF Late, AuthGrows
<1>5. Known(p)' \subseteq K \union N
  BY <1>4 DEF Known, Stored, isResult, isAwaited, hasResult
<1>6. \A y \in K : isFresh(y)' => isFresh(y)
  BY <1>1 DEF AreIssued, isIssued, isFresh, AuthGrows
<1>7. Ordered(Known(p))'
  <2>1. PICK k : k = K
    OBVIOUS
  <2>2. Ordered(k \union N)'
    BY <1>1, <2>1, OrderedGrows DEF Late
  <2>3. QED
    BY <1>5, <2>1, <2>2 DEF Ordered
<1>8. \A l \in Calls : ~isResult(l)'
  BY <1>2 DEF isResult, isAwaited, hasResult, settled, Running, Ended
<1>9. FetchesAreDue(p)'
  <2> SUFFICES ASSUME NEW l \in Calls, call[l].pc = "fetching", NEW y \in Known(p)',
                      grant(y) = call[l].key
               PROVE  ~isFresh(y)'
    BY DEF FetchesAreDue, isFresh, grant
  <2>1. y \in K
    BY <1>5
  <2>2. QED
    BY <1>6, <2>1 DEF Late, FetchesAreDue
<1>10. QED
  BY <1>4, <1>7, <1>8, <1>9 DEF Late, ResultsLead

LEMMA LoginKeepsLate ==
  ASSUME Alone, Inv, NEW p \in Processes, Late(p), NEW a \in Accounts, Login(p, a)
  PROVE  Late(p)'
<1>1. /\ Typed /\ AreIssued(Known(p)) /\ issued \in Nat
      /\ issued' = issued + 1 /\ fresh' = fresh \union {issued + 1} /\ spent' = spent
  BY BoundsAssumption, KnownAreIssued DEF Inv, Typed, AuthOK, Login
<1>2. AuthGrows
  BY <1>1 DEF AuthGrows
<1>3. PICK z : z = [login |-> issued + 1, rotation |-> 0, token |-> issued + 1]
  OBVIOUS
<1>4. z \in Credential /\ isIssued(issued', z) /\ z.login > issued /\ z.token > issued
      /\ z.rotation = 0
  BY <1>1, <1>3 DEF Credential, isIssued
<1>5. PICK r \in Record : /\ r = saved(a, z) /\ r.cred = z
                          /\ r.generation = store[a].generation + 1
  BY <1>1, <1>4, SavedIsRecord
<1>6. z # None /\ r.deletedAt = 0
  BY <1>4, <1>5, NoneAssumption DEF saved
<1>7. view(p) = store /\ pending[p] = None
  BY DEF Login, mayRun, isFree, view
<1>8. /\ store[a].deletedAt \in Nat /\ store[a].deletedAt <= issued
      /\ store[a].cred # None => store[a].cred.login \in Nat /\ store[a].cred.login <= issued
  BY <1>1 DEF Late, WritesAreNewer, Typed, IsStore, Record, Credential, isIssued
<1>9. supersedes(issued', store[a], r)
  <2>1. z.login \in Nat
    BY <1>4 DEF Credential
  <2>2. /\ store[a].cred = None => z.login > store[a].deletedAt
        /\ store[a].cred # None => z.login > store[a].cred.login
    BY <1>1, <1>4, <1>8, <2>1
  <2>3. isNewer(store[a], r)
    BY <1>5, <2>2 DEF isNewer, ahead
  <2>4. QED
    BY <1>1, <1>5, <1>6, <2>3 DEF supersedes
<1>10. PICK N : N = {r.cred} \ {None}
  OBVIOUS
<1>11. N = {z}
  BY <1>5, <1>6, <1>10
<1>12. \A y \in Known(p) : y.login # z.login
  BY <1>1, <1>4 DEF AreIssued, isIssued, Credential
<1>13. NewFits(Known(p), N)
  BY <1>4, <1>11, <1>12 DEF NewFits
<1>14. ASSUME NEW l \in Calls, call[l].pc = "fetching" PROVE grant(z) # call[l].key
  <2>1. call[l].cred \in Known(p) /\ grant(call[l].cred) = call[l].key
    BY <1>14 DEF Known, Inv, FetchesItsGrant
  <2>2. QED
    BY <1>12, <2>1 DEF grant
<1>15. write(p, a, r) /\ mayRun(p, None) /\ UNCHANGED <<store, call>>
  BY <1>3, <1>5 DEF Login
<1>16. issued' \in Nat /\ isIssued(issued', r.cred)
  BY <1>1, <1>4, <1>5
<1>17. \A l \in Calls : call[l].pc = "fetching" => \A w \in N : grant(w) # call[l].key
  BY <1>11, <1>14
<1>18. QED
  BY <1>2, <1>9, <1>10, <1>13, <1>15, <1>16, <1>17, CommandKeepsLate

LEMMA DeleteAccountKeepsLate ==
  ASSUME Alone, Inv, NEW p \in Processes, Late(p), NEW a \in Accounts, DeleteAccount(p, a)
  PROVE  Late(p)'
<1>1. AuthGrows /\ issued' = issued /\ issued' \in Nat /\ issued \in Nat
  BY NothingIssued DEF DeleteAccount
<1>2. PICK r : r = tombstone(a)
  OBVIOUS
<1>3. /\ r \in Record /\ r.cred = None /\ r.deletedAt = issued
      /\ r.generation = store[a].generation + 1
  BY <1>1, <1>2 DEF Inv, Typed, IsStore, Record, tombstone
<1>4. supersedes(issued', store[a], r)
  BY <1>1, <1>3 DEF supersedes, isNewer
<1>5. PICK N : N = {r.cred} \ {None}
  OBVIOUS
<1>6. N = {}
  BY <1>3, <1>5
<1>7. NewFits(Known(p), N)
  BY <1>6 DEF NewFits
<1>8. write(p, a, r) /\ mayRun(p, None) /\ UNCHANGED <<store, call>>
  BY <1>2 DEF DeleteAccount
<1>9. \A l \in Calls : call[l].pc = "fetching" => \A z \in N : grant(z) # call[l].key
  BY <1>6
<1>10. QED
  BY <1>1, <1>3, <1>4, <1>5, <1>7, <1>8, <1>9, CommandKeepsLate

\* Nothing becomes known: the write ends, the process dies or time passes.
LEMMA QuietKeepsLate ==
  ASSUME Inv, NEW p \in Processes, Late(p), AuthGrows, Known(p)' \subseteq Known(p),
         \A l \in Calls : isResult(l)' =>
           isResult(l) /\ call'[l] = call[l] /\ Stored(view(p)) \subseteq Stored(view(p)'),
         \A l \in Calls : call'[l].pc = "fetching" => call'[l] = call[l],
         CallsAreBehind(p)', WritesAreNewer(p)'
  PROVE  Late(p)'
<1>1. Typed /\ AreIssued(Known(p))
  BY KnownAreIssued DEF Inv
<1>2. \A y \in Known(p) : isFresh(y)' => isFresh(y)
  BY <1>1 DEF AreIssued, isIssued, isFresh, AuthGrows
<1>3. Ordered(Known(p))'
  <2>1. PICK k : k = Known(p)
    OBVIOUS
  <2>2. PICK N : N = {}
    OBVIOUS
  <2>3. NewFits(k, N)
    BY <2>2 DEF NewFits
  <2>4. Ordered(k \union N)'
    BY <1>1, <2>1, <2>3, OrderedGrows DEF Late
  <2>5. QED
    BY <2>1, <2>2, <2>4 DEF Ordered
<1>4. ResultsLead(p)'
  <2> SUFFICES ASSUME NEW l \in Calls, isResult(l)'
               PROVE  /\ \A y \in Known(p)' : grant(y) = call'[l].key => ahead(call'[l].cred, y)
                      /\ isFresh(call[l].cred)' => call'[l].cred \in Stored(view(p)')
    BY DEF ResultsLead, ResultFits, grant
  <2>1. ResultFits(p, l) /\ call[l].cred \in Known(p) /\ call'[l] = call[l]
    BY DEF Late, ResultsLead, Known
  <2>2. QED
    BY <1>2, <2>1 DEF ResultFits, isFresh
<1>5. FetchesAreDue(p)'
  <2> SUFFICES ASSUME NEW l \in Calls, call'[l].pc = "fetching", NEW y \in Known(p)',
                      grant(y) = call'[l].key
               PROVE  ~isFresh(y)'
    BY DEF FetchesAreDue, isFresh, grant
  <2>1. QED
    BY <1>2 DEF Late, FetchesAreDue
<1>6. QED
  BY <1>3, <1>4, <1>5 DEF Late

LEMMA PersistKeepsLate ==
  ASSUME Inv, NEW p \in Processes, Late(p), Persist(p)
  PROVE  Late(p)'
<1>1. Typed
  BY DEF Inv
<1>2. store' = view(p) /\ view(p)' = view(p) /\ call' = call
  BY <1>1 DEF Persist, Typed, view
<1>3. AuthGrows /\ issued' = issued
  BY NothingIssued DEF Persist
<1>4. Known(p)' \subseteq Known(p)
  BY <1>2 DEF Known, Stored, isResult, isAwaited, hasResult
<1>5. CallsAreBehind(p)'
  BY <1>2, <1>3 DEF Late, CallsAreBehind
<1>6. \A a \in Accounts : view(p)[a].cred # None => view(p)[a].cred \in Credential
  BY <1>1 DEF Typed, IsStore, Record, view
<1>7. WritesAreNewer(p)'
  BY <1>2, <1>3, <1>6, AheadIsReflexive DEF Late, WritesAreNewer, isNewer
<1>8. \A l \in Calls : isResult(l)' => isResult(l)
  BY <1>2 DEF isResult, isAwaited, hasResult
<1>9. QED
  BY <1>2, <1>3, <1>4, <1>5, <1>7, <1>8, QuietKeepsLate

LEMMA CrashKeepsLate ==
  ASSUME Alone, Inv, Joins, NEW p \in Processes, Late(p), Crash(p)
  PROVE  Late(p)'
<1>1. Typed
  BY DEF Inv
<1>2. \A c \in Calls : call'[c].pc \notin Leading \union {"joined"}
  BY <1>1, CrashKeepsJoins, ProcessesAssumption DEF Alone
<1>3. pending'[p] = None /\ store' = store
  BY <1>1 DEF Crash, Typed
<1>4. view(p)' = store /\ store' = store
  BY <1>3 DEF view
<1>5. AuthGrows /\ issued' = issued
  BY NothingIssued DEF Crash
<1>6. \A l \in Calls : ~isResult(l)' /\ call'[l].pc # "fetching"
  BY <1>2 DEF isResult, isAwaited, Leading
<1>7. Known(p)' \subseteq Known(p)
  BY <1>4, <1>6 DEF Known, Stored
<1>8. CallsAreBehind(p)'
  BY <1>2, <1>6 DEF CallsAreBehind, IsBehind
<1>9. \A a \in Accounts : store[a].cred # None => store[a].cred \in Credential
  BY <1>1 DEF Typed, IsStore, Record
<1>10. WritesAreNewer(p)'
  BY <1>4, <1>5, <1>9, AheadIsReflexive DEF Late, WritesAreNewer, isNewer
<1>11. QED
  BY <1>5, <1>6, <1>7, <1>8, <1>10, QuietKeepsLate

LEMMA TimeKeepsLate ==
  ASSUME Inv, NEW p \in Processes, Late(p), UNCHANGED <<store, pending, call, issued, spent>>,
         fresh' \subseteq fresh
  PROVE  Late(p)'
<1>1. issued \in Nat
  BY BoundsAssumption DEF Inv, Typed, AuthOK
<1>2. AuthGrows /\ view(p)' = view(p)
  BY <1>1 DEF AuthGrows, view
<1>3. Known(p)' \subseteq Known(p)
  BY <1>2 DEF Known, Stored, isResult, isAwaited, hasResult
<1>4. CallsAreBehind(p)' /\ WritesAreNewer(p)'
  BY <1>2 DEF Late, CallsAreBehind, WritesAreNewer
<1>5. \A l \in Calls : isResult(l)' => isResult(l)
  BY DEF isResult, isAwaited, hasResult
<1>6. QED
  BY <1>2, <1>3, <1>4, <1>5, QuietKeepsLate

LEMMA InitIsLate ==
  ASSUME Init, NEW p \in Processes
  PROVE  Late(p)
<1>1. PICK login \in [Accounts -> Accounts] :
        store = [a \in Accounts |->
          [generation |-> 1, deletedAt |-> 0,
           cred |-> [login |-> login[a], rotation |-> 0, token |-> login[a]]]]
  BY DEF Init
<1>2. view(p) = store /\ fresh = {} /\ issued = NumAccounts
  BY DEF Init, view
<1>3. \A c \in Calls : call[c].pc = "idle"
  BY DEF Init, NotStarted
<1>4. ASSUME NEW y \in Known(p)
      PROVE  y.login \in Nat /\ y.rotation = 0 /\ y.token = y.login
  <2>1. PICK a \in Accounts : y = store[a].cred
    BY <1>2, <1>3, <1>4 DEF Known, Stored, isResult, hasResult
  <2>2. login[a] \in Nat
    BY BoundsAssumption DEF Accounts
  <2>3. QED
    BY <1>1, <2>1, <2>2
<1>5. Ordered(Known(p))
  BY <1>2, <1>4 DEF Ordered, isFresh
<1>6. ResultsLead(p) /\ FetchesAreDue(p) /\ CallsAreBehind(p)
  BY <1>3 DEF ResultsLead, isResult, hasResult, FetchesAreDue, CallsAreBehind, IsBehind,
              Leading, Running
<1>7. \A a \in Accounts : /\ store[a].deletedAt = 0 /\ store[a].cred \in Credential
  BY <1>1, BoundsAssumption DEF Accounts, Credential
<1>8. WritesAreNewer(p)
  BY <1>2, <1>7, BoundsAssumption, AheadIsReflexive DEF WritesAreNewer, isNewer
<1>9. QED
  BY <1>5, <1>6, <1>8 DEF Late

LEMMA NextKeepsLate ==
  ASSUME Alone, Inv, Joins, NEW p \in Processes, Late(p), [Next]_vars, issued' \in Nat
  PROVE  Late(p)'
<1>1. ASSUME NEW c \in Calls,
             CallStep(c) \/ DeadlinePasses(c) \/ \E a \in Accounts : Begin(c, a)
      PROVE  Late(p)'
  <2>1. CASE \/ \E a \in Accounts : Begin(c, a)
             \/ JoinedFailed(c) \/ JoinedStartsAgain(c)
             \/ OpenLock(c) \/ WriteLock(c) \/ CheckLock(c) \/ UnlinkStale(c) \/ Wake(c)
             \/ LockedConflict(c) \/ FetchFails(c) \/ Release(c) \/ DeadlinePasses(c)
    <3>1. AuthGrows
      <4>1. UNCHANGED auth
        BY <2>1 DEF Begin, JoinedFailed, JoinedStartsAgain, OpenLock, WriteLock, CheckLock,
                    UnlinkStale, Wake, LockedConflict, FetchFails, Release, DeadlinePasses
      <4>2. QED
        BY <4>1, NothingIssued
    <3>2. QED
      BY <2>1, <3>1, StepCarries, CarriesKeepsLate
  <2>2. CASE \/ FetchIsLost(c)
             \/ \E rotates \in BOOLEAN :
                  FetchSucceeds(c, rotates) /\ ~isGenerationLive(call[c].account, call[c].generation)
    <3>1. AuthGrows
      <4>1. PICK rotates \in BOOLEAN : issues(call[c].cred, rotates)
        BY <2>2 DEF FetchIsLost, FetchSucceeds
      <4>2. issued \in Nat
        BY BoundsAssumption DEF Inv, Typed, AuthOK
      <4>3. QED
        BY <4>1, <4>2 DEF issues, AuthGrows
    <3>2. QED
      BY <2>2, <3>1, StepCarries, CarriesKeepsLate
  <2>3. QED
    BY <1>1, <2>1, <2>2, JoinedSavesKeepsLate, LockedFreshKeepsLate, LockedSharesKeepsLate,
       LockedFetchesKeepsLate, FetchSucceedsKeepsLate DEF CallStep
<1>2. ASSUME NEW q \in Processes PROVE q = p
  BY DEF Alone
<1>3. CASE \E q \in Processes : Persist(q) \/ Crash(q)
  BY <1>2, <1>3, PersistKeepsLate, CrashKeepsLate
<1>4. CASE \E q \in Processes, a \in Accounts : Login(q, a) \/ DeleteAccount(q, a)
  BY <1>2, <1>4, LoginKeepsLate, DeleteAccountKeepsLate
<1>5. CASE \/ \E key \in Fingerprint : LockGoesStale(key)
           \/ \E t \in 1..MaxIssued : TokenExpires(t)
           \/ UNCHANGED vars
  BY <1>5, TimeKeepsLate DEF LockGoesStale, TokenExpires, vars, auth
<1>6. QED
  BY <1>1, <1>3, <1>4, <1>5 DEF Next

-----------------------------------------------------------------------------
(* Theorems *)

\* Records, lock files, calls and tokens stay what they are declared to be;
\* in particular an exchange under way has the credential it exchanges.
THEOREM TypeCorrect == Spec => []TypeOK
<1>1. Inv => TypeOK
  BY TypedIsTyped DEF Inv
<1>2. QED
  BY <1>1, Invariance, PTL

\* In one process, refreshLocks alone keeps a grant from being exchanged
\* twice at a time: the leader of the grant is the only one that fetches.
THEOREM ExchangesAreSingle ==
  ASSUME Alone
  PROVE  Spec => []OneExchangePerGrant
<1>1. Inv => OneExchangePerGrant
  <2> SUFFICES ASSUME Inv, NEW c \in Calls, NEW d \in Calls,
                      call[c].pc = "fetching", call[d].pc = "fetching",
                      grant(call[c].cred) = grant(call[d].cred)
               PROVE  c = d
    BY DEF OneExchangePerGrant
  <2>1. isLeading(c) /\ isLeading(d) /\ processOf[c] = processOf[d]
    BY ProcessesAssumption DEF isLeading, Leading, Alone
  <2>2. call[c].key = call[d].key
    BY DEF Inv, FetchesItsGrant
  <2>3. QED
    BY <2>1, <2>2 DEF Inv, OneLeaderPerGrant
<1>2. QED
  BY <1>1, Invariance, PTL

\* In one process, no call gives up waiting for a lock file: one that is
\* still there at the deadline was left by a crash and is reclaimed.
THEOREM LocksAreReclaimed ==
  ASSUME Alone
  PROVE  Spec => []LeftoverLocksAreReclaimed
<1>1. Inv => LeftoverLocksAreReclaimed
  BY DEF Inv, WaitsForOne, WaitsFor, LeftoverLocksAreReclaimed
<1>2. QED
  BY <1>1, Invariance, PTL

\* The step of a call changes no other call.
LEMMA OthersStay ==
  ASSUME Typed, NEW c \in Calls, CallStep(c), NEW d \in Calls, d # c
  PROVE  call'[d] = call[d]
BY DEF CallStep, JoinedFailed, JoinedSaves, JoinedStartsAgain, OpenLock, WriteLock,
       CheckLock, UnlinkStale, Wake, LockedConflict, LockedFresh, LockedShares,
       LockedFetches, FetchSucceeds, FetchFails, FetchIsLost, Release, goto, ends,
       answers, settles, Typed

\* Whatever the processes, a call that saw the exchange it waited for
\* succeed does not start another one for the same grant: it starts again
\* only if its record has another grant by then.
THEOREM JoinersShare == Spec => JoinersShareTheExchange
<1> DEFINE Waits(c) ==
      call[c].pc = "joined" /\ call'[c].pc \in {"joined", "opening"}
        => call'[c] = call[c] \/ call'[c].key # call[c].key
<1>1. ASSUME Inv, [Next]_vars, NEW c \in Calls PROVE Waits(c)
  <2> SUFFICES ASSUME call[c].pc = "joined", call'[c].pc \in {"joined", "opening"}
               PROVE  call'[c] = call[c] \/ call'[c].key # call[c].key
    OBVIOUS
  <2>1. Typed
    BY <1>1 DEF Inv
  <2>2. ASSUME NEW d \in Calls, NEW a \in Accounts, Begin(d, a)
        PROVE  call'[c] = call[c]
    BY <2>1, <2>2 DEF Begin, Typed
  <2>3. ASSUME NEW d \in Calls, CallStep(d), d # c
        PROVE  call'[c] = call[c]
    BY <2>1, <2>3, OthersStay
  <2>4. ASSUME CallStep(c)
        PROVE  call'[c].key # call[c].key
    <3>1. JoinedFailed(c) \/ JoinedSaves(c) \/ JoinedStartsAgain(c)
      BY <2>4 DEF CallStep, OpenLock, WriteLock, CheckLock, UnlinkStale, Wake,
             LockedConflict, LockedFresh, LockedShares, LockedFetches, needsExchange,
             FetchSucceeds, FetchFails, FetchIsLost, Release, runs
    <3>2. ~JoinedFailed(c)
      BY <1>1, <2>1, EndedIsCall DEF JoinedFailed, ends, ended, NotStarted, Typed
    <3>3. ~JoinedSaves(c)
      <4> SUFFICES ASSUME JoinedSaves(c) PROVE FALSE
        OBVIOUS
      <4>1. call'[c].pc = "answered"
        BY <1>1, <2>1, JoinedSavesAnswers DEF Typed
      <4>2. QED
        BY <4>1
    <3>4. JoinedStartsAgain(c)
      BY <3>1, <3>2, <3>3
    <3>5. PICK x : x = entered(c, call[c].account)
      OBVIOUS
    <3>6. call'[c] = x
      BY <2>1, <3>4, <3>5 DEF JoinedStartsAgain, Typed
    <3>7. call[c].account \in Accounts
      BY <1>1, RecordOf
    <3>8. x.key = grant(store[call[c].account].cred)
      BY <2>1, <3>5, <3>6, <3>7, EnteredIsCall
    <3>9. store[call[c].account].cred # None
      <4> SUFFICES ASSUME store[call[c].account].cred = None PROVE FALSE
        OBVIOUS
      <4>1. x = ended("failed")
        BY <3>5 DEF entered
      <4>2. issued \in Nat /\ "failed" \in Ended \ {"answered"}
        BY <2>1 DEF Typed, AuthOK, Ended
      <4>3. x.pc = "failed"
        BY <4>1, <4>2, EndedIsCall
      <4>4. QED
        BY <3>6, <4>3
    <3>10. QED
      BY <3>4, <3>6, <3>8, <3>9 DEF JoinedStartsAgain, takesResult, refreshGrantFingerprint
  <2>5. ASSUME NEW d \in Calls, DeadlinePasses(d)
        PROVE  call'[c] = call[c]
    BY <2>1, <2>5 DEF DeadlinePasses, Typed
  <2>6. ASSUME NEW p \in Processes, Crash(p)
        PROVE  call'[c] = call[c]
    <3>1. PICK x : x = ended("crashed")
      OBVIOUS
    <3>2. issued \in Nat /\ "crashed" \in Ended \ {"answered"}
      BY <2>1 DEF Typed, AuthOK, Ended
    <3>3. x.pc = "crashed"
      BY <3>1, <3>2, EndedIsCall
    <3>4. call'[c] = x \/ call'[c] = call[c]
      BY <2>6, <3>1 DEF Crash
    <3>5. QED
      BY <3>3, <3>4
  <2>7. CASE UNCHANGED call
    BY <2>7
  <2>8. QED
    BY <1>1, <2>2, <2>3, <2>4, <2>5, <2>6, <2>7
       DEF Next, Persist, Login, DeleteAccount, LockGoesStale, TokenExpires, vars
<1>2. Inv /\ [Next]_vars => [\A c \in Calls : Waits(c)]_vars
  BY <1>1
<1>3. QED
  BY <1>2, Invariance, PTL DEF Spec, JoinersShareTheExchange

\* In one process, a call answers with the credential and the generation
\* that the store has, or is about to have: the exchange, the write and the
\* answer leave no gap in which another step of the process could change it.
THEOREM AnswersAreStored ==
  ASSUME Alone
  PROVE  Spec => AnswersMatchTheStore
<1> DEFINE Matches(c) ==
      call[c].pc # "answered" /\ call'[c].pc = "answered" =>
        LET p == processOf[c]
            s == IF pending'[p] = None THEN store' ELSE pending'[p]
            r == s[call'[c].account]
        IN  r.cred = call'[c].cred /\ r.generation = call'[c].generation
<1>1. ASSUME Inv, [Next]_vars, NEW c \in Calls PROVE Matches(c)
  <2> SUFFICES ASSUME call[c].pc # "answered", call'[c].pc = "answered"
               PROVE  /\ view(processOf[c])'[call'[c].account].cred = call'[c].cred
                      /\ view(processOf[c])'[call'[c].account].generation = call'[c].generation
    BY DEF view
  <2>1. Typed
    BY <1>1 DEF Inv
  <2>2. ASSUME NEW a \in Accounts, call' = [call EXCEPT ![c] = entered(c, a)],
               UNCHANGED <<store, pending>>, pending[processOf[c]] = None
        PROVE  /\ view(processOf[c])'[call'[c].account].cred = call'[c].cred
               /\ view(processOf[c])'[call'[c].account].generation = call'[c].generation
    <3>1. PICK x : x = entered(c, a)
      OBVIOUS
    <3>2. call'[c] = x
      BY <2>1, <2>2, <3>1 DEF Typed
    <3>3. x.account = a /\ x.cred = store[a].cred /\ x.generation = store[a].generation
      BY <2>1, <3>1, <3>2, EnteredIsCall
    <3>4. view(processOf[c])' = store
      BY <2>2 DEF view
    <3>5. QED
      BY <3>2, <3>3, <3>4
  <2>3. ASSUME NEW d \in Calls, d # c, \/ CallStep(d) \/ DeadlinePasses(d)
                                      \/ \E a \in Accounts : Begin(d, a)
        PROVE  FALSE
    <3>1. call'[c] = call[c]
      BY <2>1, <2>3, OthersStay DEF DeadlinePasses, Begin, Typed
    <3>2. QED
      BY <3>1
  <2>4. CASE \E a \in Accounts : Begin(c, a)
    BY <2>2, <2>4 DEF Begin, mayRun, isFree
  <2>5. CASE CallStep(c)
    <3>1. CASE JoinedStartsAgain(c)
      <4>1. call[c].account \in Accounts
        BY <1>1, RecordOf
      <4>2. QED
        BY <2>2, <3>1, <4>1 DEF JoinedStartsAgain, resumes, isFree
    <3>2. CASE JoinedSaves(c)
      <4>1. PICK x : /\ call' = [call EXCEPT ![c] = x]
                     /\ view(processOf[c])'[x.account].cred = x.cred
                     /\ view(processOf[c])'[x.account].generation = x.generation
        BY <1>1, <3>2, JoinedSavesAnswers
      <4>2. call'[c] = x
        BY <2>1, <4>1 DEF Typed
      <4>3. QED
        BY <4>1, <4>2
    <3>3. ASSUME NEW pc \in {"failed", "timedOut"}, ends(c, pc)
          PROVE  FALSE
      <4>1. PICK x : x = ended(pc)
        OBVIOUS
      <4>2. x.pc # "answered"
        BY <4>1, EndedIsRecord DEF Ended
      <4>3. call'[c] = x
        BY <2>1, <3>3, <4>1 DEF ends, Typed
      <4>4. QED
        BY <4>2, <4>3
    <3>4. CASE Release(c) /\ ~hasError(c)
      <4>1. call[c].cred \in Credential /\ isIssued(issued, call[c].cred) /\ call[c].generation \in Nat
        BY <2>1, <3>4 DEF Typed, IsCall, CallRecord, hasError
      <4>2. answers(c, call[c].cred, call[c].generation)
        BY <3>4 DEF Release
      <4>3. PICK x : /\ x.cred = call[c].cred /\ x.account = call[c].account
                     /\ x.generation = call[c].generation
                     /\ call' = [call EXCEPT ![c] = x]
        BY <1>1, <4>1, <4>2, AnswerIsCall
      <4>4. call'[c] = x
        BY <2>1, <4>3 DEF Typed
      <4>5. IsStored(call[c], view(processOf[c]))
        BY <1>1 DEF Inv, ResultsAreStored
      <4>6. view(processOf[c])' = view(processOf[c])
        BY <3>4 DEF Release, view
      <4>7. QED
        BY <3>4, <4>3, <4>4, <4>5, <4>6 DEF Release, runs, hasError, IsStored
    <3>5. CASE Release(c) /\ hasError(c)
      BY <3>3, <3>5 DEF Release
    <3>6. CASE JoinedFailed(c) \/ CheckLock(c)
      <4>1. call[c] \in CallRecord /\ ~ends(c, "failed") /\ ~ends(c, "timedOut")
        BY <2>1, <3>3 DEF Typed
      <4>2. call'[c].pc # "answered"
        BY <2>1, <3>6, <4>1 DEF JoinedFailed, CheckLock, goto, Typed, CallRecord
      <4>3. QED
        BY <4>2
    <3>7. ASSUME NEW pc \in Leading, goto(c, pc)
          PROVE  FALSE
      BY <2>1, <3>7 DEF goto, Leading, Running, Typed, CallRecord
    <3>8. CASE OpenLock(c) \/ WriteLock(c) \/ UnlinkStale(c) \/ Wake(c)
      <4>1. {"opening", "checking", "writing", "locked"} \subseteq Leading
        BY DEF Leading, Running
      <4>2. QED
        BY <3>7, <3>8, <4>1 DEF OpenLock, WriteLock, UnlinkStale, Wake
    <3>9. ASSUME NEW cred, NEW g, settles(c, cred, g)
          PROVE  FALSE
      BY <2>1, <3>9 DEF settles, Typed, CallRecord
    <3>10. CASE \/ LockedConflict(c) \/ LockedFresh(c) \/ LockedShares(c)
                \/ \E rotates \in BOOLEAN : FetchSucceeds(c, rotates)
                \/ FetchFails(c) \/ FetchIsLost(c)
      BY <3>9, <3>10 DEF LockedConflict, LockedFresh, LockedShares, FetchSucceeds,
                         FetchFails, FetchIsLost
    <3>11. CASE LockedFetches(c)
      BY <2>1, <3>11 DEF LockedFetches, Typed, CallRecord
    <3>12. QED
      BY <2>5, <3>1, <3>2, <3>4, <3>5, <3>6, <3>8, <3>10, <3>11 DEF CallStep
  <2>6. CASE DeadlinePasses(c)
    BY <2>1, <2>6 DEF DeadlinePasses, Typed, CallRecord
  <2>7. ASSUME NEW p \in Processes, Crash(p)
        PROVE  FALSE
    <3>1. PICK x : x = ended("crashed")
      OBVIOUS
    <3>2. x.pc = "crashed"
      BY <3>1, EndedIsRecord DEF Ended
    <3>3. call'[c] = x \/ call'[c] = call[c]
      BY <2>7, <3>1 DEF Crash
    <3>4. QED
      BY <3>2, <3>3
  <2>8. ~UNCHANGED call
    OBVIOUS
  <2>9. QED
    BY <1>1, <2>3, <2>4, <2>5, <2>6, <2>7, <2>8
       DEF Next, Persist, Login, DeleteAccount, LockGoesStale, TokenExpires, vars
<1>2. Inv /\ [Next]_vars => [\A c \in Calls : Matches(c)]_vars
  BY <1>1
<1>3. QED
  BY <1>2, Invariance, PTL DEF Spec, AnswersMatchTheStore

\* In one process, a refresh that ends late loses: whatever is written to the
\* store is of a newer login or of a newer refresh than what it replaces, or
\* deletes it.
THEOREM LateResultsLose ==
  ASSUME Alone
  PROVE  Spec => LateRefreshLoses
<1> DEFINE AllLate == \A p \in Processes : Late(p)
<1>1. Init => AllLate
  BY InitIsLate
<1>2. Inv /\ Joins /\ AllLate /\ [Next]_vars => AllLate'
  <2> SUFFICES ASSUME Inv, Joins, AllLate, [Next]_vars, NEW p \in Processes PROVE Late(p)'
    OBVIOUS
  <2>1. Inv'
    BY NextKeepsInv
  <2>2. issued' \in Nat
    BY <2>1, BoundsAssumption DEF Inv, Typed, AuthOK
  <2>3. QED
    BY <2>2, NextKeepsLate
<1>3. ASSUME Inv, AllLate, [Next]_vars
      PROVE  [\A a \in Accounts :
                store'[a].cred # None =>
                  IF store[a].cred = None
                    THEN store'[a].cred.login > store[a].deletedAt
                    ELSE \/ store'[a].cred.login > store[a].cred.login
                         \/ /\ store'[a].cred.login = store[a].cred.login
                            /\ store'[a].cred.token >= store[a].cred.token]_vars
  <2>1. \A a \in Accounts : store[a].cred # None => store[a].cred \in Credential
    BY <1>3 DEF Inv, Typed, IsStore, Record
  <2>2. CASE store' = store /\ Next
    <3> SUFFICES ASSUME NEW a \in Accounts, store[a].cred # None
                 PROVE  store[a].cred.token >= store[a].cred.token
      BY <2>2
    <3>1. QED
      BY <2>1 DEF Credential
  <2>3. ASSUME NEW p \in Processes, Persist(p)
        PROVE  \A a \in Accounts : isNewer(store[a], store'[a])
    <3>1. store' = view(p) /\ Late(p)
      BY <1>3, <2>3 DEF Persist, view
    <3>2. QED
      BY <3>1 DEF Late, WritesAreNewer
  <2>4. CASE \E p \in Processes : Persist(p)
    BY <2>3, <2>4 DEF isNewer, ahead
  <2>5. CASE UNCHANGED vars
    BY <2>5
  <2>6. Next /\ (\A p \in Processes : ~Persist(p)) => store' = store
    BY DEF Next, CallStep, Begin, JoinedFailed, JoinedSaves, JoinedStartsAgain, OpenLock,
           WriteLock, CheckLock, UnlinkStale, Wake, LockedConflict, LockedFresh, LockedShares,
           LockedFetches, FetchSucceeds, FetchFails, FetchIsLost, Release, DeadlinePasses,
           Crash, Login, DeleteAccount, LockGoesStale, TokenExpires
  <2>7. QED
    BY <1>3, <2>2, <2>4, <2>5, <2>6
<1>4. QED
  BY <1>1, <1>2, <1>3, JoinsInvariance, PTL DEF Spec, LateRefreshLoses

\* A process runs at most one call up to its next await, whatever happens.
THEOREM OneCallRuns == Spec => []OneRuns
<1>1. Inv /\ Joins => OneRuns
  BY DEF Joins
<1>2. QED
  BY <1>1, JoinsInvariance, PTL

=============================================================================
