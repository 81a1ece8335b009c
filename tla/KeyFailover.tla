----------------------------- MODULE KeyFailover -----------------------------
(***************************************************************************)
(* A provider with several API keys: a key that answers 429 is cooled down *)
(* and the request is sent again with another one.                         *)
(*                                                                         *)
(* rotateKeyOn429 (src/src/providers/key-failover.ts) runs without         *)
(* yielding on the shared provider configuration; the requests, which copy *)
(* that configuration when they are routed, and the operator commands of   *)
(* api-keys.ts interleave between the upstream calls.                      *)
(*                                                                         *)
(* A key may be written as a reference to an environment variable.  What a *)
(* request sends is then the resolved value, or, when it copies the        *)
(* configuration without resolving it, the reference itself.  Keys are     *)
(* their own ids; one provider, since cooldowns and pools are per provider;*)
(* the configuration in memory and on disk are one, since each change of   *)
(* the keys saves it.  Requests of a provider without a key are left out.  *)
(***************************************************************************)
EXTENDS Naturals, Sequences, SequencesExt

CONSTANTS
  Keys,        \* keys as they are written in the configuration
  EnvKeys,     \* those of them that are references
  None,        \* no key
  Pools,       \* the pools the configuration may start with
  Requests,
  Cooldowns,   \* parseRetryAfterMs, or the default
  MaxNow,      \* bound: the clock
  MaxCommands  \* bound: operator commands

ASSUME KeysAssumption == EnvKeys \subseteq Keys /\ None \notin Keys

\* The keys of a pool are distinct: an id is a hash of its key.
ASSUME PoolsAssumption ==
  /\ Pools \subseteq Seq(Keys)
  /\ \A p \in Pools : IsInjective(p)

ASSUME BoundsAssumption ==
  Cooldowns \subseteq Nat \ {0} /\ MaxNow \in Nat /\ MaxCommands \in Nat

VARIABLES
  now,
  pool,           \* provider.apiKeyPool; empty when there is none
  live,           \* provider.apiKey
  cooldownUntil,  \* keyCooldowns, 0 when there is none
  req,            \* the requests
  adding,         \* a POST of the provider that still has to add its key
  clearing,       \* key commands that still have to clear the cooldowns
  commands        \* how many commands were given

provider == <<pool, live>>
operator == <<adding, clearing, commands>>
vars == <<now, provider, cooldownUntil, req, operator>>

-----------------------------------------------------------------------------
(* Keys in the configuration and on the wire *)

resolved(k) == [value |-> k, resolved |-> TRUE]
written(k)  == [value |-> k, resolved |-> k \notin EnvKeys]

\* resolveEnvValue: of a written key, the key to send.
resolveEnvValue(k) == resolved(k)

\* The written key that equals a sent one, if any.
asWritten(sent) ==
  IF sent.resolved /\ sent.value \in EnvKeys THEN None ELSE sent.value

WireKey == [value : Keys, resolved : BOOLEAN]
NoKey   == [value |-> None, resolved |-> FALSE]

\* shares: its apiKeyPool is the array of the configuration, to which keys
\* are still added; otherwise an array of the given size.
Idle == [pc |-> "idle", key |-> NoKey, shares |-> FALSE, size |-> 0,
         imageRetried |-> FALSE]

TypeOK ==
  /\ now \in 0..MaxNow
  /\ pool \in Seq(Keys) /\ IsInjective(pool)
  /\ live \in Keys \union {None}
  /\ cooldownUntil \in [Keys -> Nat]
  /\ req \in [Requests ->
       [pc : {"idle", "waiting", "limited", "done"},
        key : WireKey \union {NoKey}, shares : BOOLEAN, size : Nat,
        imageRetried : BOOLEAN]]
  /\ \A r \in Requests : req[r].pc = "waiting" => req[r].key \in WireKey
  /\ adding \in Keys \union {None}
  /\ clearing \in Nat
  /\ commands \in 0..MaxCommands

isKeyInCooldown(k, until, t) == until[k] > t

pooled == ToSet(pool)

-----------------------------------------------------------------------------
(* rotateKeyOn429 *)

\* The entry of the key that was sent, if it is in the pool, is cooled.
cooled(sent, d) ==
  IF asWritten(sent) \in pooled
    THEN [cooldownUntil EXCEPT ![asWritten(sent)] = now + d]
    ELSE cooldownUntil

\* Fault: the rotation is not skipped when another request rotated first.
lostTheRaceUnseen(sent, until) == FALSE

\* Another request has rotated away from the key already, and the live key
\* can be used.
lostTheRace(sent, until) ==
  /\ live # asWritten(sent)
  /\ live \in pooled
  /\ ~isKeyInCooldown(live, until, now)

\* findIndex: where a key is in a pool, 0 when it is not there.
indexOf(p, k) == IF k \in ToSet(p) THEN CHOOSE i \in DOMAIN p : p[i] = k ELSE 0

\* Fault: the scan stops one key early.
scanOrderShort(sent) ==
  LET n == Len(pool)
      start == indexOf(pool, asWritten(sent))
  IN  [i \in 1..(n - 2) |-> pool[((start + i - 1) % n) + 1]]

\* The other keys in the order they are tried, from the one after the key
\* that failed.  When that key is not in the pool, the scan covers the first
\* keys but never the last one.
scanOrder(sent) ==
  LET n == Len(pool)
      start == indexOf(pool, asWritten(sent))
  IN  [i \in 1..(n - 1) |-> pool[((start + i - 1) % n) + 1]]

\* The first key of the scan that is not cooling down, None if there is none.
nextKey(sent, until) ==
  LET order == scanOrder(sent)
      usable == {i \in DOMAIN order : ~isKeyInCooldown(order[i], until, now)}
  IN  IF usable = {} THEN None
      ELSE order[CHOOSE i \in usable : \A j \in usable : i <= j]

-----------------------------------------------------------------------------
(* A request *)

\* Routing copies the provider and resolves its key.
Route(r) ==
  /\ req[r].pc = "idle"
  /\ live # None
  /\ req' = [req EXCEPT ![r] =
       [pc |-> "waiting", key |-> resolveEnvValue(live),
        shares |-> pool # <<>>, size |-> 0, imageRetried |-> FALSE]]
  /\ UNCHANGED <<now, provider, cooldownUntil, operator>>

isWaiting(r) == req[r].pc = "waiting"

\* A success, a failure that is not retried, or a client that went away.
Done(r) ==
  /\ isWaiting(r)
  /\ req' = [req EXCEPT ![r].pc = "done"]
  /\ UNCHANGED <<now, provider, cooldownUntil, operator>>

\* A 413 is answered by sending smaller images, once, with the same key.
ImagesTooLarge(r) ==
  /\ isWaiting(r)
  /\ ~req[r].imageRetried
  /\ req' = [req EXCEPT ![r].imageRetried = TRUE]
  /\ UNCHANGED <<now, provider, cooldownUntil, operator>>

\* hasKeyPoolFailover asks the request's copy of the pool, rotateKeyOn429
\* the pool itself.
mayFailover(r) ==
  /\ (IF req[r].shares THEN Len(pool) ELSE req[r].size) >= 2
  /\ Len(pool) >= 2

surface429(r) == req' = [req EXCEPT ![r].pc = "limited"]

\* The copy that rotateKeyOn429 returns holds the key as it is written.
retryWith(r, k) ==
  req' = [req EXCEPT ![r] =
    [pc |-> "waiting", key |-> written(k), shares |-> TRUE, size |-> 0,
     imageRetried |-> req[r].imageRetried]]

RateLimitedForGood(r) ==
  /\ isWaiting(r)
  /\ ~mayFailover(r)
  /\ surface429(r)
  /\ UNCHANGED <<now, provider, cooldownUntil, operator>>

RetryWithLiveKey(r) ==
  /\ isWaiting(r)
  /\ mayFailover(r)
  /\ \E d \in Cooldowns :
       /\ cooldownUntil' = cooled(req[r].key, d)
       /\ lostTheRace(req[r].key, cooldownUntil')
  /\ retryWith(r, live)
  /\ UNCHANGED <<now, provider, operator>>

RotateKey(r) ==
  /\ isWaiting(r)
  /\ mayFailover(r)
  /\ \E d \in Cooldowns :
       /\ cooldownUntil' = cooled(req[r].key, d)
       /\ ~lostTheRace(req[r].key, cooldownUntil')
  /\ LET k == nextKey(req[r].key, cooldownUntil') IN
       IF k # None
         THEN live' = k /\ retryWith(r, k)
         ELSE surface429(r) /\ UNCHANGED live
  /\ UNCHANGED <<now, pool, operator>>

-----------------------------------------------------------------------------
(* The clock and the operator *)

Tick ==
  /\ now < MaxNow
  /\ now' = now + 1
  /\ UNCHANGED <<provider, cooldownUntil, req, operator>>

command == commands < MaxCommands /\ commands' = commands + 1

\* ensurePool: the pool the key commands start from.
ensurePool == IF pool = <<>> /\ live # None THEN <<live>> ELSE pool

withKey(p, k) == IF k \in ToSet(p) THEN p ELSE Append(p, k)

\* Every key command clears the cooldowns, after it has yielded.
AddKey(k) ==
  /\ command
  /\ pool' = withKey(ensurePool, k)
  /\ live' = k
  /\ clearing' = clearing + 1
  /\ UNCHANGED <<now, cooldownUntil, req, adding>>

SetActiveKey(k) ==
  /\ command
  /\ k \in ToSet(ensurePool)
  /\ pool' = ensurePool
  /\ live' = k
  /\ clearing' = clearing + 1
  /\ UNCHANGED <<now, cooldownUntil, req, adding>>

\* Fault: removing the live key does not promote another one.
liveAfterRemovingKeeps(k, rest) == live

liveAfterRemoving(k, rest) ==
  IF live # k THEN live
  ELSE IF rest = <<>> THEN None
  ELSE rest[1]

\* The pool becomes a new array; requests keep the old one.
RemoveKey(k) ==
  /\ command
  /\ k \in ToSet(ensurePool)
  /\ pool' = RemoveAt(ensurePool, indexOf(ensurePool, k))
  /\ live' = liveAfterRemoving(k, pool')
  /\ req' = [r \in Requests |->
       IF req[r].shares
         THEN [pc |-> req[r].pc, key |-> req[r].key, shares |-> FALSE,
               size |-> Len(pool), imageRetried |-> req[r].imageRetried]
         ELSE req[r]]
  /\ clearing' = clearing + 1
  /\ UNCHANGED <<now, cooldownUntil, adding>>

ClearCooldowns ==
  /\ clearing > 0
  /\ clearing' = clearing - 1
  /\ cooldownUntil' = [k \in Keys |-> 0]
  /\ UNCHANGED <<now, provider, req, adding, commands>>

\* POST /api/providers keeps the pool and replaces the rest; the new key
\* joins the pool after the handler has yielded.
ReplaceProvider(k) ==
  /\ command
  /\ adding = None
  /\ live' = k
  /\ adding' = IF pool = <<>> THEN None ELSE k
  /\ UNCHANGED <<now, pool, cooldownUntil, req, clearing>>

AddReplacedKey ==
  /\ adding # None
  /\ pool' = withKey(ensurePool, adding)
  /\ live' = adding
  /\ adding' = None
  /\ UNCHANGED <<now, cooldownUntil, req, clearing, commands>>

\* The configuration survives a restart, the cooldowns do not.
Restart ==
  /\ command
  /\ cooldownUntil' = [k \in Keys |-> 0]
  /\ req' = [r \in Requests |-> Idle]
  /\ adding' = None
  /\ clearing' = 0
  /\ UNCHANGED <<now, provider>>

-----------------------------------------------------------------------------
Init ==
  /\ now = 0
  /\ pool \in Pools
  /\ live \in IF pool = <<>> THEN Keys ELSE pooled
  /\ cooldownUntil = [k \in Keys |-> 0]
  /\ req = [r \in Requests |-> Idle]
  /\ adding = None
  /\ clearing = 0
  /\ commands = 0

RequestStep(r) ==
  \/ Route(r)
  \/ Done(r)
  \/ ImagesTooLarge(r)
  \/ RateLimitedForGood(r)
  \/ RetryWithLiveKey(r)
  \/ RotateKey(r)

Command ==
  \/ \E k \in Keys : AddKey(k) \/ SetActiveKey(k) \/ RemoveKey(k)
  \/ \E k \in Keys \union {None} : ReplaceProvider(k)
  \/ Restart

Next ==
  \/ \E r \in Requests : RequestStep(r)
  \/ Command
  \/ AddReplacedKey
  \/ ClearCooldowns
  \/ Tick

Spec == Init /\ [][Next]_vars

-----------------------------------------------------------------------------
(* Properties *)

\* A 429 cools the key that was sent, never an innocent one: not the key
\* that another request has rotated to meanwhile.
OnlyFailedKeysAreCooled ==
  [][\A k \in Keys :
       cooldownUntil'[k] > now /\ cooldownUntil'[k] # cooldownUntil[k]
       => \E r \in Requests :
            isWaiting(r) /\ req[r].key.value = k /\ req'[r] # req[r]]_vars

\* Two requests that fail with the same key rotate once: the second one
\* does not move the live key that the first one chose, unless it has
\* failed too.
HealthyLiveKeyIsKept ==
  [][\A r \in Requests :
       (/\ isWaiting(r)
        /\ req'[r].key # req[r].key
        /\ live \in pooled /\ live # req[r].key.value
        /\ cooldownUntil[live] <= now)
       => UNCHANGED live]_vars

isMirrored == pool = <<>> \/ live \in pooled \union {None, adding}

\* The live key, if there is one (replacing the provider by one without a key
\* keeps the pool), mirrors an entry of the pool, and keeps doing so when keys
\* are removed or the provider is replaced while requests rotate.  (The key
\* of a replacement that is under way joins the pool later; a crash before
\* it does is what can lose the mirror.)
LiveKeyStaysPooled ==
  [][isMirrored => isMirrored' \/ (adding # None /\ req' = [r \in Requests |-> Idle])]_vars

\* A request that may fail over is refused only when the pool has nothing
\* left for it: every key cools, with one exception.  The scan for a request
\* whose key is not in the pool, because it was removed or is sent resolved
\* where the pool has a reference, passes over the last key of the pool, so
\* that one is offered to it only while it is the live one.
isPassedOver(r, k) ==
  asWritten(req[r].key) \notin pooled /\ k = Last(pool) /\ k # live

RefusedOnlyWhenAllCooled ==
  [][\A r \in Requests :
       (isWaiting(r) /\ req'[r].pc = "limited" /\ mayFailover(r))
       => \A k \in pooled : cooldownUntil'[k] > now \/ isPassedOver(r, k)]_vars

=============================================================================
