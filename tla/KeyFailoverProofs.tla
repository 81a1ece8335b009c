-------------------------- MODULE KeyFailoverProofs --------------------------
(***************************************************************************)
(* Proofs about KeyFailover, for any keys, pools and requests.             *)
(***************************************************************************)
EXTENDS KeyFailover, FiniteSetTheorems, WellFoundedInduction, SequenceTheorems,
        TLAPS

\* A nonempty set of numbers has a least one.
LEMMA LeastNumber ==
  ASSUME NEW S \in SUBSET Nat, S # {}
  PROVE  \E i \in S : \A j \in S : i <= j
<1> DEFINE less == OpToRel(<, Nat)
<1>1. IsWellFoundedOn(less, Nat)
  BY NatLessThanWellFounded
<1>2. \A x, y \in Nat : <<y, x>> \in less <=> y < x
  BY DEF OpToRel
<1> HIDE DEF less
<1>3. PICK i \in S : \A j \in S : ~(<<j, i>> \in less)
  BY <1>1, WFMin
<1>4. ASSUME NEW j \in S PROVE i <= j
  <2>1. i \in Nat /\ j \in Nat
    BY <1>3
  <2>2. ~(j < i)
    BY <1>2, <1>3, <2>1
  <2> QED BY <2>1, <2>2
<1> QED BY <1>3, <1>4

-----------------------------------------------------------------------------
(* Pools *)

\* A pool as the configuration holds it: keys, none of them twice.
IsPool(p) == p \in Seq(Keys) /\ IsInjective(p)

\* A key of a pool has an index, the one it is found at.
LEMMA IndexOfKey ==
  ASSUME NEW p \in Seq(Keys), NEW k \in ToSet(p)
  PROVE  /\ indexOf(p, k) \in 1..Len(p)
         /\ p[indexOf(p, k)] = k
<1>1. \E i \in DOMAIN p : p[i] = k
  BY DEF ToSet
<1>2. indexOf(p, k) \in DOMAIN p /\ p[indexOf(p, k)] = k
  BY <1>1 DEF indexOf
<1> QED BY <1>2

\* Adding a key keeps a pool a pool, whether or not it is there already.
LEMMA WithKey ==
  ASSUME NEW p, IsPool(p), NEW k \in Keys
  PROVE  /\ IsPool(withKey(p, k))
         /\ ToSet(withKey(p, k)) = ToSet(p) \union {k}
<1>1. CASE k \in ToSet(p)
  BY <1>1 DEF withKey
<1>2. CASE k \notin ToSet(p)
  <2> DEFINE q == Append(p, k)
  <2>1. /\ q \in Seq(Keys)
        /\ DOMAIN q = 1..(Len(p) + 1)
        /\ DOMAIN p = 1..Len(p)
        /\ Len(p) \in Nat
        /\ \A i \in 1..Len(p) : q[i] = p[i]
        /\ q[Len(p) + 1] = k
    BY DEF IsPool
  <2>2. \A i \in 1..Len(p) : p[i] # k
    BY <1>2, <2>1 DEF ToSet
  <2>3. IsInjective(q)
    <3> SUFFICES ASSUME NEW a \in 1..(Len(p) + 1), NEW b \in 1..(Len(p) + 1), q[a] = q[b]
                 PROVE  a = b
      BY <2>1 DEF IsInjective
    <3>1. CASE a = Len(p) + 1 \/ b = Len(p) + 1
      BY <2>1, <2>2, <3>1
    <3>2. CASE a \in 1..Len(p) /\ b \in 1..Len(p)
      BY <2>1, <3>2 DEF IsPool, IsInjective
    <3> QED BY <2>1, <3>1, <3>2
  <2>4. ToSet(q) = ToSet(p) \union {k}
    BY <2>1 DEF ToSet
  <2> QED BY <1>2, <2>1, <2>3, <2>4 DEF withKey, IsPool
<1> QED BY <1>1, <1>2

\* Removing a key leaves a pool of the other keys.
LEMMA WithoutKey ==
  ASSUME NEW p, IsPool(p), NEW k \in ToSet(p)
  PROVE  /\ IsPool(RemoveAt(p, indexOf(p, k)))
         /\ ToSet(RemoveAt(p, indexOf(p, k))) = ToSet(p) \ {k}
<1> DEFINE n == Len(p)
           at == indexOf(p, k)
           q  == RemoveAt(p, at)
<1>1. /\ p \in Seq(Keys) /\ n \in Nat
      /\ at \in 1..n /\ p[at] = k
      /\ DOMAIN p = 1..n
  BY IndexOfKey DEF IsPool
<1> HIDE DEF at, n
<1>2. /\ q \in Seq(Keys)
      /\ DOMAIN q = 1..(n - 1)
      /\ \A i \in 1..(n - 1) : q[i] = IF i < at THEN p[i] ELSE p[i + 1]
  <2> DEFINE s == SubSeq(p, 1, at - 1)
             t == SubSeq(p, at + 1, n)
  <2>1. /\ s \in Seq(Keys) /\ Len(s) = at - 1
        /\ \A i \in 1..(at - 1) : s[i] = p[i]
    <3>1. \A i \in 1..(at - 1) : p[i] \in Keys
      BY <1>1
    <3>2. 1 \in Int /\ at - 1 \in Int
      BY <1>1
    <3> QED BY <1>1, <3>1, <3>2, SubSeqProperties
  <2>2. /\ t \in Seq(Keys) /\ Len(t) = n - at
        /\ \A i \in 1..(n - at) : t[i] = p[at + i]
    <3>1. \A i \in (at + 1)..n : p[i] \in Keys
      BY <1>1
    <3>2. at + 1 \in Int /\ n \in Int
      BY <1>1
    <3>3. /\ t \in Seq(Keys)
          /\ Len(t) = IF at + 1 <= n THEN n - (at + 1) + 1 ELSE 0
          /\ \A i \in 1..(n - (at + 1) + 1) : t[i] = p[at + 1 + i - 1]
      BY <3>1, <3>2, SubSeqProperties
    <3> HIDE DEF t
    <3>4. Len(t) = n - at
      <4>1. CASE at + 1 <= n
        BY <1>1, <3>3, <4>1
      <4>2. CASE at = n
        BY <1>1, <3>3, <4>2
      <4> QED BY <1>1, <4>1, <4>2
    <3>5. ASSUME NEW i \in 1..(n - at) PROVE t[i] = p[at + i]
      <4>1. i \in 1..(n - (at + 1) + 1) /\ at + 1 + i - 1 = at + i
        BY <1>1
      <4> QED BY <3>3, <4>1
    <3> QED BY <3>3, <3>4, <3>5
  <2> HIDE DEF s, t
  <2>3. /\ s \o t \in Seq(Keys)
        /\ Len(s \o t) = n - 1
        /\ \A i \in 1..(n - 1) : (s \o t)[i] = IF i < at THEN s[i] ELSE t[i - at + 1]
    <3>1. /\ s \o t \in Seq(Keys)
          /\ Len(s \o t) = Len(s) + Len(t)
          /\ \A i \in 1..(Len(s) + Len(t)) :
               (s \o t)[i] = IF i <= Len(s) THEN s[i] ELSE t[i - Len(s)]
      BY <2>1, <2>2, ConcatProperties
    <3>2. Len(s) + Len(t) = n - 1
      BY <1>1, <2>1, <2>2
    <3>3. \A i \in 1..(n - 1) : (i <= Len(s) <=> i < at) /\ i - Len(s) = i - at + 1
      BY <1>1, <2>1
    <3> QED BY <3>1, <3>2, <3>3
  <2>4. q = s \o t
    BY DEF RemoveAt, s, t, n
  <2>5. DOMAIN (s \o t) = 1..(n - 1)
    BY <1>1, <2>3, LenProperties
  <2>6. ASSUME NEW i \in 1..(n - 1)
        PROVE  (s \o t)[i] = IF i < at THEN p[i] ELSE p[i + 1]
    <3>1. CASE i < at
      BY <1>1, <2>1, <2>3, <3>1
    <3>2. CASE ~(i < at)
      <4>1. i - at + 1 \in 1..(n - at)
        BY <1>1, <3>2
      <4>2. at + (i - at + 1) = i + 1
        BY <1>1
      <4> QED BY <2>2, <2>3, <3>2, <4>1, <4>2
    <3> QED BY <3>1, <3>2
  <2> HIDE DEF q
  <2> QED BY <2>3, <2>4, <2>5, <2>6
<1> HIDE DEF q
<1>3. \A a, b \in 1..n : p[a] = p[b] => a = b
  BY <1>1 DEF IsPool, IsInjective
<1>4. IsInjective(q)
  BY <1>1, <1>2, <1>3 DEF IsInjective
<1>5. ToSet(q) = ToSet(p) \ {k}
  <2>1. ASSUME NEW i \in 1..(n - 1) PROVE q[i] \in ToSet(p) \ {k}
    BY <1>1, <1>2, <1>3 DEF ToSet
  <2>2. ASSUME NEW j \in 1..n, p[j] # k PROVE \E i \in 1..(n - 1) : q[i] = p[j]
    <3>1. CASE j < at
      BY <1>1, <1>2, <3>1
    <3>2. CASE j > at
      <4>1. j - 1 \in 1..(n - 1) /\ ~(j - 1 < at) /\ (j - 1) + 1 = j
        BY <1>1, <3>2
      <4>2. q[j - 1] = p[j]
        BY <1>2, <4>1
      <4> QED BY <4>1, <4>2
    <3> QED BY <1>1, <2>2, <3>1, <3>2
  <2>3. ToSet(q) = {q[i] : i \in 1..(n - 1)} /\ ToSet(p) = {p[j] : j \in 1..n}
    BY <1>1, <1>2 DEF ToSet
  <2>4. ToSet(q) \subseteq ToSet(p) \ {k}
    BY <2>1, <2>3
  <2>5. ASSUME NEW x \in ToSet(p) \ {k} PROVE x \in ToSet(q)
    <3>1. PICK j \in 1..n : p[j] = x
      BY <2>3
    <3>2. PICK i \in 1..(n - 1) : q[i] = p[j]
      BY <2>2, <3>1
    <3> QED BY <2>3, <3>1, <3>2
  <2> QED BY <2>4, <2>5
<1> QED BY <1>2, <1>4, <1>5 DEF IsPool, q, at

\* The pool that the key commands start from holds the live key when it is
\* made up from it.
LEMMA EnsurePool ==
  ASSUME TypeOK
  PROVE  /\ IsPool(ensurePool)
         /\ \/ ToSet(ensurePool) = pooled
            \/ pool = <<>> /\ live \in Keys /\ ToSet(ensurePool) = {live}
<1>1. CASE pool = <<>> /\ live # None
  <2>1. /\ live \in Keys
        /\ <<live>> \in Seq(Keys)
        /\ DOMAIN <<live>> = {1} /\ <<live>>[1] = live
    BY <1>1 DEF TypeOK
  <2> QED BY <1>1, <2>1 DEF ensurePool, IsPool, IsInjective, ToSet
<1>2. CASE ~(pool = <<>> /\ live # None)
  BY <1>2 DEF TypeOK, ensurePool, IsPool, pooled
<1> QED BY <1>1, <1>2

-----------------------------------------------------------------------------
(* The scan of rotateKeyOn429 *)

\* Counting on from position s of n, around the end, reaches position j.
LEMMA AroundTheEnd ==
  ASSUME NEW n \in Nat, NEW s \in 1..n, NEW j \in 1..n, j # s
  PROVE  \E i \in 1..(n - 1) : ((s + i - 1) % n) + 1 = j
<1>1. CASE j > s
  <2>1. (j - 1) % n = j - 1
    OBVIOUS
  <2>2. PICK i \in 1..(n - 1) : s + i - 1 = j - 1
    <3>1. j - s \in 1..(n - 1) /\ s + (j - s) - 1 = j - 1
      BY <1>1
    <3> QED BY <3>1
  <2>3. ((s + i - 1) % n) + 1 = j
    BY <2>1, <2>2
  <2> QED BY <2>3
<1>2. CASE j < s
  <2>1. (n + (j - 1)) % n = j - 1
    OBVIOUS
  <2>2. PICK i \in 1..(n - 1) : s + i - 1 = n + (j - 1)
    <3>1. j - s + n \in 1..(n - 1) /\ s + (j - s + n) - 1 = n + (j - 1)
      BY <1>2
    <3> QED BY <3>1
  <2>3. ((s + i - 1) % n) + 1 = j
    BY <2>1, <2>2
  <2> QED BY <2>3
<1> QED BY <1>1, <1>2

\* The scan tries keys of the pool, and every one but the key that failed
\* when that key is found in the pool.
LEMMA ScanCoversTheOthers ==
  ASSUME TypeOK, NEW sent
  PROVE  /\ DOMAIN scanOrder(sent) = 1..(Len(pool) - 1)
         /\ \A i \in DOMAIN scanOrder(sent) : scanOrder(sent)[i] \in pooled
         /\ asWritten(sent) \in pooled =>
              \A k \in pooled \ {asWritten(sent)} :
                \E i \in DOMAIN scanOrder(sent) : scanOrder(sent)[i] = k
<1> DEFINE n == Len(pool)
           start == indexOf(pool, asWritten(sent))
           order == scanOrder(sent)
<1>1. pool \in Seq(Keys) /\ n \in Nat /\ DOMAIN pool = 1..n
  BY DEF TypeOK
<1>2. start \in Nat
  <2>1. CASE asWritten(sent) \in ToSet(pool)
    BY <1>1, <2>1, IndexOfKey
  <2>2. CASE asWritten(sent) \notin ToSet(pool)
    BY <2>2 DEF indexOf
  <2> QED BY <2>1, <2>2
<1>3. order = [i \in 1..(n - 1) |-> pool[((start + i - 1) % n) + 1]]
  BY DEF scanOrder
<1>4. asWritten(sent) \in pooled => start \in 1..n /\ pool[start] = asWritten(sent)
  BY <1>1, IndexOfKey DEF pooled
<1> HIDE DEF start, order
<1>5. DOMAIN order = 1..(n - 1)
  BY <1>3
<1>6. ASSUME NEW i \in 1..(n - 1) PROVE order[i] \in pooled
  <2>1. n >= 1 /\ start + i - 1 \in Int
    BY <1>1, <1>2
  <2>2. ((start + i - 1) % n) + 1 \in 1..n
    BY <1>1, <2>1
  <2> QED BY <1>1, <1>3, <2>2 DEF pooled, ToSet
<1>7. ASSUME asWritten(sent) \in pooled, NEW k \in pooled \ {asWritten(sent)}
      PROVE  \E i \in 1..(n - 1) : order[i] = k
  <2>1. PICK j \in 1..n : pool[j] = k
    BY <1>1 DEF pooled, ToSet
  <2>2. PICK i \in 1..(n - 1) : ((start + i - 1) % n) + 1 = j
    BY <1>1, <1>4, <1>7, <2>1, AroundTheEnd
  <2> QED BY <1>3, <2>1, <2>2
<1> QED BY <1>5, <1>6, <1>7 DEF order

\* When the key that failed is not found, the scan tries every key but the
\* last one.
LEMMA ScanWithoutTheKey ==
  ASSUME TypeOK, NEW sent, asWritten(sent) \notin pooled,
         NEW k \in pooled, k # Last(pool)
  PROVE  \E i \in DOMAIN scanOrder(sent) : scanOrder(sent)[i] = k
<1> DEFINE n == Len(pool)
<1>1. pool \in Seq(Keys) /\ n \in Nat /\ DOMAIN pool = 1..n
  BY DEF TypeOK
<1>2. PICK j \in 1..n : pool[j] = k
  BY <1>1 DEF pooled, ToSet
<1>3. j \in 1..(n - 1)
  BY <1>1, <1>2 DEF Last
<1>4. indexOf(pool, asWritten(sent)) = 0
  BY DEF indexOf, pooled
<1>5. scanOrder(sent) = [i \in 1..(n - 1) |-> pool[((0 + i - 1) % n) + 1]]
  BY <1>4 DEF scanOrder
<1>6. ((0 + j - 1) % n) + 1 = j
  <2>1. (j - 1) % n = j - 1
    BY <1>1, <1>3
  <2> QED BY <1>3, <2>1
<1> QED BY <1>2, <1>3, <1>5, <1>6

\* The key that is rotated to is in the pool and is not cooling down; there
\* is none only when every other key that is tried is cooling down.
LEMMA NextKey ==
  ASSUME TypeOK, NEW sent, NEW until
  PROVE  /\ nextKey(sent, until) # None =>
              /\ nextKey(sent, until) \in pooled
              /\ ~isKeyInCooldown(nextKey(sent, until), until, now)
         /\ nextKey(sent, until) = None =>
              \A k \in pooled \ {asWritten(sent)} :
                asWritten(sent) \in pooled \/ k # Last(pool)
                => isKeyInCooldown(k, until, now)
<1> DEFINE order == scanOrder(sent)
           usable == {i \in DOMAIN order : ~isKeyInCooldown(order[i], until, now)}
<1>1. usable \subseteq DOMAIN order /\ usable \in SUBSET Nat
  BY ScanCoversTheOthers
<1>2. CASE usable = {}
  <2>1. nextKey(sent, until) = None
    BY <1>2 DEF nextKey
  <2>2. \A i \in DOMAIN order : isKeyInCooldown(order[i], until, now)
    BY <1>2
  <2>3. ASSUME NEW k \in pooled \ {asWritten(sent)},
               asWritten(sent) \in pooled \/ k # Last(pool)
        PROVE  \E i \in DOMAIN order : order[i] = k
    BY <2>3, ScanCoversTheOthers, ScanWithoutTheKey
  <2> HIDE DEF order
  <2> QED BY <2>1, <2>2, <2>3
<1>3. CASE usable # {}
  <2> DEFINE least == CHOOSE i \in usable : \A j \in usable : i <= j
  <2>1. \E i \in usable : \A j \in usable : i <= j
    BY <1>1, <1>3, LeastNumber
  <2>2. least \in usable
    BY <2>1
  <2>3. nextKey(sent, until) = order[least]
    BY <1>3 DEF nextKey
  <2>4. order[least] \in pooled /\ ~isKeyInCooldown(order[least], until, now)
    BY <1>1, <2>2, ScanCoversTheOthers
  <2>5. order[least] # None
    BY <2>4, KeysAssumption DEF pooled, ToSet, TypeOK
  <2> HIDE DEF order, least
  <2> QED BY <2>3, <2>4, <2>5
<1> HIDE DEF usable
<1> QED BY <1>2, <1>3

-----------------------------------------------------------------------------
(* Type correctness *)

Request ==
  [pc : {"idle", "waiting", "limited", "done"},
   key : WireKey \union {NoKey}, shares : BOOLEAN, size : Nat,
   imageRetried : BOOLEAN]

\* The values requests have, and that those under way carry a key.
AreRequests(rs) ==
  /\ rs \in [Requests -> Request]
  /\ \A r \in Requests : rs[r].pc = "waiting" => rs[r].key \in WireKey

LEMMA TypeRequests == TypeOK => AreRequests(req)
BY DEF TypeOK, AreRequests, Request

LEMMA TypeInit == Init => TypeOK
<1> SUFFICES ASSUME Init PROVE TypeOK
  OBVIOUS
<1>1. pool \in Seq(Keys) /\ IsInjective(pool)
  BY PoolsAssumption DEF Init
<1>2. live \in Keys \union {None}
  BY <1>1 DEF Init, pooled, ToSet
<1>3. Idle \in Request /\ Idle.pc # "waiting"
  BY DEF Idle, Request
<1>4. AreRequests(req)
  BY <1>3 DEF Init, AreRequests
<1> QED BY <1>1, <1>2, <1>4, BoundsAssumption DEF Init, TypeOK, AreRequests, Request

\* One request gets another value.
LEMMA RequestChanges ==
  ASSUME TypeOK, NEW r \in Requests, NEW x \in Request,
         x.pc = "waiting" => x.key \in WireKey,
         req' = [req EXCEPT ![r] = x]
  PROVE  AreRequests(req')
BY TypeRequests DEF AreRequests

\* The cooldown of a key that failed.
LEMMA Cooled ==
  ASSUME TypeOK, NEW sent, NEW d \in Cooldowns
  PROVE  /\ cooled(sent, d) \in [Keys -> Nat]
         /\ \A k \in Keys : cooled(sent, d)[k] =
              IF k = asWritten(sent) /\ k \in pooled THEN now + d ELSE cooldownUntil[k]
<1>1. now + d \in Nat
  BY BoundsAssumption DEF TypeOK
<1>2. pooled \subseteq Keys
  BY DEF TypeOK, pooled, ToSet
<1> QED BY <1>1, <1>2 DEF cooled, TypeOK

\* A retry carries the key that it is given.
LEMMA Retry ==
  ASSUME TypeOK, NEW r \in Requests, NEW k \in Keys, retryWith(r, k)
  PROVE  AreRequests(req')
<1> DEFINE x == [pc |-> "waiting", key |-> written(k), shares |-> TRUE, size |-> 0,
                 imageRetried |-> req[r].imageRetried]
<1>1. written(k) \in WireKey
  BY DEF written, WireKey
<1>2. x \in Request
  BY <1>1 DEF TypeOK, Request
<1>3. req' = [req EXCEPT ![r] = x]
  BY DEF retryWith
<1>4. x.key \in WireKey
  BY <1>1
<1> HIDE DEF x
<1> QED BY <1>2, <1>3, <1>4, RequestChanges

LEMMA Surface ==
  ASSUME TypeOK, NEW r \in Requests, surface429(r)
  PROVE  AreRequests(req')
<1> DEFINE x == [req[r] EXCEPT !.pc = "limited"]
<1>1. x \in Request /\ x.pc # "waiting"
  BY DEF TypeOK, Request
<1>2. req' = [req EXCEPT ![r] = x]
  BY DEF surface429
<1> HIDE DEF x
<1> QED BY <1>1, <1>2, RequestChanges

\* The variables other than the requests have their types.
ProviderOK ==
  /\ now \in 0..MaxNow
  /\ pool \in Seq(Keys) /\ IsInjective(pool)
  /\ live \in Keys \union {None}
  /\ cooldownUntil \in [Keys -> Nat]
  /\ adding \in Keys \union {None}
  /\ clearing \in Nat
  /\ commands \in 0..MaxCommands

LEMMA TypeParts ==
  /\ TypeOK => ProviderOK
  /\ ProviderOK' /\ AreRequests(req') => TypeOK'
BY DEF TypeOK, ProviderOK, AreRequests, Request

\* The steps of a request.
LEMMA TypeRequestStep ==
  ASSUME TypeOK, NEW r \in Requests, RequestStep(r)
  PROVE  TypeOK'
<1> USE DEF vars, provider, operator
<1>0. pooled \subseteq Keys
  BY DEF TypeOK, pooled, ToSet
<1>1. CASE Route(r)
  <2> DEFINE x == [pc |-> "waiting", key |-> resolveEnvValue(live),
                   shares |-> pool # <<>>, size |-> 0, imageRetried |-> FALSE]
  <2>1. resolveEnvValue(live) \in WireKey
    BY <1>1 DEF Route, resolveEnvValue, resolved, WireKey, TypeOK
  <2>2. x \in Request /\ x.key \in WireKey
    BY <2>1 DEF Request
  <2>3. req' = [req EXCEPT ![r] = x]
    BY <1>1 DEF Route
  <2> HIDE DEF x
  <2>4. AreRequests(req')
    BY <2>2, <2>3, RequestChanges
  <2> QED BY <1>1, <2>4, TypeParts DEF Route, ProviderOK
<1>2. CASE Done(r) \/ ImagesTooLarge(r)
  <2>1. PICK x \in Request : /\ req' = [req EXCEPT ![r] = x]
                             /\ x.key = req[r].key
    <3>1. CASE Done(r)
      <4>1. [req[r] EXCEPT !.pc = "done"] \in Request
        BY DEF TypeOK, Request
      <4>2. req' = [req EXCEPT ![r] = [req[r] EXCEPT !.pc = "done"]]
        BY <3>1 DEF Done
      <4> QED BY <4>1, <4>2 DEF TypeOK
    <3>2. CASE ImagesTooLarge(r)
      <4>1. [req[r] EXCEPT !.imageRetried = TRUE] \in Request
        BY DEF TypeOK, Request
      <4>2. req' = [req EXCEPT ![r] = [req[r] EXCEPT !.imageRetried = TRUE]]
        BY <3>2 DEF ImagesTooLarge
      <4> QED BY <4>1, <4>2 DEF TypeOK
    <3> QED BY <1>2, <3>1, <3>2
  <2>2. req[r].key \in WireKey
    BY <1>2 DEF Done, ImagesTooLarge, isWaiting, TypeOK
  <2>3. AreRequests(req')
    BY <2>1, <2>2, RequestChanges
  <2> QED BY <1>2, <2>3, TypeParts DEF Done, ImagesTooLarge, ProviderOK
<1>3. CASE RateLimitedForGood(r)
  <2>1. AreRequests(req')
    BY <1>3, Surface DEF RateLimitedForGood
  <2> QED BY <1>3, <2>1, TypeParts DEF RateLimitedForGood, ProviderOK
<1>4. CASE RetryWithLiveKey(r)
  <2>1. cooldownUntil' \in [Keys -> Nat]
    BY <1>4, Cooled DEF RetryWithLiveKey
  <2>2. live \in Keys
    BY <1>0, <1>4 DEF RetryWithLiveKey, lostTheRace
  <2>3. AreRequests(req')
    BY <1>4, <2>2, Retry DEF RetryWithLiveKey
  <2> QED BY <1>4, <2>1, <2>3, TypeParts DEF RetryWithLiveKey, ProviderOK
<1>5. CASE RotateKey(r)
  <2> DEFINE k == nextKey(req[r].key, cooldownUntil')
  <2>1. cooldownUntil' \in [Keys -> Nat]
    BY <1>5, Cooled DEF RotateKey
  <2>2. k # None => k \in Keys
    BY <1>0, NextKey
  <2>3. IF k # None THEN live' = k /\ retryWith(r, k)
        ELSE surface429(r) /\ UNCHANGED live
    BY <1>5 DEF RotateKey
  <2> HIDE DEF k
  <2>4. AreRequests(req') /\ live' \in Keys \union {None}
    <3>1. CASE k # None
      BY <2>2, <2>3, <3>1, Retry
    <3>2. CASE k = None
      BY <2>3, <3>2, Surface DEF TypeOK
    <3> QED BY <3>1, <3>2
  <2> QED BY <1>5, <2>1, <2>4, TypeParts DEF RotateKey, ProviderOK
<1> QED BY <1>1, <1>2, <1>3, <1>4, <1>5 DEF RequestStep

\* The commands of the operator.
LEMMA TypeCommand ==
  ASSUME TypeOK, Command
  PROVE  TypeOK'
<1> USE DEF vars, provider
<1>1. ProviderOK /\ AreRequests(req)
  BY TypeParts, TypeRequests
<1>2. command => commands' \in 0..MaxCommands
  BY <1>1, BoundsAssumption DEF command, ProviderOK
<1>3. clearing + 1 \in Nat
  BY <1>1 DEF ProviderOK
<1>4. IsPool(ensurePool) /\ ToSet(ensurePool) \subseteq Keys
  BY EnsurePool DEF IsPool, ToSet
<1>5. ASSUME NEW k \in Keys, AddKey(k) PROVE TypeOK'
  <2>1. IsPool(pool')
    BY <1>4, <1>5, WithKey DEF AddKey
  <2> QED BY <1>1, <1>2, <1>3, <1>5, <2>1, TypeParts DEF AddKey, ProviderOK, IsPool
<1>6. ASSUME NEW k \in Keys, SetActiveKey(k) PROVE TypeOK'
  <2>1. IsPool(pool')
    BY <1>4, <1>6 DEF SetActiveKey
  <2> QED BY <1>1, <1>2, <1>3, <1>6, <2>1, TypeParts DEF SetActiveKey, ProviderOK, IsPool
<1>7. ASSUME NEW k \in Keys, RemoveKey(k) PROVE TypeOK'
  <2>1. IsPool(pool')
    BY <1>4, <1>7, WithoutKey DEF RemoveKey
  <2>2. live' \in Keys \union {None}
    <3>1. pool' # <<>> => pool'[1] \in Keys
      BY <2>1 DEF IsPool
    <3>2. live' = liveAfterRemoving(k, pool')
      BY <1>7 DEF RemoveKey
    <3> QED BY <1>1, <3>1, <3>2 DEF liveAfterRemoving, ProviderOK
  <2>3. AreRequests(req')
    <3> DEFINE unshared(r) == [pc |-> req[r].pc, key |-> req[r].key, shares |-> FALSE,
                               size |-> Len(pool), imageRetried |-> req[r].imageRetried]
    <3>1. Len(pool) \in Nat
      BY <1>1 DEF ProviderOK
    <3>2. \A r \in Requests : unshared(r) \in Request
      BY <1>1, <3>1 DEF AreRequests, Request
    <3>3. \A r \in Requests :
            /\ unshared(r).pc = req[r].pc
            /\ unshared(r).key = req[r].key
      OBVIOUS
    <3>4. req' = [r \in Requests |-> IF req[r].shares THEN unshared(r) ELSE req[r]]
      BY <1>7 DEF RemoveKey
    <3> HIDE DEF unshared
    <3> QED BY <1>1, <3>2, <3>3, <3>4 DEF AreRequests
  <2> QED BY <1>1, <1>2, <1>3, <1>7, <2>1, <2>2, <2>3, TypeParts
          DEF RemoveKey, ProviderOK, IsPool
<1>8. ASSUME NEW k \in Keys \union {None}, ReplaceProvider(k) PROVE TypeOK'
  BY <1>1, <1>2, <1>8, TypeParts DEF ReplaceProvider, ProviderOK
<1>9. CASE Restart
  <2>1. Idle \in Request /\ Idle.pc # "waiting"
    BY DEF Idle, Request
  <2>2. AreRequests(req')
    BY <1>9, <2>1 DEF Restart, AreRequests
  <2>3. cooldownUntil' \in [Keys -> Nat]
    BY <1>9 DEF Restart
  <2> QED BY <1>1, <1>2, <1>9, <2>2, <2>3, TypeParts DEF Restart, ProviderOK
<1> QED BY <1>5, <1>6, <1>7, <1>8, <1>9 DEF Command

\* Next keeps every variable within its type.
LEMMA TypeStep == TypeOK /\ [Next]_vars => TypeOK'
<1> SUFFICES ASSUME TypeOK, [Next]_vars PROVE TypeOK'
  OBVIOUS
<1> USE DEF vars, provider, operator
<1>0. ProviderOK /\ AreRequests(req)
  BY TypeParts, TypeRequests
<1>1. ASSUME NEW r \in Requests, RequestStep(r) PROVE TypeOK'
  BY <1>1, TypeRequestStep
<1>2. CASE Command
  BY <1>2, TypeCommand
<1>3. CASE AddReplacedKey
  <2>1. IsPool(pool') /\ adding \in Keys
    <3>1. adding \in Keys
      BY <1>0, <1>3 DEF AddReplacedKey, ProviderOK
    <3> QED BY <1>3, <3>1, EnsurePool, WithKey DEF AddReplacedKey
  <2> QED BY <1>0, <1>3, <2>1, TypeParts DEF AddReplacedKey, ProviderOK, IsPool
<1>4. CASE ClearCooldowns
  BY <1>0, <1>4, TypeParts DEF ClearCooldowns, ProviderOK
<1>5. CASE Tick
  BY <1>0, <1>5, TypeParts, BoundsAssumption DEF Tick, ProviderOK
<1>6. CASE UNCHANGED vars
  BY <1>0, <1>6, TypeParts DEF ProviderOK
<1> QED BY <1>1, <1>2, <1>3, <1>4, <1>5, <1>6 DEF Next

\* Every reachable state is of the declared types: in particular the pool
\* never holds a key twice, however keys are added, removed and replaced.
THEOREM TypeCorrect == Spec => []TypeOK
<1> QED BY TypeInit, TypeStep, PTL DEF Spec

-----------------------------------------------------------------------------
(* What a step may do to the keys *)

\* Which steps change a request's key, the live key or the cooldowns: of all
\* the others, none cools a key or changes the key of a waiting request.
LEMMA QuietSteps ==
  ASSUME TypeOK, [Next]_vars,
         \A r \in Requests : ~RetryWithLiveKey(r) /\ ~RotateKey(r)
  PROVE  /\ \/ cooldownUntil' = cooldownUntil
            \/ cooldownUntil' = [k \in Keys |-> 0]
         /\ \/ \A r \in Requests : isWaiting(r) => req'[r].key = req[r].key
            \/ UNCHANGED live
         /\ \A r \in Requests :
              isWaiting(r) /\ req'[r].pc = "limited" => ~mayFailover(r)
<1> USE DEF vars, provider, operator
<1>0. req \in [Requests -> Request]
  BY TypeRequests DEF AreRequests
<1>1. ASSUME NEW r \in Requests, RequestStep(r)
      PROVE  /\ UNCHANGED <<cooldownUntil, live>>
             /\ \A s \in Requests :
                  isWaiting(s) /\ req'[s].pc = "limited" => ~mayFailover(s)
  <2>1. CASE Route(r)
    BY <1>0, <2>1 DEF Route, isWaiting, Request
  <2>2. CASE Done(r) \/ ImagesTooLarge(r)
    BY <1>0, <2>2 DEF Done, ImagesTooLarge, isWaiting, Request
  <2>3. CASE RateLimitedForGood(r)
    BY <1>0, <2>3 DEF RateLimitedForGood, surface429, isWaiting, Request
  <2> QED BY <1>1, <2>1, <2>2, <2>3 DEF RequestStep
<1>2. ASSUME NEW k \in Keys, AddKey(k) \/ SetActiveKey(k) \/ RemoveKey(k)
      PROVE  /\ cooldownUntil' = cooldownUntil
             /\ \A r \in Requests : req'[r].key = req[r].key /\ req'[r].pc = req[r].pc
  BY <1>0, <1>2 DEF AddKey, SetActiveKey, RemoveKey, Request
<1>3. ASSUME NEW k \in Keys \union {None}, ReplaceProvider(k)
      PROVE  UNCHANGED <<cooldownUntil, req>>
  BY <1>3 DEF ReplaceProvider
<1>4. CASE Restart
  BY <1>4 DEF Restart, Idle
<1>5. CASE AddReplacedKey
  BY <1>5 DEF AddReplacedKey, isWaiting
<1>6. CASE ClearCooldowns
  BY <1>6 DEF ClearCooldowns, isWaiting
<1>7. CASE Tick \/ UNCHANGED vars
  BY <1>7 DEF Tick, isWaiting
<1> QED BY <1>1, <1>2, <1>3, <1>4, <1>5, <1>6, <1>7 DEF Next, Command, isWaiting

\* The steps of a request that failed with 429 and may fail over.
LEMMA FailedStep ==
  ASSUME TypeOK, NEW r \in Requests, RetryWithLiveKey(r) \/ RotateKey(r)
  PROVE  /\ isWaiting(r)
         /\ \A s \in Requests \ {r} : req'[s] = req[s]
         /\ \E d \in Cooldowns : cooldownUntil' = cooled(req[r].key, d)
BY TypeRequests DEF RetryWithLiveKey, RotateKey, retryWith, surface429, AreRequests

\* A sent key equals at most the entry of the pool that it was read from.
LEMMA AsWritten ==
  ASSUME TypeOK, NEW sent, asWritten(sent) \in pooled
  PROVE  asWritten(sent) = sent.value /\ asWritten(sent) \in Keys
<1>1. pooled \subseteq Keys
  BY DEF TypeOK, pooled, ToSet
<1> QED BY <1>1, KeysAssumption DEF asWritten

\* A 429 cools the key that was sent, never one that another request has
\* rotated to meanwhile.
THEOREM CoolingIsEarned == Spec => OnlyFailedKeysAreCooled
<1> DEFINE Earned ==
      \A k \in Keys :
        cooldownUntil'[k] > now /\ cooldownUntil'[k] # cooldownUntil[k]
        => \E r \in Requests :
             isWaiting(r) /\ req[r].key.value = k /\ req'[r] # req[r]
<1>1. ASSUME TypeOK, [Next]_vars PROVE Earned
  <2>1. CASE \E r \in Requests : RetryWithLiveKey(r) \/ RotateKey(r)
    <3> SUFFICES ASSUME NEW k \in Keys, cooldownUntil'[k] > now,
                        cooldownUntil'[k] # cooldownUntil[k]
                 PROVE  \E r \in Requests :
                          isWaiting(r) /\ req[r].key.value = k /\ req'[r] # req[r]
      OBVIOUS
    <3>1. PICK r \in Requests : RetryWithLiveKey(r) \/ RotateKey(r)
      BY <2>1
    <3>2. PICK d \in Cooldowns : cooldownUntil' = cooled(req[r].key, d)
      BY <1>1, <3>1, FailedStep
    <3>3. k = asWritten(req[r].key) /\ k \in pooled
      BY <1>1, <3>2, Cooled
    <3>4. k = req[r].key.value
      BY <1>1, <3>3, AsWritten
    <3>5. req'[r] # req[r]
      <4>1. ASSUME NEW x \in Keys, x # k, retryWith(r, x) PROVE req'[r] # req[r]
        <5>1. req'[r].key = written(x)
          BY <1>1, <4>1, TypeRequests DEF retryWith, AreRequests
        <5> QED BY <3>4, <4>1, <5>1 DEF written
      <4>2. CASE RetryWithLiveKey(r)
        <5>1. live # k /\ live \in pooled
          BY <3>3, <4>2 DEF RetryWithLiveKey, lostTheRace
        <5>2. live \in Keys
          BY <1>1, <5>1 DEF TypeOK, pooled, ToSet
        <5> QED BY <4>1, <4>2, <5>1, <5>2 DEF RetryWithLiveKey
      <4>3. CASE RotateKey(r)
        <5> DEFINE x == nextKey(req[r].key, cooldownUntil')
        <5>1. IF x # None THEN live' = x /\ retryWith(r, x)
              ELSE surface429(r) /\ UNCHANGED live
          BY <4>3 DEF RotateKey
        <5>2. x # None => x \in pooled /\ ~(cooldownUntil'[x] > now)
          BY <1>1, NextKey DEF isKeyInCooldown
        <5> HIDE DEF x
        <5>3. CASE x = None
          BY <1>1, <3>1, <5>1, <5>3, FailedStep, TypeRequests
             DEF surface429, AreRequests, Request, isWaiting
        <5>4. CASE x # None
          <6>1. x \in Keys /\ x # k
            BY <1>1, <5>2, <5>4 DEF TypeOK, pooled, ToSet
          <6> QED BY <4>1, <5>1, <5>4, <6>1
        <5> QED BY <5>3, <5>4
      <4> QED BY <3>1, <4>2, <4>3
    <3> QED BY <1>1, <3>1, <3>4, <3>5, FailedStep
  <2>2. CASE \A r \in Requests : ~RetryWithLiveKey(r) /\ ~RotateKey(r)
    <3>1. cooldownUntil' = cooldownUntil \/ cooldownUntil' = [k \in Keys |-> 0]
      BY <1>1, <2>2, QuietSteps
    <3> QED BY <1>1, <3>1 DEF TypeOK
  <2> QED BY <2>1, <2>2
<1>2. TypeOK /\ [Next]_vars => [Earned]_vars
  BY <1>1
<1> QED BY <1>2, TypeCorrect, PTL DEF Spec, OnlyFailedKeysAreCooled

\* A second request that fails with the same key does not move the live key
\* that the first one chose, unless that one is cooling down.
THEOREM RotationIsKept == Spec => HealthyLiveKeyIsKept
<1> DEFINE Kept ==
      \A r \in Requests :
        (/\ isWaiting(r)
         /\ req'[r].key # req[r].key
         /\ live \in pooled /\ live # req[r].key.value
         /\ cooldownUntil[live] <= now)
        => UNCHANGED live
<1>1. ASSUME TypeOK, [Next]_vars PROVE Kept
  <2> SUFFICES ASSUME NEW r \in Requests, isWaiting(r), req'[r].key # req[r].key,
                      live \in pooled, live # req[r].key.value,
                      cooldownUntil[live] <= now
               PROVE  UNCHANGED live
    OBVIOUS
  <2>1. ASSUME NEW s \in Requests, RotateKey(s) PROVE FALSE
    <3>1. s = r
      BY <1>1, <2>1, FailedStep
    <3>2. live \in Keys /\ now \in Nat
      BY <1>1 DEF TypeOK, pooled, ToSet
    <3>3. live # asWritten(req[r].key)
      BY <3>2, KeysAssumption DEF asWritten
    <3>4. PICK d \in Cooldowns : /\ cooldownUntil' = cooled(req[r].key, d)
                                /\ ~lostTheRace(req[r].key, cooldownUntil')
      BY <2>1, <3>1 DEF RotateKey
    <3>5. cooldownUntil'[live] = cooldownUntil[live]
      BY <1>1, <3>2, <3>3, <3>4, Cooled
    <3>6. ~(cooldownUntil'[live] > now)
      BY <1>1, <3>2, <3>5 DEF TypeOK
    <3> QED BY <3>3, <3>4, <3>6 DEF lostTheRace, isKeyInCooldown
  <2>2. ASSUME NEW s \in Requests, RetryWithLiveKey(s) PROVE UNCHANGED live
    BY <2>2 DEF RetryWithLiveKey, provider
  <2>3. CASE \A s \in Requests : ~RetryWithLiveKey(s) /\ ~RotateKey(s)
    BY <1>1, <2>3, QuietSteps
  <2> QED BY <2>1, <2>2, <2>3
<1>2. TypeOK /\ [Next]_vars => [Kept]_vars
  BY <1>1
<1> QED BY <1>2, TypeCorrect, PTL DEF Spec, HealthyLiveKeyIsKept

\* A request that may fail over is refused only when every key of the pool is
\* cooling down, or every one but the last, when its own key is not found in
\* the pool and the last one is not live.
THEOREM RefusalsAreJustified == Spec => RefusedOnlyWhenAllCooled
<1> DEFINE Justified ==
      \A r \in Requests :
        (isWaiting(r) /\ req'[r].pc = "limited" /\ mayFailover(r))
        => \A k \in pooled : cooldownUntil'[k] > now \/ isPassedOver(r, k)
<1>1. ASSUME TypeOK, [Next]_vars PROVE Justified
  <2> SUFFICES ASSUME NEW r \in Requests, isWaiting(r), req'[r].pc = "limited",
                      mayFailover(r), NEW k \in pooled, ~isPassedOver(r, k)
               PROVE  cooldownUntil'[k] > now
    OBVIOUS
  <2>1. PICK s \in Requests : RetryWithLiveKey(s) \/ RotateKey(s)
    BY <1>1, QuietSteps
  <2>2. s = r
    BY <1>1, <2>1, FailedStep DEF isWaiting
  <2>3. \A x : ~retryWith(r, x)
    BY <1>1, TypeRequests DEF retryWith, AreRequests
  <2>4. RotateKey(r)
    BY <2>1, <2>2, <2>3 DEF RetryWithLiveKey
  <2>5. nextKey(req[r].key, cooldownUntil') = None
    BY <2>3, <2>4 DEF RotateKey
  <2>6. PICK d \in Cooldowns : /\ cooldownUntil' = cooled(req[r].key, d)
                              /\ ~lostTheRace(req[r].key, cooldownUntil')
    BY <2>4 DEF RotateKey
  <2>7. CASE k = asWritten(req[r].key)
    <3>1. k \in Keys
      BY <1>1 DEF TypeOK, pooled, ToSet
    <3>2. cooldownUntil'[k] = now + d
      BY <1>1, <2>6, <2>7, <3>1, Cooled
    <3> QED BY <1>1, <3>2, BoundsAssumption DEF TypeOK
  <2>8. CASE k # asWritten(req[r].key) /\ k = live
    BY <2>6, <2>8 DEF lostTheRace, isKeyInCooldown
  <2>9. CASE k # asWritten(req[r].key) /\ k # live
    BY <1>1, <2>5, <2>9, NextKey DEF isPassedOver, isKeyInCooldown
  <2> QED BY <2>7, <2>8, <2>9
<1>2. TypeOK /\ [Next]_vars => [Justified]_vars
  BY <1>1
<1> QED BY <1>2, TypeCorrect, PTL DEF Spec, RefusedOnlyWhenAllCooled

\* The key commands, the rotations and the replacement of the provider, in
\* any order, leave a live key that is an entry of the pool.
THEOREM LiveKeyIsMirrored == Spec => LiveKeyStaysPooled
<1> DEFINE Stays == isMirrored => isMirrored' \/ (adding # None /\ req' = [r \in Requests |-> Idle])
<1> USE DEF vars, provider, operator
<1>1. ASSUME TypeOK, [Next]_vars, isMirrored
      PROVE  isMirrored' \/ (adding # None /\ req' = [r \in Requests |-> Idle])
  <2>0. pooled' = ToSet(pool')
    BY DEF pooled
  <2>1. ASSUME NEW r \in Requests, RotateKey(r) PROVE isMirrored'
    <3> DEFINE k == nextKey(req[r].key, cooldownUntil')
    <3>1. /\ UNCHANGED <<pool, adding>>
          /\ (k # None /\ live' = k) \/ UNCHANGED live
      BY <2>1 DEF RotateKey
    <3>2. k # None => k \in pooled
      BY <1>1, NextKey
    <3> HIDE DEF k
    <3> QED BY <1>1, <3>1, <3>2 DEF isMirrored, pooled
  <2>2. ASSUME NEW r \in Requests, RequestStep(r), ~RotateKey(r) PROVE isMirrored'
    <3>1. UNCHANGED <<pool, live, adding>>
      BY <2>2 DEF RequestStep, Route, Done, ImagesTooLarge, RateLimitedForGood,
                  RetryWithLiveKey
    <3> QED BY <1>1, <3>1 DEF isMirrored, pooled
  <2>3. ASSUME NEW k \in Keys, AddKey(k) PROVE isMirrored'
    <3>1. k \in ToSet(pool') /\ live' = k
      BY <1>1, <2>3, EnsurePool, WithKey DEF AddKey
    <3> QED BY <2>0, <3>1 DEF isMirrored
  <2>4. ASSUME NEW k \in Keys, SetActiveKey(k) PROVE isMirrored'
    BY <2>0, <2>4 DEF SetActiveKey, isMirrored
  <2>5. ASSUME NEW k \in Keys, RemoveKey(k) PROVE isMirrored'
    <3>1. /\ IsPool(pool')
          /\ ToSet(pool') = ToSet(ensurePool) \ {k}
          /\ k \in ToSet(ensurePool)
          /\ live' = liveAfterRemoving(k, pool')
          /\ UNCHANGED adding
      BY <1>1, <2>5, EnsurePool, WithoutKey DEF RemoveKey
    <3>2. CASE live = k
      <4>1. pool' # <<>> => pool'[1] \in ToSet(pool')
        BY <3>1 DEF IsPool, ToSet
      <4> QED BY <2>0, <3>1, <3>2, <4>1 DEF liveAfterRemoving, isMirrored
    <3>3. CASE live # k
      <4>1. ToSet(ensurePool) = pooled /\ pool # <<>>
        <5>1. ToSet(<<>>) = {}
          BY DEF ToSet
        <5> QED BY <1>1, <3>1, <3>3, <5>1, EnsurePool DEF pooled
      <4>2. live' = live
        BY <3>1, <3>3 DEF liveAfterRemoving
      <4> QED BY <1>1, <2>0, <3>1, <3>3, <4>1, <4>2 DEF isMirrored
    <3> QED BY <3>2, <3>3
  <2>6. ASSUME NEW k \in Keys \union {None}, ReplaceProvider(k) PROVE isMirrored'
    BY <2>0, <2>6 DEF ReplaceProvider, isMirrored
  <2>7. CASE Restart
    BY <1>1, <2>0, <2>7 DEF Restart, isMirrored, pooled
  <2>8. CASE AddReplacedKey
    <3>1. adding \in ToSet(pool') /\ live' = adding
      <4>1. adding \in Keys
        BY <1>1, <2>8 DEF AddReplacedKey, TypeOK
      <4> QED BY <1>1, <2>8, <4>1, EnsurePool, WithKey DEF AddReplacedKey
    <3> QED BY <2>0, <3>1 DEF isMirrored
  <2>9. CASE ClearCooldowns \/ Tick \/ UNCHANGED vars
    BY <1>1, <2>9 DEF ClearCooldowns, Tick, isMirrored, pooled
  <2> QED BY <1>1, <2>1, <2>2, <2>3, <2>4, <2>5, <2>6, <2>7, <2>8, <2>9
          DEF Next, Command
<1>2. TypeOK /\ [Next]_vars => [Stays]_vars
  BY <1>1
<1> QED BY <1>2, TypeCorrect, PTL DEF Spec, LiveKeyStaysPooled

=============================================================================
