-------------------------- MODULE StreamRelayProofs --------------------------
(***************************************************************************)
(* Proofs about StreamRelay, for any turns, limits of the store and bounds.*)
(*                                                                         *)
(* The store and its snapshot only ever hold what was recorded, because a  *)
(* turn is recorded once and pruning, saving and loading only leave out.   *)
(* From that follow the replay property and the refinement.                *)
(***************************************************************************)
EXTENDS StreamRelay, FiniteSetTheorems, SequenceTheorems, TLAPS

\* What a step that is no start and no record leaves of a turn.
Kept(q, r) ==
  /\ r.kind = q.kind /\ r.prev = q.prev /\ r.body = q.body /\ r.missed = q.missed
  /\ q.outcome # None => r.outcome # None
  /\ r.reading => q.reading \/ q.pc = "connecting"
  /\ q.pc # "idle" /\ r.pc # "idle" /\ (r.pc = "connecting" => q.pc = "connecting")

\* An entry of the store, or of its snapshot, is what was recorded.
IsHonest(e) ==
  /\ recorded[e.id] # None
  /\ e.items = recorded[e.id].items /\ e.createdAt = recorded[e.id].createdAt
StoreIsHonest == \A e \in states \union snapshot : IsHonest(e)

\* Idle turns are as they began.
IdleIsUnstarted == \A t \in Turns : turn[t].pc = "idle" => turn[t] = Unstarted
\* There are finitely many records, however many turns there may be.
FewAreRecorded == IsFiniteSet({t \in Turns : recorded[t] # None})

\* Active turns have started.
ActiveIsStarted == \A t \in active : turn[t].pc # "idle"

\* A turn that was recorded is past the point at which it is recorded; a
\* native one was sent with what it continues, and recorded with that.
IsRecordedOnce(t) ==
  recorded[t] # None =>
    /\ turn[t].pc \notin {"idle", "connecting"}
    /\ isNative(t) => /\ turn[t].outcome # None
                      /\ passthroughRecordEligible(t)
                      /\ recorded[t].items = Append(turn[t].body, t)
    /\ ~isNative(t) => ~turn[t].reading

\* What a turn was sent before its input, if it was found.
HasItsBody(t) ==
  /\ turn[t].prev = 0 => turn[t].body = <<>>
  /\ turn[t].prev # 0 /\ ~turn[t].missed =>
       recorded[turn[t].prev] # None /\ turn[t].body = recorded[turn[t].prev].items

Inv ==
  /\ TypeOK
  /\ StoreIsHonest
  /\ IdleIsUnstarted
  /\ ActiveIsStarted
  /\ FewAreRecorded
  /\ \A t \in Turns : IsRecordedOnce(t) /\ HasItsBody(t)

-----------------------------------------------------------------------------
(* The helpers of the steps *)

LEMMA UnstartedTyped == Unstarted \in TurnRecord
BY DEF Unstarted, TurnRecord, Under, Terminals

\* What is left out of a map was in it.
LEMMA NewestIsPart == ASSUME NEW E PROVE newest(E) \subseteq E
BY DEF newest

LEMMA PrunedIsPart ==
  ASSUME NEW E PROVE pruned(E) \subseteq {e \in E : now - e.createdAt <= TTL}
BY NewestIsPart DEF pruned

LEMMA SavedIsPart == ASSUME NEW E PROVE saved(E) \subseteq E
BY DEF saved

LEMMA CurrentIsPart ==
  current \subseteq {e \in states \union snapshot : now - e.createdAt <= TTL}
<1>1. CASE loaded BY <1>1, PrunedIsPart DEF current
<1>2. CASE ~loaded BY <1>2, PrunedIsPart DEF current
<1> QED BY <1>1, <1>2

\* The small steps on a record keep its type, and what identifies the turn.
LEMMA LoggedKeeps ==
  ASSUME NEW r \in TurnRecord, NEW s \in Terminals \union {"cancelled"}
  PROVE  logged(r, s) \in TurnRecord /\ logged(r, s).pc = r.pc
           /\ logged(r, s).outcome = r.outcome /\ logged(r, s).reading = r.reading
           /\ (r.pc # "idle" => Kept(r, logged(r, s)))
<1> DEFINE n == [r EXCEPT !.log = s]
<1>1. n \in TurnRecord
  BY DEF TurnRecord
<1>2. n.pc = r.pc /\ n.outcome = r.outcome /\ n.reading = r.reading /\ n.kind = r.kind
      /\ n.prev = r.prev /\ n.body = r.body /\ n.missed = r.missed
  BY DEF TurnRecord
<1>3. logged(r, s) = IF r.log = None THEN n ELSE r
  BY DEF logged
<1> HIDE DEF n
<1> QED BY <1>1, <1>2, <1>3 DEF Kept

LEMMA QueuedKeeps ==
  ASSUME NEW r \in TurnRecord, NEW e \in Terminals
  PROVE  queued(r, e) \in TurnRecord /\ queued(r, e).pc = r.pc
           /\ queued(r, e).outcome = r.outcome /\ queued(r, e).reading = r.reading
           /\ (r.pc # "idle" => Kept(r, queued(r, e)))
<1> DEFINE n == [r EXCEPT !.queue = Append(r.queue, e)]
<1>1. Append(r.queue, e) \in Seq(Terminals)
  BY DEF TurnRecord
<1>2. n \in TurnRecord
  BY <1>1 DEF TurnRecord
<1>3. n.pc = r.pc /\ n.outcome = r.outcome /\ n.reading = r.reading /\ n.kind = r.kind
      /\ n.prev = r.prev /\ n.body = r.body /\ n.missed = r.missed
  BY DEF TurnRecord
<1>4. queued(r, e) = IF r.closed THEN r ELSE n
  BY DEF queued
<1> HIDE DEF n
<1> QED BY <1>2, <1>3, <1>4 DEF Kept

LEMMA AbortedKeeps ==
  ASSUME NEW r \in TurnRecord
  PROVE  aborted(r) \in TurnRecord /\ aborted(r).pc = r.pc
           /\ aborted(r).outcome = r.outcome /\ aborted(r).reading = r.reading
           /\ (r.pc # "idle" => Kept(r, aborted(r)))
<1> DEFINE n == [r EXCEPT !.upstream = "aborted"]
<1>1. n \in TurnRecord
  BY DEF TurnRecord
<1>2. n.pc = r.pc /\ n.outcome = r.outcome /\ n.reading = r.reading /\ n.kind = r.kind
      /\ n.prev = r.prev /\ n.body = r.body /\ n.missed = r.missed
  BY DEF TurnRecord
<1>3. aborted(r) = IF r.upstream = "open" THEN n ELSE r
  BY DEF aborted
<1> HIDE DEF n
<1> QED BY <1>1, <1>2, <1>3 DEF Kept

LEMMA ReportedKeeps ==
  ASSUME NEW r \in TurnRecord, NEW s \in Terminals
  PROVE  reported(r, s) \in TurnRecord /\ reported(r, s).pc = r.pc
           /\ reported(r, s).outcome # None /\ reported(r, s).reading = r.reading
           /\ (r.pc # "idle" => Kept(r, reported(r, s)))
<1> DEFINE n == [r EXCEPT !.outcome = s]
<1>1. n \in TurnRecord
  BY DEF TurnRecord
<1>2. n.pc = r.pc /\ n.outcome = s /\ n.reading = r.reading /\ n.kind = r.kind
      /\ n.prev = r.prev /\ n.body = r.body /\ n.missed = r.missed
  BY DEF TurnRecord
<1>3. s # None
  BY RelayAssumption
<1>4. reported(r, s) = IF r.outcome = None THEN logged(n, s) ELSE r
  BY DEF reported
<1> HIDE DEF n
<1>5. Kept(r, n) \/ r.pc = "idle"
  BY <1>1, <1>2, <1>3 DEF Kept
<1>6. /\ logged(n, s) \in TurnRecord /\ logged(n, s).pc = n.pc
      /\ logged(n, s).outcome = n.outcome /\ logged(n, s).reading = n.reading
      /\ (n.pc # "idle" => Kept(n, logged(n, s)))
  BY <1>1, LoggedKeeps
<1>7. r.pc # "idle" => Kept(r, reported(r, s))
  <2>1. CASE r.outcome = None
    BY <2>1, <1>2, <1>4, <1>5, <1>6 DEF Kept
  <2>2. CASE r.outcome # None
    BY <2>2, <1>4 DEF Kept
  <2> QED BY <2>1, <2>2
<1> QED BY <1>2, <1>3, <1>4, <1>6, <1>7

LEMMA SettledKeeps ==
  ASSUME NEW r \in TurnRecord
  PROVE  settled(r) \in TurnRecord /\ settled(r).reading = r.reading
           /\ settled(r).outcome = r.outcome
           /\ (r.pc # "idle" => Kept(r, settled(r)))
           /\ settled(r).pc \in {r.pc, "over"}
<1> DEFINE n == [r EXCEPT !.pc = "over", !.queue = <<>>, !.upstream = "ended"]
<1>0. <<>> \in Seq(Terminals)
  OBVIOUS
<1>1. n \in TurnRecord
  BY <1>0 DEF TurnRecord
<1>2. n.pc = "over" /\ n.outcome = r.outcome /\ n.reading = r.reading /\ n.kind = r.kind
      /\ n.prev = r.prev /\ n.body = r.body /\ n.missed = r.missed
  BY DEF TurnRecord
<1>3. settled(r) = IF r.reading \/ ~r.closed THEN r ELSE n
  BY DEF settled
<1> HIDE DEF n
<1> QED BY <1>1, <1>2, <1>3 DEF Kept

LEMMA CutKeeps ==
  ASSUME NEW r \in TurnRecord
  PROVE  cut(r) \in TurnRecord /\ (cut(r) = r \/ Kept(r, cut(r)))
<1> DEFINE n == [r EXCEPT !.pc = "cut", !.queue = <<>>, !.reading = FALSE,
                          !.upstream = "ended", !.closed = TRUE]
<1>0. <<>> \in Seq(Terminals)
  OBVIOUS
<1>1. n \in TurnRecord
  BY <1>0 DEF TurnRecord
<1>2. n.pc = "cut" /\ n.outcome = r.outcome /\ ~n.reading /\ n.kind = r.kind
      /\ n.prev = r.prev /\ n.body = r.body /\ n.missed = r.missed
  BY DEF TurnRecord
<1>3. cut(r) = IF r.pc \in Under THEN n ELSE r
  BY DEF cut
<1> HIDE DEF n
<1> QED BY <1>1, <1>2, <1>3 DEF Kept, Under

LEMMA ClosedKeeps ==
  ASSUME NEW r \in TurnRecord, r.pc # "idle"
  PROVE  /\ [r EXCEPT !.closed = TRUE] \in TurnRecord
         /\ Kept(r, [r EXCEPT !.closed = TRUE])
         /\ [r EXCEPT !.closed = TRUE, !.queue = <<>>] \in TurnRecord
         /\ Kept(r, [r EXCEPT !.closed = TRUE, !.queue = <<>>])
<1> DEFINE c == [r EXCEPT !.closed = TRUE]
           n == [r EXCEPT !.closed = TRUE, !.queue = <<>>]
<1>0. <<>> \in Seq(Terminals)
  OBVIOUS
<1>1. c \in TurnRecord
  BY DEF TurnRecord
<1>2. n \in TurnRecord
  BY <1>0 DEF TurnRecord
<1>3. Kept(r, c)
  BY DEF TurnRecord, Kept
<1>4. Kept(r, n)
  BY DEF TurnRecord, Kept
<1> QED BY <1>1, <1>2, <1>3, <1>4

LEMMA KeptTwice ==
  ASSUME NEW q, NEW r, NEW s, Kept(q, r), Kept(r, s)
  PROVE  Kept(q, s)
BY DEF Kept

-----------------------------------------------------------------------------
(* Steps that record nothing *)

answers == [t \in Turns |-> turn[t].body]
cacheVars == <<recorded, answers, now>>

\* The store loses entries at most, and turns go on.
LEMMA Quiet ==
  ASSUME Inv,
         turn' \in [Turns -> TurnRecord],
         \A t \in Turns : turn'[t] = turn[t] \/ Kept(turn[t], turn'[t]),
         recorded' = recorded,
         states' \union snapshot' \subseteq states \union snapshot,
         StoreTypeOK', active' \subseteq Turns, \A t \in active' : turn'[t].pc # "idle",
         server' \in {"running", "draining", "stopped", "crashed"}
  PROVE  Inv' /\ answers' = answers
<1>1. TypeOK'
  BY DEF TypeOK
<1>2. StoreIsHonest'
  BY DEF Inv, StoreIsHonest, IsHonest
<1>3. IdleIsUnstarted' /\ ActiveIsStarted' /\ FewAreRecorded'
  BY DEF Inv, IdleIsUnstarted, ActiveIsStarted, FewAreRecorded, Kept
<1>4. ASSUME NEW t \in Turns PROVE IsRecordedOnce(t)' /\ HasItsBody(t)'
  <2>1. IsRecordedOnce(t) /\ HasItsBody(t)
    BY DEF Inv
  <2>2. CASE turn'[t] = turn[t]
    BY <2>1, <2>2 DEF IsRecordedOnce, HasItsBody, isNative, passthroughRecordEligible
  <2>3. CASE Kept(turn[t], turn'[t])
    BY <2>1, <2>3 DEF IsRecordedOnce, HasItsBody, isNative, passthroughRecordEligible, Kept
  <2> QED BY <2>2, <2>3
<1>5. answers' = answers
  BY DEF answers, Kept
<1> QED BY <1>1, <1>2, <1>3, <1>4, <1>5 DEF Inv

LEMMA StoreUnchanged ==
  ASSUME Inv, UNCHANGED storeVars
  PROVE  /\ StoreTypeOK' /\ recorded' = recorded /\ now' = now
         /\ states' \union snapshot' \subseteq states \union snapshot
BY DEF Inv, TypeOK, StoreTypeOK, storeVars

\* What the steps of one turn that record nothing have in common.
LEMMA QuietTurn ==
  ASSUME Inv, NEW t \in Turns, NEW r \in TurnRecord, Kept(turn[t], r),
         turn' = [turn EXCEPT ![t] = r],
         active' \subseteq active \union {t}, server' = server, UNCHANGED storeVars
  PROVE  Inv' /\ UNCHANGED cacheVars
<1>1. turn \in [Turns -> TurnRecord]
  BY DEF Inv, TypeOK
<1>2. turn' \in [Turns -> TurnRecord]
  BY <1>1
<1>3. \A u \in Turns : turn'[u] = turn[u] \/ Kept(turn[u], turn'[u])
  BY <1>1
<1>4. /\ server' \in {"running", "draining", "stopped", "crashed"}
      /\ active' \subseteq Turns
  BY DEF Inv, TypeOK
<1>5. \A u \in active' : turn'[u].pc # "idle"
  BY <1>1, <1>3 DEF Kept, Inv, ActiveIsStarted, TypeOK
<1> QED BY <1>2, <1>3, <1>4, <1>5, Quiet, StoreUnchanged DEF cacheVars

LEMMA QuietBecomes ==
  ASSUME Inv, NEW t \in Turns, NEW r \in TurnRecord, Kept(turn[t], r), becomes(t, r),
         active' \subseteq active \union {t}, server' = server, UNCHANGED storeVars
  PROVE  Inv' /\ UNCHANGED cacheVars
<1>1. settled(r) \in TurnRecord /\ Kept(r, settled(r))
  BY SettledKeeps DEF Kept
<1>2. Kept(turn[t], settled(r))
  BY <1>1, KeptTwice
<1> QED BY <1>1, <1>2, QuietTurn DEF becomes

\* Each of these steps of a turn is one of them.
LEMMA QuietSteps ==
  ASSUME Inv, NEW t \in Turns,
         \/ Connect(t) \/ ConnectFails(t) \/ LeavesEarly(t)
         \/ NativeEnds(t) \/ InspectionEnds(t) \/ NativeRelayEnds(t) \/ NativeClientLeaves(t)
         \/ BridgeStalls(t) \/ BridgeRelayEnds(t) \/ BridgeClientLeaves(t)
         \/ Relay(t)
  PROVE  Inv' /\ UNCHANGED cacheVars
<1> DEFINE q == turn[t]
<1>0. q \in TurnRecord /\ active \subseteq Turns /\ <<>> \in Seq(Terminals)
  BY DEF Inv, TypeOK
<1> HIDE DEF q
<1>1. CASE Connect(t)
  <2> DEFINE r == [q EXCEPT !.pc = "streaming", !.reading = TRUE]
  <2>1. r \in TurnRecord
    BY <1>0 DEF TurnRecord, Under
  <2>2. Kept(q, r)
    BY <1>0, <1>1 DEF Connect, Kept, TurnRecord, q
  <2>3. turn' = [turn EXCEPT ![t] = r]
    BY <1>1 DEF Connect, q
  <2> QED BY <1>0, <1>1, <2>1, <2>2, <2>3, QuietTurn DEF Connect, q
<1>2. CASE ConnectFails(t)
  <2> DEFINE r == IF isNative(t) THEN [q EXCEPT !.outcome = "failed"] ELSE q
             l == logged(r, "failed")
           f == [q EXCEPT !.outcome = "failed"]
  <2>0. q.pc = "connecting" /\ "failed" # None /\ "failed" \in Terminals
    BY <1>2, RelayAssumption DEF ConnectFails, q, Terminals
  <2>f. f \in TurnRecord
    BY <1>0, <2>0 DEF TurnRecord
  <2>k. Kept(q, f) /\ Kept(q, q)
    BY <1>0, <2>0 DEF TurnRecord, Kept
  <2>1. r \in TurnRecord /\ Kept(q, r)
    BY <1>0, <2>f, <2>k
  <2> HIDE DEF r
  <2>2. l \in TurnRecord /\ Kept(r, l)
    BY <2>1, LoggedKeeps DEF Terminals, Kept
  <2>3. [l EXCEPT !.closed = TRUE] \in TurnRecord /\ Kept(l, [l EXCEPT !.closed = TRUE])
    BY <2>2, ClosedKeeps DEF Kept
  <2>4. Kept(q, [l EXCEPT !.closed = TRUE])
    BY <2>1, <2>2, <2>3, KeptTwice
  <2>5. becomes(t, [l EXCEPT !.closed = TRUE])
    BY <1>2 DEF ConnectFails, q, r
  <2> HIDE DEF l
  <2> QED BY <1>0, <1>2, <2>3, <2>4, <2>5, QuietBecomes DEF ConnectFails, q
<1>3. CASE LeavesEarly(t)
  <2> DEFINE l == logged(q, "cancelled")
  <2>1. l \in TurnRecord /\ Kept(q, l)
    BY <1>0, <1>3, LoggedKeeps DEF LeavesEarly, q
  <2>2. [l EXCEPT !.closed = TRUE] \in TurnRecord /\ Kept(l, [l EXCEPT !.closed = TRUE])
    BY <2>1, ClosedKeeps DEF Kept
  <2>3. Kept(q, [l EXCEPT !.closed = TRUE])
    BY <2>1, <2>2, KeptTwice
  <2>4. becomes(t, [l EXCEPT !.closed = TRUE])
    BY <1>3 DEF LeavesEarly, q
  <2> HIDE DEF l
  <2> QED BY <1>0, <1>3, <2>2, <2>3, <2>4, QuietBecomes DEF LeavesEarly, q
<1>4. CASE NativeEnds(t)
  <2> DEFINE r == [q EXCEPT !.upstream = "ended"]
             b == [q EXCEPT !.upstream = "broken", !.queue = <<>>]
  <2>1. r \in TurnRecord /\ b \in TurnRecord
    BY <1>0 DEF TurnRecord
  <2>2. Kept(q, r) /\ Kept(q, b)
    BY <1>0, <1>4 DEF NativeEnds, isStreaming, Kept, TurnRecord, q
  <2>3. turn' = [turn EXCEPT ![t] = r] \/ turn' = [turn EXCEPT ![t] = b]
    BY <1>4 DEF NativeEnds, q
  <2> QED BY <1>0, <1>4, <2>1, <2>2, <2>3, QuietTurn DEF NativeEnds, q
<1>5. CASE InspectionEnds(t)
  <2> DEFINE l == reported(q, "incomplete")
  <2>1. l \in TurnRecord /\ Kept(q, l)
    BY <1>0, <1>5, ReportedKeeps DEF InspectionEnds, isStreaming, Terminals, q
  <2>2. [l EXCEPT !.reading = FALSE] \in TurnRecord /\ Kept(l, [l EXCEPT !.reading = FALSE])
    BY <2>1 DEF TurnRecord, Kept
  <2>3. Kept(q, [l EXCEPT !.reading = FALSE])
    BY <2>1, <2>2, KeptTwice
  <2>4. becomes(t, [l EXCEPT !.reading = FALSE])
    BY <1>5 DEF InspectionEnds, q
  <2> HIDE DEF l
  <2> QED BY <1>0, <1>5, <2>2, <2>3, <2>4, QuietBecomes DEF InspectionEnds, q
<1>6. CASE NativeRelayEnds(t)
  <2> DEFINE r == [q EXCEPT !.closed = TRUE]
             b == [q EXCEPT !.closed = TRUE, !.seen = Append(q.seen, "failed")]
  <2>1. Append(q.seen, "failed") \in Seq(Terminals)
    BY <1>0 DEF TurnRecord, Terminals
  <2>2. r \in TurnRecord /\ b \in TurnRecord
    BY <1>0, <2>1 DEF TurnRecord
  <2>3. Kept(q, r) /\ Kept(q, b)
    BY <1>0, <1>6 DEF NativeRelayEnds, isStreaming, Kept, TurnRecord, q
  <2>4. becomes(t, r) \/ becomes(t, b)
    BY <1>6 DEF NativeRelayEnds, q
  <2> QED BY <1>0, <1>6, <2>2, <2>3, <2>4, QuietBecomes DEF NativeRelayEnds, q
<1>7. CASE NativeClientLeaves(t)
  <2> DEFINE l == aborted(q)
             r == [l EXCEPT !.closed = TRUE, !.queue = <<>>]
  <2>1. l \in TurnRecord /\ Kept(q, l)
    BY <1>0, <1>7, AbortedKeeps DEF NativeClientLeaves, isStreaming, q
  <2>2. becomes(t, r)
    BY <1>7 DEF NativeClientLeaves, q
  <2> HIDE DEF l
  <2>3. r \in TurnRecord /\ Kept(l, r)
    BY <2>1, ClosedKeeps DEF Kept
  <2>4. Kept(q, r)
    BY <2>1, <2>3, KeptTwice
  <2> QED BY <1>0, <1>7, <2>2, <2>3, <2>4, QuietBecomes DEF NativeClientLeaves, q
<1>8. CASE BridgeStalls(t)
  <2> DEFINE l == queued(q, "incomplete")
  <2>1. l \in TurnRecord /\ Kept(q, l)
    BY <1>0, <1>8, QueuedKeeps DEF BridgeStalls, isStreaming, Terminals, q
  <2>2. aborted(l) \in TurnRecord /\ Kept(l, aborted(l))
    BY <2>1, AbortedKeeps DEF Kept
  <2>3. Kept(q, aborted(l))
    BY <2>1, <2>2, KeptTwice
  <2>4. turn' = [turn EXCEPT ![t] = aborted(l)]
    BY <1>8 DEF BridgeStalls, q
  <2> HIDE DEF l
  <2> QED BY <1>0, <1>8, <2>2, <2>3, <2>4, QuietTurn DEF BridgeStalls, q
<1>9. CASE BridgeRelayEnds(t)
  <2> DEFINE l == logged(q, "incomplete")
  <2>1. l \in TurnRecord /\ Kept(q, l)
    BY <1>0, <1>9, LoggedKeeps DEF BridgeRelayEnds, isStreaming, Terminals, q
  <2>2. [l EXCEPT !.closed = TRUE] \in TurnRecord /\ Kept(l, [l EXCEPT !.closed = TRUE])
    BY <2>1, ClosedKeeps DEF Kept
  <2>3. Kept(q, [l EXCEPT !.closed = TRUE])
    BY <2>1, <2>2, KeptTwice
  <2>4. becomes(t, [l EXCEPT !.closed = TRUE])
    BY <1>9 DEF BridgeRelayEnds, q
  <2> HIDE DEF l
  <2> QED BY <1>0, <1>9, <2>2, <2>3, <2>4, QuietBecomes DEF BridgeRelayEnds, q
<1>10. CASE BridgeClientLeaves(t)
  <2> DEFINE l == logged(aborted(q), "cancelled")
             r == [l EXCEPT !.closed = TRUE, !.queue = <<>>]
  <2>1. aborted(q) \in TurnRecord /\ Kept(q, aborted(q))
    BY <1>0, <1>10, AbortedKeeps DEF BridgeClientLeaves, isStreaming, q
  <2>2. l \in TurnRecord /\ Kept(aborted(q), l)
    BY <2>1, LoggedKeeps DEF Kept
  <2>3. becomes(t, r)
    BY <1>10 DEF BridgeClientLeaves, q
  <2> HIDE DEF l
  <2>4. r \in TurnRecord /\ Kept(l, r)
    BY <2>2, ClosedKeeps DEF Kept
  <2>5. Kept(q, r)
    BY <2>1, <2>2, <2>4, KeptTwice
  <2> QED BY <1>0, <1>10, <2>3, <2>4, <2>5, QuietBecomes DEF BridgeClientLeaves, q
<1>11. CASE Relay(t)
  <2> DEFINE e == Head(q.queue)
             r == [q EXCEPT !.queue = Tail(q.queue), !.seen = Append(q.seen, e)]
  <2>1. e \in Terminals /\ Tail(q.queue) \in Seq(Terminals)
    <3>1. q.queue \in Seq(Terminals) /\ q.queue # <<>>
      BY <1>0, <1>11 DEF Relay, TurnRecord, q
    <3> QED BY <3>1, HeadTailProperties
  <2>2. Append(q.seen, e) \in Seq(Terminals)
    BY <1>0, <2>1 DEF TurnRecord
  <2>3. r \in TurnRecord
    BY <1>0, <2>1, <2>2 DEF TurnRecord
  <2>4. Kept(q, r)
    BY <1>0, <1>11, <2>3 DEF Relay, isStreaming, Kept, TurnRecord, q
  <2>5. turn' = [turn EXCEPT ![t] = IF isNative(t) THEN r ELSE logged(r, e)]
    BY <1>11 DEF Relay, q
  <2> HIDE DEF r, e
  <2>6. logged(r, e) \in TurnRecord /\ Kept(r, logged(r, e))
    BY <2>1, <2>3, <2>4, LoggedKeeps DEF Kept
  <2>7. Kept(q, logged(r, e))
    BY <2>4, <2>6, KeptTwice
  <2> QED BY <1>0, <1>11, <2>3, <2>4, <2>5, <2>6, <2>7, QuietTurn DEF Relay, q
<1> QED BY <1>1, <1>2, <1>3, <1>4, <1>5, <1>6, <1>7, <1>8, <1>9, <1>10, <1>11

\* Those of the server: each turn is left, or cut.
LEMMA QuietServer ==
  ASSUME Inv, Persist \/ Drain \/ Stop \/ Crash \/ Restart
  PROVE  Inv' /\ UNCHANGED cacheVars
<1>0. TypeOK /\ turn \in [Turns -> TurnRecord] /\ active \subseteq Turns /\ StoreTypeOK
      /\ \A t \in active : turn[t].pc # "idle"
  BY DEF Inv, TypeOK, ActiveIsStarted
<1>1. CASE Persist
  <2>1. saved(states) \subseteq states
    BY SavedIsPart
  <2>2. /\ StoreTypeOK' /\ recorded' = recorded /\ now' = now
        /\ states' \union snapshot' \subseteq states \union snapshot
    BY <1>0, <1>1, <2>1 DEF Persist, persistNow, StoreTypeOK
  <2>3. turn' = turn /\ active' = active /\ server' = server
    BY <1>1 DEF Persist
  <2> QED BY <1>0, <2>2, <2>3, Quiet DEF cacheVars, TypeOK
<1>2. CASE Drain
  <2>1. turn' = turn /\ active' = active /\ server' = "draining" /\ UNCHANGED storeVars
    BY <1>2 DEF Drain
  <2> QED BY <1>0, <2>1, StoreUnchanged, Quiet DEF cacheVars
<1>3. CASE Stop
  <2>1. saved(states) \subseteq states
    BY SavedIsPart
  <2>2. /\ StoreTypeOK' /\ recorded' = recorded /\ now' = now
        /\ states' \union snapshot' \subseteq states \union snapshot
    <3>1. CASE timer
      BY <1>0, <1>3, <2>1, <3>1 DEF Stop, flushResponseState, persistNow, StoreTypeOK
    <3>2. CASE ~timer
      BY <1>3, <3>2, StoreUnchanged DEF Stop, flushResponseState
    <3> QED BY <3>1, <3>2
  <2>3. turn' = drained /\ active' = {} /\ server' = "stopped"
    BY <1>3 DEF Stop
  <2> DEFINE l(t) == IF t \in active /\ isNative(t) THEN logged(turn[t], "cancelled") ELSE turn[t]
  <2>4. ASSUME NEW t \in Turns
        PROVE  cut(l(t)) \in TurnRecord /\ (cut(l(t)) = turn[t] \/ Kept(turn[t], cut(l(t))))
    <3>1. turn[t] \in TurnRecord
      BY <1>0
    <3>2. l(t) \in TurnRecord /\ l(t).pc = turn[t].pc
          /\ (l(t) = turn[t] \/ turn[t].pc = "idle" \/ Kept(turn[t], l(t)))
      BY <3>1, LoggedKeeps
    <3>3. CASE l(t) = turn[t]
      BY <3>1, <3>3, CutKeeps
    <3>4. CASE l(t) # turn[t] /\ turn[t].pc = "idle"
      BY <1>0, <3>4
    <3>5. CASE Kept(turn[t], l(t))
      <4> HIDE DEF l
      <4>1. cut(l(t)) \in TurnRecord /\ (cut(l(t)) = l(t) \/ Kept(l(t), cut(l(t))))
        BY <3>2, CutKeeps
      <4> QED BY <3>5, <4>1, KeptTwice
    <3> QED BY <3>2, <3>3, <3>4, <3>5
  <2>5. drained = [t \in Turns |-> cut(l(t))]
    BY DEF drained
  <2> HIDE DEF l
  <2>6. turn' \in [Turns -> TurnRecord]
    BY <2>3, <2>4, <2>5
  <2>7. \A t \in Turns : turn'[t] = turn[t] \/ Kept(turn[t], turn'[t])
    BY <2>3, <2>4, <2>5
  <2> QED BY <2>2, <2>3, <2>6, <2>7, Quiet DEF cacheVars
<1>4. CASE Crash
  <2>1. turn' = [t \in Turns |-> cut(turn[t])] /\ active' = {} /\ server' = "crashed"
        /\ UNCHANGED storeVars
    BY <1>4 DEF Crash
  <2>2. ASSUME NEW t \in Turns
        PROVE  cut(turn[t]) \in TurnRecord /\ (cut(turn[t]) = turn[t] \/ Kept(turn[t], cut(turn[t])))
    BY <1>0, CutKeeps
  <2>3. turn' \in [Turns -> TurnRecord]
    BY <2>1, <2>2
  <2>4. \A t \in Turns : turn'[t] = turn[t] \/ Kept(turn[t], turn'[t])
    BY <2>1, <2>2
  <2> QED BY <2>1, <2>3, <2>4, Quiet, StoreUnchanged DEF cacheVars
<1>5. CASE Restart
  <2>1. /\ StoreTypeOK' /\ recorded' = recorded /\ now' = now
        /\ states' \union snapshot' \subseteq states \union snapshot
    BY <1>0, <1>5 DEF Restart, restart, StoreTypeOK
  <2>2. turn' = turn /\ active' = active /\ server' = "running"
    BY <1>5 DEF Restart
  <2> QED BY <1>0, <2>1, <2>2, Quiet DEF cacheVars
<1> QED BY <1>1, <1>2, <1>3, <1>4, <1>5

-----------------------------------------------------------------------------
(* Steps that use the store, and the clock *)

\* What a use of the store leaves in memory has the type of the store, and
\* was there.
LEMMA CurrentTyped ==
  ASSUME Inv
  PROVE  current \subseteq Entry /\ current \subseteq states \union snapshot
BY CurrentIsPart DEF Inv, TypeOK, StoreTypeOK

\* A hit is the conversation that was recorded, within its time to live.
LEMMA ConversationIsRecorded ==
  ASSUME Inv, NEW p, isStored(p)
  PROVE  /\ p \in Turns /\ recorded[p] # None
         /\ conversation(p) = recorded[p].items /\ conversation(p) \in Seq(Turns)
         /\ now - recorded[p].createdAt <= TTL
<1>1. PICK e \in current : e = CHOOSE f \in current : f.id = p
  BY DEF isStored
<1>2. e.id = p
  BY <1>1 DEF isStored
<1>3. conversation(p) = e.items
  BY <1>1 DEF conversation
<1>4. e \in Entry /\ IsHonest(e)
  BY CurrentTyped DEF Inv, StoreIsHonest
<1>5. now - e.createdAt <= TTL
  BY CurrentIsPart
<1> QED BY <1>2, <1>3, <1>4, <1>5 DEF Entry, IsHonest

LEMMA BeginStep ==
  ASSUME Inv, NEW t \in Turns, NEW kind \in Kinds, NEW p \in Turns \union {0},
         Begin(t, kind, p)
  PROVE  Inv' /\ [Cache!Next]_cacheVars
<1>0. /\ turn \in [Turns -> TurnRecord] /\ active \subseteq Turns /\ StoreTypeOK
      /\ turn[t].pc = "idle" /\ turn[t] = Unstarted /\ t \notin active /\ recorded[t] = None
  BY DEF Inv, TypeOK, IdleIsUnstarted, ActiveIsStarted, IsRecordedOnce, Begin
<1> DEFINE m == p # 0 /\ ~isStored(p)
           r == [Unstarted EXCEPT !.pc = "connecting", !.kind = kind, !.prev = p,
                                  !.body = conversation(p), !.missed = m]
<1>1. turn' = [turn EXCEPT ![t] = r] /\ active' = active /\ server' = server
  BY DEF Begin
<1>2. conversation(p) \in Seq(Turns) /\ (~isStored(p) => conversation(p) = <<>>)
  <2>1. CASE isStored(p) BY <2>1, ConversationIsRecorded
  <2>2. CASE ~isStored(p) BY <2>2 DEF conversation
  <2> QED BY <2>1, <2>2
<1>3. m \in BOOLEAN /\ kind \in {"native", "bridged"}
  BY RelayAssumption
<1>4. ~isStored(0)
  BY ConversationIsRecorded, StoreAssumption
<1> HIDE DEF m
<1>5. r \in TurnRecord
  BY <1>2, <1>3, UnstartedTyped DEF TurnRecord, Under
<1>6. /\ r.pc = "connecting" /\ r.prev = p /\ r.body = conversation(p) /\ r.missed = m
      /\ r.kind = kind
  BY DEF Unstarted
<1> HIDE DEF r
<1>7. /\ StoreTypeOK' /\ recorded' = recorded /\ now' = now
      /\ states' \union snapshot' \subseteq states \union snapshot
  <2>1. CASE p = 0 BY <2>1, StoreUnchanged DEF Begin
  <2>2. CASE p # 0 BY <1>0, <2>2, CurrentTyped DEF Begin, expand, StoreTypeOK
  <2> QED BY <2>1, <2>2
<1>8. TypeOK'
  BY <1>0, <1>1, <1>5, <1>7 DEF TypeOK, Inv
<1>a. FewAreRecorded'
  BY <1>7 DEF Inv, FewAreRecorded
<1>9. StoreIsHonest' /\ IdleIsUnstarted' /\ ActiveIsStarted'
  BY <1>0, <1>1, <1>6, <1>7 DEF Inv, StoreIsHonest, IsHonest, IdleIsUnstarted, ActiveIsStarted
<1>10. ASSUME NEW u \in Turns PROVE IsRecordedOnce(u)' /\ HasItsBody(u)'
  <2>1. CASE u = t
    <3>1. turn'[u] = r /\ recorded'[u] = None
      BY <1>0, <1>1, <1>7, <2>1
    <3>2. p = 0 => conversation(p) = <<>>
      BY <1>2, <1>4
    <3>3. p # 0 /\ ~m => recorded[p] # None /\ conversation(p) = recorded[p].items
      BY ConversationIsRecorded DEF m
    <3> QED BY <1>6, <1>7, <3>1, <3>2, <3>3 DEF IsRecordedOnce, HasItsBody
  <2>2. CASE u # t
    <3>1. turn'[u] = turn[u] /\ recorded' = recorded
      BY <1>0, <1>1, <1>7, <2>2
    <3> QED BY <3>1 DEF Inv, IsRecordedOnce, HasItsBody, isNative, passthroughRecordEligible
  <2> QED BY <2>1, <2>2
<1>11. [Cache!Next]_cacheVars
  <2>1. answers' = [answers EXCEPT ![t] = conversation(p)]
    BY <1>0, <1>1, <1>6 DEF answers
  <2>2. CASE isStored(p)
    <3>1. Cache!Answer(t, p)
      BY <1>7, <2>1, <2>2, ConversationIsRecorded DEF Cache!Answer, answers
    <3> QED BY <2>2, <3>1, ConversationIsRecorded DEF Cache!Next
  <2>3. CASE ~isStored(p)
    <3>1. answers[t] = <<>>
      BY <1>0 DEF answers, Unstarted
    <3>2. answers' = answers
      BY <1>2, <2>1, <2>3, <3>1 DEF answers
    <3> QED BY <1>7, <3>2 DEF cacheVars
  <2> QED BY <2>2, <2>3
<1> QED BY <1>8, <1>a, <1>9, <1>10, <1>11 DEF Inv

\* The two steps that record a turn: it goes on from q to r.
LEMMA RecordStep ==
  ASSUME Inv, NEW t \in Turns, NEW r \in TurnRecord, Kept(turn[t], r),
         turn' = [turn EXCEPT ![t] = r], active' = active, server' = server,
         rememberResponseState(t, Append(turn[t].body, t)),
         recorded[t] = None, r.pc # "connecting",
         isNative(t) => r.outcome # None /\ passthroughRecordEligible(t),
         ~isNative(t) => ~r.reading
  PROVE  Inv' /\ [Cache!Next]_cacheVars
<1>0. /\ turn \in [Turns -> TurnRecord] /\ active \subseteq Turns /\ StoreTypeOK /\ TypeOK
  BY DEF Inv, TypeOK
<1> DEFINE items == Append(turn[t].body, t)
           known == {u \in Turns : recorded[u] # None}
           entry == [id |-> t, items |-> items, createdAt |-> now, order |-> Cardinality(known)]
           rec == [items |-> items, createdAt |-> now]
<1>1. items \in Seq(Turns)
  BY <1>0 DEF TurnRecord
<1> HIDE DEF items
<1>2. /\ states' = pruned(current \union {entry}) /\ loaded' = TRUE /\ timer' = TRUE
      /\ recorded' = [recorded EXCEPT ![t] = rec]
      /\ failed' = failed /\ snapshot' = snapshot /\ now' = now
  BY DEF rememberResponseState, items
<1>3. rec \in [items : Seq(Turns), createdAt : Nat] /\ rec # None
  BY <1>0, <1>1, StoreAssumption DEF StoreTypeOK
<1>4. recorded' \in [Turns -> [items : Seq(Turns), createdAt : Nat] \union {None}]
  BY <1>0, <1>2, <1>3 DEF StoreTypeOK
<1>5. recorded'[t] = rec /\ \A u \in Turns \ {t} : recorded'[u] = recorded[u]
  BY <1>0, <1>2 DEF StoreTypeOK
<1>6. IsFiniteSet(known) /\ Cardinality(known) \in Nat
  BY FS_CardinalityType DEF Inv, FewAreRecorded
<1>7. FewAreRecorded'
  <2>1. {u \in Turns : recorded'[u] # None} = known \union {t}
    BY <1>3, <1>5
  <2> QED BY <1>6, <2>1, FS_AddElement DEF FewAreRecorded
<1>8. entry \in Entry
  BY <1>0, <1>1, <1>6 DEF Entry, StoreTypeOK
<1>9. entry.id = t /\ entry.items = items /\ entry.createdAt = now
  OBVIOUS
<1>10. rec.items = items /\ rec.createdAt = now
  OBVIOUS
<1> HIDE DEF known, entry, rec
<1>11. states' \subseteq (states \union snapshot) \union {entry}
  BY <1>2, CurrentTyped, PrunedIsPart
<1>12. StoreTypeOK'
  BY <1>0, <1>2, <1>4, <1>8, <1>11 DEF StoreTypeOK
<1>13. TypeOK'
  BY <1>0, <1>12 DEF TypeOK
<1>14. StoreIsHonest'
  <2> SUFFICES ASSUME NEW e \in states' \union snapshot' PROVE IsHonest(e)'
    BY DEF StoreIsHonest
  <2>1. CASE e = entry
    BY <1>3, <1>5, <1>9, <1>10, <2>1 DEF IsHonest
  <2>2. CASE e # entry
    <3>1. e \in states \union snapshot /\ e \in Entry
      BY <1>0, <1>2, <1>11, <2>2 DEF StoreTypeOK
    <3>2. IsHonest(e) /\ e.id \in Turns
      BY <3>1 DEF Inv, StoreIsHonest, Entry
    <3>3. recorded'[e.id] = recorded[e.id]
      BY <1>5, <3>2 DEF IsHonest
    <3> QED BY <3>2, <3>3 DEF IsHonest
  <2> QED BY <2>1, <2>2
<1>15. IdleIsUnstarted' /\ ActiveIsStarted'
  BY <1>0 DEF Inv, IdleIsUnstarted, ActiveIsStarted, Kept
<1>16. ASSUME NEW u \in Turns PROVE HasItsBody(u)'
  <2>1. HasItsBody(u)
    BY DEF Inv
  <2>2. turn'[u].prev = turn[u].prev /\ turn'[u].body = turn[u].body
        /\ turn'[u].missed = turn[u].missed /\ turn[u].prev \in Turns \union {0}
    <3>1. turn[u] \in TurnRecord
      BY <1>0
    <3>2. turn'[u] = turn[u] \/ Kept(turn[u], turn'[u])
      BY <1>0
    <3> QED BY <3>1, <3>2 DEF Kept, TurnRecord
  <2>3. turn[u].prev # 0 /\ recorded[turn[u].prev] # None
          => recorded'[turn[u].prev] = recorded[turn[u].prev]
    BY <1>5, <2>2
  <2> QED BY <2>1, <2>2, <2>3 DEF HasItsBody
<1>17. ASSUME NEW u \in Turns PROVE IsRecordedOnce(u)'
  <2>1. CASE u = t
    <3>1. turn'[u] = r /\ recorded'[u] = rec
      BY <1>0, <1>5, <2>1
    <3>2. r.kind = turn[t].kind /\ r.prev = turn[t].prev /\ r.body = turn[t].body
          /\ r.missed = turn[t].missed /\ r.pc # "idle"
      BY DEF Kept
    <3> QED BY <1>10, <2>1, <3>1, <3>2
            DEF IsRecordedOnce, isNative, passthroughRecordEligible, items
  <2>2. CASE u # t
    <3>1. turn'[u] = turn[u] /\ recorded'[u] = recorded[u]
      BY <1>0, <1>5, <2>2
    <3> QED BY <3>1 DEF Inv, IsRecordedOnce, isNative, passthroughRecordEligible
  <2> QED BY <2>1, <2>2
<1>18. Cache!RecordResponse(t)
  <2>1. answers' = answers
    BY <1>0 DEF answers, Kept
  <2>2. recorded'[t] # None /\ recorded'[t].items = items
    BY <1>3, <1>5, <1>10
  <2>3. recorded' = [recorded EXCEPT ![t] = [items |-> items, createdAt |-> now]]
    BY <1>2 DEF rec
  <2> QED BY <1>1, <1>2, <2>1, <2>2, <2>3 DEF Cache!RecordResponse, answers
<1> QED BY <1>7, <1>13, <1>14, <1>15, <1>16, <1>17, <1>18 DEF Inv, Cache!Next

LEMMA NativeTerminalStep ==
  ASSUME Inv, NEW t \in Turns, NEW e \in Answers, NativeTerminal(t, e)
  PROVE  Inv' /\ [Cache!Next]_cacheVars
<1> DEFINE q == turn[t]
           l == reported(q, e)
           n == queued(l, e)
           r == settled(n)
<1>0. q \in TurnRecord /\ e \in Terminals /\ active \subseteq Turns /\ q.pc = "streaming"
      /\ q.outcome = None
  BY DEF Inv, TypeOK, Answers, Terminals, NativeTerminal, isStreaming
<1>1. becomes(t, n) /\ turn' = [turn EXCEPT ![t] = r] /\ active' = active /\ server' = server
  BY DEF NativeTerminal, becomes
<1> HIDE DEF q
<1>2. l \in TurnRecord /\ Kept(q, l) /\ l.outcome # None /\ l.pc = q.pc
  BY <1>0, ReportedKeeps
<1> HIDE DEF l
<1>3. n \in TurnRecord /\ Kept(l, n) /\ n.outcome # None /\ n.pc = q.pc
  BY <1>0, <1>2, QueuedKeeps
<1> HIDE DEF n
<1>4. Kept(q, n)
  BY <1>2, <1>3, KeptTwice
<1>5. r \in TurnRecord /\ Kept(n, r) /\ r.outcome # None /\ r.pc # "connecting"
  BY <1>0, <1>3, SettledKeeps
<1>6. Kept(q, r)
  BY <1>4, <1>5, KeptTwice
<1>7. CASE e = "completed" /\ passthroughRecordEligible(t)
  <2>1. rememberResponseState(t, Append(q.body, t)) /\ isNative(t)
    BY <1>7 DEF NativeTerminal, q
  <2>2. recorded[t] = None
    BY <1>0, <2>1 DEF Inv, IsRecordedOnce, q
  <2> HIDE DEF r
  <2> QED BY <1>1, <1>5, <1>6, <1>7, <2>1, <2>2, RecordStep DEF q
<1>8. CASE ~(e = "completed" /\ passthroughRecordEligible(t))
  <2>1. UNCHANGED storeVars
    BY <1>8 DEF NativeTerminal
  <2> QED BY <1>0, <1>1, <1>3, <1>4, <2>1, QuietBecomes DEF q
<1> QED BY <1>7, <1>8

LEMMA BridgeEndsStep ==
  ASSUME Inv, NEW t \in Turns, NEW e \in Answers, BridgeEnds(t, e)
  PROVE  Inv' /\ [Cache!Next]_cacheVars
<1> DEFINE q == turn[t]
           l == emitted(q, e)
           n == [l EXCEPT !.reading = FALSE]
           r == settled(n)
<1>0. q \in TurnRecord /\ e \in Terminals /\ active \subseteq Turns /\ q.pc = "streaming"
      /\ q.reading
  BY DEF Inv, TypeOK, Answers, Terminals, BridgeEnds, isStreaming
<1>1. becomes(t, n) /\ turn' = [turn EXCEPT ![t] = r] /\ active' = active /\ server' = server
  BY DEF BridgeEnds, becomes
<1> HIDE DEF q
<1>2. l \in TurnRecord /\ Kept(q, l) /\ l.pc = q.pc
  BY <1>0, QueuedKeeps DEF emitted, Kept
<1> HIDE DEF l
<1>3. n \in TurnRecord
  BY <1>2 DEF TurnRecord
<1>4. Kept(l, n) /\ n.pc = q.pc /\ ~n.reading
  BY <1>0, <1>2 DEF TurnRecord, Kept
<1> HIDE DEF n
<1>5. Kept(q, n)
  BY <1>2, <1>4, KeptTwice
<1>6. r \in TurnRecord /\ Kept(n, r) /\ ~r.reading /\ r.pc # "connecting"
  BY <1>0, <1>3, <1>4, SettledKeeps
<1>7. Kept(q, r)
  BY <1>5, <1>6, KeptTwice
<1>8. CASE e = "completed"
  <2>1. rememberResponseState(t, Append(q.body, t)) /\ ~isNative(t)
    BY <1>8 DEF BridgeEnds, q
  <2>2. recorded[t] = None
    BY <1>0, <2>1 DEF Inv, IsRecordedOnce, q
  <2> HIDE DEF r
  <2> QED BY <1>1, <1>6, <1>7, <2>1, <2>2, RecordStep DEF q
<1>9. CASE e # "completed"
  <2>1. UNCHANGED storeVars
    BY <1>9 DEF BridgeEnds
  <2> QED BY <1>0, <1>1, <1>3, <1>5, <2>1, QuietBecomes DEF q
<1> QED BY <1>8, <1>9

LEMMA PassStep ==
  ASSUME Inv, Pass
  PROVE  Inv' /\ [Cache!Next]_cacheVars
<1>1. /\ turn' = turn /\ active' = active /\ server' = server /\ now' = now + 1
      /\ UNCHANGED <<states, loaded, timer, failed, snapshot, recorded>>
  BY DEF Pass, pass
<1>2. StoreTypeOK' /\ turn' \in [Turns -> TurnRecord] /\ active' \subseteq Turns
      /\ server' \in {"running", "draining", "stopped", "crashed"}
      /\ \A t \in active' : turn'[t].pc # "idle"
  BY <1>1 DEF Inv, TypeOK, StoreTypeOK, ActiveIsStarted
<1>3. Inv' /\ answers' = answers
  BY <1>1, <1>2, Quiet
<1>4. Cache!Pass
  BY <1>1, <1>3 DEF Cache!Pass, answers
<1> QED BY <1>3, <1>4 DEF Cache!Next

-----------------------------------------------------------------------------
(* Each turn by itself: its events, its outcome and its log *)

\* Nothing has come of a turn that is not connected.
NotYet(r) ==
  /\ r.log = None /\ r.outcome = None /\ r.queue = <<>> /\ r.seen = <<>>
  /\ r.upstream = "open" /\ ~r.closed /\ ~r.reading

\* The inspection of a native turn goes on until the outcome is reported, and
\* nothing is logged before it.
NativeOK(r) == r.pc = "streaming" /\ r.outcome = None => r.log = None /\ r.reading

\* A bridged turn has one event at most, which is still to come, queued or
\* seen; its log is written when the client sees it, or reads no more.
BridgedOK(r) ==
  /\ r.outcome = None
  /\ r.seen = <<>> \/ (r.seen = <<r.log>> /\ r.queue = <<>> /\ r.log \in Terminals)
  /\ Len(r.queue) <= 1
  /\ r.reading /\ r.upstream = "open" => r.queue = <<>> /\ r.seen = <<>>
  /\ r.pc = "streaming" /\ r.closed => r.log # None
  /\ ~r.closed /\ r.log # None => r.seen # <<>>

RecordOK(r) ==
  /\ r.pc \in {"idle", "connecting"} => NotYet(r)
  /\ r.pc = "over" => r.log # None
  /\ r.outcome # None => r.log = r.outcome
  /\ IF r.kind = "native" THEN NativeOK(r) ELSE BridgedOK(r)

TurnsOK == \A t \in Turns : RecordOK(turn[t])

\* The small steps on a record, field by field.
LEMMA LoggedIs ==
  ASSUME NEW r \in TurnRecord, NEW s \in Terminals \union {"cancelled"}
  PROVE  LET n == logged(r, s) IN
         /\ n \in TurnRecord /\ n.log = IF r.log = None THEN s ELSE r.log
         /\ n.pc = r.pc /\ n.kind = r.kind /\ n.upstream = r.upstream
         /\ n.reading = r.reading /\ n.queue = r.queue /\ n.seen = r.seen
         /\ n.closed = r.closed /\ n.outcome = r.outcome
<1> DEFINE m == [r EXCEPT !.log = s]
<1>1. /\ m.log = s
      /\ m.pc = r.pc /\ m.kind = r.kind /\ m.upstream = r.upstream
      /\ m.reading = r.reading /\ m.queue = r.queue /\ m.seen = r.seen
      /\ m.closed = r.closed /\ m.outcome = r.outcome
  BY DEF TurnRecord
<1>2. logged(r, s) = IF r.log = None THEN m ELSE r
  BY DEF logged
<1> HIDE DEF m
<1> QED BY <1>1, <1>2, LoggedKeeps

LEMMA QueuedIs ==
  ASSUME NEW r \in TurnRecord, NEW e \in Terminals
  PROVE  LET n == queued(r, e) IN
         /\ n \in TurnRecord /\ n.queue = IF r.closed THEN r.queue ELSE Append(r.queue, e)
         /\ n.pc = r.pc /\ n.kind = r.kind /\ n.upstream = r.upstream
         /\ n.reading = r.reading /\ n.log = r.log /\ n.seen = r.seen
         /\ n.closed = r.closed /\ n.outcome = r.outcome
<1> DEFINE m == [r EXCEPT !.queue = Append(r.queue, e)]
<1>1. /\ m.queue = Append(r.queue, e)
      /\ m.pc = r.pc /\ m.kind = r.kind /\ m.upstream = r.upstream
      /\ m.reading = r.reading /\ m.log = r.log /\ m.seen = r.seen
      /\ m.closed = r.closed /\ m.outcome = r.outcome
  BY DEF TurnRecord
<1>2. queued(r, e) = IF r.closed THEN r ELSE m
  BY DEF queued
<1> HIDE DEF m
<1> QED BY <1>1, <1>2, QueuedKeeps

LEMMA AbortedIs ==
  ASSUME NEW r \in TurnRecord
  PROVE  LET n == aborted(r) IN
         /\ n \in TurnRecord
         /\ n.upstream = IF r.upstream = "open" THEN "aborted" ELSE r.upstream
         /\ n.pc = r.pc /\ n.kind = r.kind /\ n.queue = r.queue
         /\ n.reading = r.reading /\ n.log = r.log /\ n.seen = r.seen
         /\ n.closed = r.closed /\ n.outcome = r.outcome
<1> DEFINE m == [r EXCEPT !.upstream = "aborted"]
<1>1. /\ m.upstream = "aborted"
      /\ m.pc = r.pc /\ m.kind = r.kind /\ m.queue = r.queue
      /\ m.reading = r.reading /\ m.log = r.log /\ m.seen = r.seen
      /\ m.closed = r.closed /\ m.outcome = r.outcome
  BY DEF TurnRecord
<1>2. aborted(r) = IF r.upstream = "open" THEN m ELSE r
  BY DEF aborted
<1> HIDE DEF m
<1> QED BY <1>1, <1>2, AbortedKeeps

LEMMA ReportedIs ==
  ASSUME NEW r \in TurnRecord, NEW s \in Terminals
  PROVE  LET n == reported(r, s) IN
         /\ n \in TurnRecord
         /\ n.outcome = IF r.outcome = None THEN s ELSE r.outcome
         /\ n.log = IF r.outcome = None /\ r.log = None THEN s ELSE r.log
         /\ n.pc = r.pc /\ n.kind = r.kind /\ n.upstream = r.upstream
         /\ n.reading = r.reading /\ n.queue = r.queue /\ n.seen = r.seen
         /\ n.closed = r.closed
<1> DEFINE m == [r EXCEPT !.outcome = s]
<1>1. m \in TurnRecord
  BY DEF TurnRecord
<1>2. /\ m.outcome = s /\ m.log = r.log
      /\ m.pc = r.pc /\ m.kind = r.kind /\ m.upstream = r.upstream
      /\ m.reading = r.reading /\ m.queue = r.queue /\ m.seen = r.seen
      /\ m.closed = r.closed
  BY DEF TurnRecord
<1>3. reported(r, s) = IF r.outcome = None THEN logged(m, s) ELSE r
  BY DEF reported
<1> HIDE DEF m
<1>4. CASE r.outcome = None
  BY <1>1, <1>2, <1>3, <1>4, LoggedIs
<1>5. CASE r.outcome # None
  BY <1>3, <1>5
<1> QED BY <1>4, <1>5

LEMMA ClosedIs ==
  ASSUME NEW r \in TurnRecord
  PROVE  /\ LET n == [r EXCEPT !.closed = TRUE] IN
            /\ n \in TurnRecord /\ n.closed /\ n.queue = r.queue
            /\ n.pc = r.pc /\ n.kind = r.kind /\ n.upstream = r.upstream
            /\ n.reading = r.reading /\ n.log = r.log /\ n.seen = r.seen
            /\ n.outcome = r.outcome
         /\ LET n == [r EXCEPT !.closed = TRUE, !.queue = <<>>] IN
            /\ n \in TurnRecord /\ n.closed /\ n.queue = <<>>
            /\ n.pc = r.pc /\ n.kind = r.kind /\ n.upstream = r.upstream
            /\ n.reading = r.reading /\ n.log = r.log /\ n.seen = r.seen
            /\ n.outcome = r.outcome
<1>0. <<>> \in Seq(Terminals)
  OBVIOUS
<1> DEFINE n == [r EXCEPT !.closed = TRUE]
           m == [r EXCEPT !.closed = TRUE, !.queue = <<>>]
<1>1. n \in TurnRecord
  BY DEF TurnRecord
<1>2. m \in TurnRecord
  BY <1>0 DEF TurnRecord
<1>3. /\ n.closed /\ n.queue = r.queue
      /\ n.pc = r.pc /\ n.kind = r.kind /\ n.upstream = r.upstream
      /\ n.reading = r.reading /\ n.log = r.log /\ n.seen = r.seen
      /\ n.outcome = r.outcome
  BY DEF TurnRecord
<1>4. /\ m.closed /\ m.queue = <<>>
      /\ m.pc = r.pc /\ m.kind = r.kind /\ m.upstream = r.upstream
      /\ m.reading = r.reading /\ m.log = r.log /\ m.seen = r.seen
      /\ m.outcome = r.outcome
  BY DEF TurnRecord
<1> QED BY <1>1, <1>2, <1>3, <1>4

LEMMA ReadIs ==
  ASSUME NEW r \in TurnRecord
  PROVE  LET n == [r EXCEPT !.reading = FALSE] IN
         /\ n \in TurnRecord /\ ~n.reading
         /\ n.pc = r.pc /\ n.kind = r.kind /\ n.upstream = r.upstream
         /\ n.queue = r.queue /\ n.log = r.log /\ n.seen = r.seen
         /\ n.closed = r.closed /\ n.outcome = r.outcome
BY DEF TurnRecord

\* A turn that settles is over only when it is logged.
LEMMA SettledOK ==
  ASSUME NEW r \in TurnRecord,
         IF r.closed /\ ~r.reading
           THEN /\ r.log # None /\ (r.outcome # None => r.log = r.outcome)
                /\ r.kind = "bridged" => /\ r.outcome = None
                                         /\ r.seen = <<>> \/ (r.seen = <<r.log>> /\ r.log \in Terminals)
           ELSE RecordOK(r)
  PROVE  RecordOK(settled(r))
<1> DEFINE n == [r EXCEPT !.pc = "over", !.queue = <<>>, !.upstream = "ended"]
<1>1. CASE r.closed /\ ~r.reading
  <2>1. settled(r) = n
    BY <1>1 DEF settled
  <2>2. /\ n.pc = "over" /\ n.queue = <<>> /\ n.kind = r.kind /\ n.reading = r.reading
        /\ n.log = r.log /\ n.seen = r.seen /\ n.closed = r.closed /\ n.outcome = r.outcome
        /\ r.kind \in {"native", "bridged"}
    BY DEF TurnRecord
  <2> HIDE DEF n
  <2> QED BY <1>1, <2>1, <2>2 DEF RecordOK, NativeOK, BridgedOK
<1>2. CASE ~(r.closed /\ ~r.reading)
  <2>1. settled(r) = r
    BY <1>2 DEF settled, TurnRecord
  <2> QED BY <1>2, <2>1
<1> QED BY <1>1, <1>2

LEMMA TurnStays ==
  ASSUME TypeOK, TurnsOK, NEW t \in Turns, NEW r, RecordOK(r), turn' = [turn EXCEPT ![t] = r]
  PROVE  TurnsOK'
BY DEF TypeOK, TurnsOK

LEMMA Statuses ==
  /\ {"completed", "failed", "incomplete"} \subseteq Terminals
  /\ "cancelled" \notin Terminals /\ None \notin Terminals /\ None # "cancelled"
BY RelayAssumption DEF Terminals

\* One lemma for each step of a turn: what it makes of the record is in order.
LEMMA StartsOK ==
  ASSUME TypeOK, TurnsOK, NEW t \in Turns,
         \/ \E kind \in Kinds, p \in Turns \union {0} : Begin(t, kind, p)
         \/ Connect(t) \/ ConnectFails(t) \/ LeavesEarly(t)
  PROVE  TurnsOK'
<1> DEFINE q == turn[t]
<1>0. q \in TurnRecord /\ RecordOK(q) /\ q.kind \in {"native", "bridged"}
  BY DEF TypeOK, TurnsOK, TurnRecord
<1>1. ASSUME NEW kind \in Kinds, NEW p \in Turns \union {0}, Begin(t, kind, p) PROVE TurnsOK'
  <2> DEFINE m == p # 0 /\ ~isStored(p)
             r == [Unstarted EXCEPT !.pc = "connecting", !.kind = kind, !.prev = p,
                                    !.body = conversation(p), !.missed = m]
  <2>1. turn' = [turn EXCEPT ![t] = r]
    BY <1>1 DEF Begin
  <2>2. /\ r.pc = "connecting" /\ r.kind = kind /\ r.log = None /\ r.outcome = None
        /\ r.queue = <<>> /\ r.seen = <<>> /\ r.upstream = "open" /\ r.closed = FALSE
        /\ r.reading = FALSE
    BY DEF Unstarted
  <2> HIDE DEF r
  <2>3. RecordOK(r)
    BY <2>2 DEF RecordOK, NotYet, NativeOK, BridgedOK
  <2> QED BY <2>1, <2>3, TurnStays
<1>2. CASE Connect(t)
  <2> DEFINE r == [q EXCEPT !.pc = "streaming", !.reading = TRUE]
  <2>1. turn' = [turn EXCEPT ![t] = r] /\ q.pc = "connecting"
    BY <1>2 DEF Connect
  <2> HIDE DEF q
  <2>2. /\ r.pc = "streaming" /\ r.reading
        /\ r.kind = q.kind /\ r.log = q.log /\ r.outcome = q.outcome /\ r.queue = q.queue
        /\ r.seen = q.seen /\ r.upstream = q.upstream /\ r.closed = q.closed
    BY <1>0 DEF TurnRecord
  <2> HIDE DEF r
  <2>3. RecordOK(r)
    BY <1>0, <2>1, <2>2 DEF RecordOK, NotYet, NativeOK, BridgedOK
  <2> QED BY <2>1, <2>3, TurnStays
<1>3. CASE ConnectFails(t)
  <2> DEFINE f == [q EXCEPT !.outcome = "failed"]
             r == IF isNative(t) THEN f ELSE q
             l == logged(r, "failed")
             c == [l EXCEPT !.closed = TRUE]
  <2>1. turn' = [turn EXCEPT ![t] = settled(c)] /\ q.pc = "connecting"
        /\ (isNative(t) <=> q.kind = "native")
    BY <1>3 DEF ConnectFails, becomes, isNative
  <2> HIDE DEF q
  <2>2. /\ f \in TurnRecord /\ f.outcome = "failed" /\ f.log = q.log /\ f.seen = q.seen
        /\ f.kind = q.kind /\ f.reading = q.reading
    BY <1>0, Statuses DEF TurnRecord
  <2> HIDE DEF f
  <2>3. r \in TurnRecord /\ r.log = None /\ r.seen = <<>> /\ r.kind = q.kind /\ ~r.reading
        /\ r.outcome = IF q.kind = "native" THEN "failed" ELSE None
    BY <1>0, <2>1, <2>2 DEF RecordOK, NotYet
  <2> HIDE DEF r
  <2>a. "failed" \in Terminals \union {"cancelled"}
    BY Statuses
  <2>4. l \in TurnRecord /\ l.log = "failed" /\ l.seen = <<>> /\ l.kind = q.kind /\ ~l.reading
        /\ l.outcome = r.outcome
    BY <2>3, <2>a, LoggedIs
  <2> HIDE DEF l
  <2>5. c \in TurnRecord /\ c.log = "failed" /\ c.seen = <<>> /\ c.kind = q.kind /\ ~c.reading
        /\ c.outcome = r.outcome /\ c.closed
    BY <2>4, ClosedIs
  <2> HIDE DEF c
  <2>6. RecordOK(settled(c))
    BY <2>3, <2>5, SettledOK, Statuses
  <2> QED BY <2>1, <2>6, TurnStays
<1>4. CASE LeavesEarly(t)
  <2> DEFINE l == logged(q, "cancelled")
             c == [l EXCEPT !.closed = TRUE]
  <2>1. turn' = [turn EXCEPT ![t] = settled(c)] /\ q.pc = "connecting"
    BY <1>4 DEF LeavesEarly, becomes
  <2> HIDE DEF q
  <2>2. /\ l \in TurnRecord /\ l.log = "cancelled" /\ l.seen = <<>> /\ ~l.reading
        /\ l.outcome = None
    BY <1>0, <2>1, LoggedIs DEF RecordOK, NotYet
  <2> HIDE DEF l
  <2>3. /\ c \in TurnRecord /\ c.log = "cancelled" /\ c.seen = <<>> /\ ~c.reading
        /\ c.outcome = None /\ c.closed
    BY <2>2, ClosedIs
  <2> HIDE DEF c
  <2>4. RecordOK(settled(c))
    BY <2>3, SettledOK, Statuses
  <2> QED BY <2>1, <2>4, TurnStays
<1> QED BY <1>1, <1>2, <1>3, <1>4

LEMMA NativeStepsOK ==
  ASSUME TypeOK, TurnsOK, NEW t \in Turns, isStreaming(t), isNative(t),
         \/ \E e \in Answers : NativeTerminal(t, e)
         \/ NativeEnds(t) \/ InspectionEnds(t) \/ NativeRelayEnds(t) \/ NativeClientLeaves(t)
         \/ Relay(t)
  PROVE  TurnsOK'
<1> DEFINE q == turn[t]
<1>0. q \in TurnRecord /\ RecordOK(q) /\ q.kind = "native" /\ q.pc = "streaming"
  BY DEF TypeOK, TurnsOK, isNative, isStreaming
<1>a. (q.outcome = None => q.log = None /\ q.reading) /\ (q.outcome # None => q.log = q.outcome)
  BY <1>0 DEF RecordOK, NativeOK
\* A native turn that streams is in order when its log is, and its outcome.
<1>b. ASSUME NEW r \in TurnRecord, r.kind = "native", r.pc = "streaming",
             r.outcome = None => r.log = None /\ r.reading,
             r.outcome # None => r.log = r.outcome
      PROVE  RecordOK(r) /\ RecordOK(settled(r))
  <2>1. RecordOK(r)
    BY <1>b DEF RecordOK, NativeOK
  <2> QED BY <1>b, <2>1, SettledOK
<1>1. ASSUME NEW e \in Answers, NativeTerminal(t, e) PROVE TurnsOK'
  <2> DEFINE p == reported(q, e)
             n == queued(p, e)
  <2>1. turn' = [turn EXCEPT ![t] = settled(n)] /\ q.outcome = None
    BY <1>1 DEF NativeTerminal, becomes
  <2> HIDE DEF q
  <2>2. e \in Terminals
    BY DEF Answers, Terminals
  <2>3. p \in TurnRecord /\ p.outcome = e /\ p.log = e /\ p.kind = "native" /\ p.pc = "streaming"
    BY <1>0, <1>a, <2>1, <2>2, ReportedIs
  <2> HIDE DEF p
  <2>4. n \in TurnRecord /\ n.outcome = e /\ n.log = e /\ n.kind = "native" /\ n.pc = "streaming"
    BY <2>2, <2>3, QueuedIs
  <2> HIDE DEF n
  <2>5. RecordOK(settled(n))
    BY <1>b, <2>2, <2>4, Statuses
  <2> QED BY <2>1, <2>5, TurnStays
<1>2. CASE NativeEnds(t)
  <2> DEFINE r == [q EXCEPT !.upstream = "ended"]
             b == [q EXCEPT !.upstream = "broken", !.queue = <<>>]
  <2>1. turn' = [turn EXCEPT ![t] = r] \/ turn' = [turn EXCEPT ![t] = b]
    BY <1>2 DEF NativeEnds
  <2> HIDE DEF q
  <2>2. r \in TurnRecord /\ b \in TurnRecord
    <3>1. <<>> \in Seq(Terminals)
      OBVIOUS
    <3> QED BY <1>0, <3>1 DEF TurnRecord
  <2>3. /\ r.kind = q.kind /\ r.pc = q.pc /\ r.outcome = q.outcome /\ r.log = q.log
        /\ r.reading = q.reading
        /\ b.kind = q.kind /\ b.pc = q.pc /\ b.outcome = q.outcome /\ b.log = q.log
        /\ b.reading = q.reading
    BY <1>0 DEF TurnRecord
  <2> HIDE DEF r, b
  <2>4. RecordOK(r) /\ RecordOK(b)
    BY <1>0, <1>a, <1>b, <2>2, <2>3
  <2> QED BY <2>1, <2>4, TurnStays
<1>3. CASE InspectionEnds(t)
  <2> DEFINE p == reported(q, "incomplete")
             n == [p EXCEPT !.reading = FALSE]
  <2>1. turn' = [turn EXCEPT ![t] = settled(n)]
    BY <1>3 DEF InspectionEnds, becomes
  <2> HIDE DEF q
  <2>2. p \in TurnRecord /\ p.outcome # None /\ p.log = p.outcome /\ p.kind = "native"
        /\ p.pc = "streaming"
    BY <1>0, <1>a, ReportedIs, Statuses
  <2> HIDE DEF p
  <2>3. n \in TurnRecord /\ n.outcome # None /\ n.log = n.outcome /\ n.kind = "native"
        /\ n.pc = "streaming"
    BY <2>2, ReadIs
  <2> HIDE DEF n
  <2>4. RecordOK(settled(n))
    BY <1>b, <2>3
  <2> QED BY <2>1, <2>4, TurnStays
<1>4. CASE NativeRelayEnds(t)
  <2> DEFINE r == [q EXCEPT !.closed = TRUE]
             b == [q EXCEPT !.closed = TRUE, !.seen = Append(q.seen, "failed")]
  <2>1. turn' = [turn EXCEPT ![t] = settled(r)] \/ turn' = [turn EXCEPT ![t] = settled(b)]
    BY <1>4 DEF NativeRelayEnds, becomes
  <2> HIDE DEF q
  <2>2. r \in TurnRecord /\ b \in TurnRecord
    <3>1. Append(q.seen, "failed") \in Seq(Terminals)
      BY <1>0, Statuses DEF TurnRecord
    <3> QED BY <1>0, <3>1 DEF TurnRecord
  <2>3. /\ r.kind = q.kind /\ r.pc = q.pc /\ r.outcome = q.outcome /\ r.log = q.log
        /\ r.reading = q.reading
        /\ b.kind = q.kind /\ b.pc = q.pc /\ b.outcome = q.outcome /\ b.log = q.log
        /\ b.reading = q.reading
    BY <1>0 DEF TurnRecord
  <2> HIDE DEF r, b
  <2>4. RecordOK(settled(r)) /\ RecordOK(settled(b))
    BY <1>0, <1>a, <1>b, <2>2, <2>3
  <2> QED BY <2>1, <2>4, TurnStays
<1>5. CASE NativeClientLeaves(t)
  <2> DEFINE l == aborted(q)
             r == [l EXCEPT !.closed = TRUE, !.queue = <<>>]
  <2>1. turn' = [turn EXCEPT ![t] = settled(r)]
    BY <1>5 DEF NativeClientLeaves, becomes
  <2> HIDE DEF q
  <2>2. /\ l \in TurnRecord /\ l.kind = q.kind /\ l.pc = q.pc /\ l.outcome = q.outcome
        /\ l.log = q.log /\ l.reading = q.reading
    BY <1>0, AbortedIs
  <2> HIDE DEF l
  <2>3. /\ r \in TurnRecord /\ r.kind = q.kind /\ r.pc = q.pc /\ r.outcome = q.outcome
        /\ r.log = q.log /\ r.reading = q.reading
    BY <2>2, ClosedIs
  <2> HIDE DEF r
  <2>4. RecordOK(settled(r))
    BY <1>0, <1>a, <1>b, <2>3
  <2> QED BY <2>1, <2>4, TurnStays
<1>6. CASE Relay(t)
  <2> DEFINE e == Head(q.queue)
             r == [q EXCEPT !.queue = Tail(q.queue), !.seen = Append(q.seen, e)]
  <2>1. turn' = [turn EXCEPT ![t] = r] /\ q.queue # <<>>
    BY <1>6 DEF Relay
  <2> HIDE DEF q
  <2>2. r \in TurnRecord
    <3>1. q.queue \in Seq(Terminals) /\ q.seen \in Seq(Terminals)
      BY <1>0 DEF TurnRecord
    <3>2. e \in Terminals /\ Tail(q.queue) \in Seq(Terminals)
      BY <2>1, <3>1, HeadTailProperties
    <3>3. Append(q.seen, e) \in Seq(Terminals)
      BY <3>1, <3>2
    <3> QED BY <1>0, <3>2, <3>3 DEF TurnRecord
  <2>3. /\ r.kind = q.kind /\ r.pc = q.pc /\ r.outcome = q.outcome /\ r.log = q.log
        /\ r.reading = q.reading
    BY <1>0 DEF TurnRecord
  <2> HIDE DEF r
  <2>4. RecordOK(r)
    BY <1>0, <1>a, <1>b, <2>2, <2>3
  <2> QED BY <2>1, <2>4, TurnStays
<1> QED BY <1>1, <1>2, <1>3, <1>4, <1>5, <1>6

LEMMA BridgedStepsOK ==
  ASSUME TypeOK, TurnsOK, NEW t \in Turns, isStreaming(t), ~isNative(t),
         \/ \E e \in Answers : BridgeEnds(t, e)
         \/ BridgeStalls(t) \/ BridgeRelayEnds(t) \/ BridgeClientLeaves(t) \/ Relay(t)
  PROVE  TurnsOK'
<1> DEFINE q == turn[t]
<1>0. q \in TurnRecord /\ q.kind = "bridged" /\ q.pc = "streaming" /\ BridgedOK(q)
      /\ q.queue \in Seq(Terminals) /\ q.seen \in Seq(Terminals)
  BY DEF TypeOK, TurnsOK, isNative, isStreaming, RecordOK, TurnRecord
\* A bridged turn that streams is in order when this is.
<1>a. ASSUME NEW r \in TurnRecord, r.kind = "bridged", r.pc = "streaming", BridgedOK(r)
      PROVE  RecordOK(r) /\ RecordOK(settled(r))
  <2>1. RecordOK(r)
    BY <1>a DEF RecordOK, BridgedOK
  <2> QED BY <1>a, <2>1, SettledOK DEF BridgedOK
\* An event is queued where none was.
<1>b. ASSUME NEW e \in Terminals, q.reading, q.upstream = "open"
      PROVE  LET n == queued(q, e) IN
             /\ n \in TurnRecord /\ n.kind = "bridged" /\ n.pc = "streaming" /\ n.seen = <<>>
             /\ n.outcome = None /\ n.log = q.log /\ n.closed = q.closed
             /\ n.reading = q.reading /\ n.upstream = q.upstream /\ Len(n.queue) <= 1
  <2>1. q.queue = <<>> /\ q.seen = <<>> /\ q.outcome = None
    BY <1>0, <1>b DEF BridgedOK
  <2>2. Len(Append(<<>>, e)) = 1 /\ Len(<<>>) = 0
    OBVIOUS
  <2> DEFINE n == queued(q, e)
  <2> HIDE DEF q
  <2>3. /\ n \in TurnRecord /\ n.queue = IF q.closed THEN q.queue ELSE Append(q.queue, e)
        /\ n.kind = q.kind /\ n.pc = q.pc /\ n.seen = q.seen
        /\ n.outcome = q.outcome /\ n.log = q.log /\ n.closed = q.closed
        /\ n.reading = q.reading /\ n.upstream = q.upstream
    BY <1>0, QueuedIs
  <2> HIDE DEF n
  <2>4. Len(n.queue) <= 1
    BY <2>1, <2>2, <2>3
  <2> QED BY <1>0, <2>1, <2>3, <2>4 DEF n
<1>1. ASSUME NEW e \in Answers, BridgeEnds(t, e) PROVE TurnsOK'
  <2> DEFINE l == emitted(q, e)
             n == [l EXCEPT !.reading = FALSE]
  <2>1. turn' = [turn EXCEPT ![t] = settled(n)] /\ q.reading
    BY <1>1 DEF BridgeEnds, becomes
  <2> HIDE DEF q
  <2>2. e \in Terminals
    BY DEF Answers, Terminals
  <2>3. CASE q.upstream = "open"
    <3>1. l = queued(q, e)
      BY <2>3 DEF emitted
    <3>2. /\ l \in TurnRecord /\ l.kind = "bridged" /\ l.pc = "streaming" /\ l.seen = <<>>
          /\ l.outcome = None /\ l.log = q.log /\ l.closed = q.closed /\ Len(l.queue) <= 1
      BY <1>b, <2>1, <2>2, <2>3, <3>1
    <3> HIDE DEF l
    <3>3. /\ n \in TurnRecord /\ n.kind = "bridged" /\ n.pc = "streaming" /\ n.seen = <<>>
          /\ n.outcome = None /\ n.log = q.log /\ n.closed = q.closed /\ Len(n.queue) <= 1
          /\ ~n.reading
      BY <3>2, ReadIs
    <3> HIDE DEF n
    <3>4. BridgedOK(n)
      BY <1>0, <2>1, <2>3, <3>3 DEF BridgedOK
    <3> QED BY <1>a, <2>1, <3>3, <3>4, TurnStays
  <2>4. CASE q.upstream # "open"
    <3>1. l = q
      BY <2>4 DEF emitted
    <3>2. /\ n \in TurnRecord /\ n.kind = "bridged" /\ n.pc = "streaming" /\ n.seen = q.seen
          /\ n.outcome = q.outcome /\ n.log = q.log /\ n.closed = q.closed
          /\ n.queue = q.queue /\ ~n.reading
      BY <1>0, <3>1, ReadIs
    <3> HIDE DEF n
    <3>3. BridgedOK(n)
      BY <1>0, <3>2 DEF BridgedOK
    <3> QED BY <1>a, <2>1, <3>2, <3>3, TurnStays
  <2> QED BY <2>3, <2>4
<1>2. CASE BridgeStalls(t)
  <2> DEFINE l == queued(q, "incomplete")
             n == aborted(l)
  <2>1. turn' = [turn EXCEPT ![t] = n] /\ q.reading /\ q.upstream = "open"
    BY <1>2 DEF BridgeStalls
  <2> HIDE DEF q
  <2>2. /\ l \in TurnRecord /\ l.kind = "bridged" /\ l.pc = "streaming" /\ l.seen = <<>>
        /\ l.outcome = None /\ l.log = q.log /\ l.closed = q.closed /\ Len(l.queue) <= 1
        /\ l.upstream = "open"
    BY <1>b, <2>1, Statuses
  <2> HIDE DEF l
  <2>3. /\ n \in TurnRecord /\ n.kind = "bridged" /\ n.pc = "streaming" /\ n.seen = <<>>
        /\ n.outcome = None /\ n.log = q.log /\ n.closed = q.closed /\ Len(n.queue) <= 1
        /\ n.upstream = "aborted"
    BY <2>2, AbortedIs
  <2> HIDE DEF n
  <2>4. BridgedOK(n)
    BY <1>0, <2>1, <2>3 DEF BridgedOK
  <2> QED BY <1>a, <2>1, <2>3, <2>4, TurnStays
<1>3. CASE BridgeRelayEnds(t)
  <2> DEFINE l == logged(q, "incomplete")
             n == [l EXCEPT !.closed = TRUE]
  <2>1. turn' = [turn EXCEPT ![t] = settled(n)]
    BY <1>3 DEF BridgeRelayEnds, becomes
  <2>c. ~q.closed /\ ~q.reading /\ q.queue = <<>>
    BY <1>3 DEF BridgeRelayEnds
  <2> HIDE DEF q
  <2>2. /\ l \in TurnRecord /\ l.log = (IF q.log = None THEN "incomplete" ELSE q.log)
        /\ l.kind = "bridged" /\ l.pc = "streaming" /\ l.seen = q.seen /\ l.outcome = q.outcome
        /\ l.reading = q.reading /\ l.queue = q.queue
    BY <1>0, LoggedIs, Statuses
  <2> HIDE DEF l
  <2>3. /\ n \in TurnRecord /\ n.log = l.log /\ n.closed
        /\ n.kind = "bridged" /\ n.pc = "streaming" /\ n.seen = q.seen /\ n.outcome = q.outcome
        /\ n.reading = q.reading /\ n.queue = q.queue
    BY <2>2, ClosedIs
  <2> HIDE DEF n
  <2>4. BridgedOK(n)
    BY <1>0, <2>2, <2>3, <2>c, Statuses DEF BridgedOK
  <2> QED BY <1>a, <2>1, <2>3, <2>4, TurnStays
<1>4. CASE BridgeClientLeaves(t)
  <2> DEFINE b == aborted(q)
             l == logged(b, "cancelled")
             n == [l EXCEPT !.closed = TRUE, !.queue = <<>>]
  <2>1. turn' = [turn EXCEPT ![t] = settled(n)] /\ ~q.closed
    BY <1>4 DEF BridgeClientLeaves, becomes
  <2> HIDE DEF q
  <2>2. /\ b \in TurnRecord /\ b.log = q.log /\ b.upstream # "open"
        /\ b.kind = "bridged" /\ b.pc = "streaming" /\ b.seen = q.seen /\ b.outcome = q.outcome
    BY <1>0, AbortedIs
  <2> HIDE DEF b
  <2>3. /\ l \in TurnRecord /\ l.log = (IF q.log = None THEN "cancelled" ELSE q.log)
        /\ l.upstream # "open"
        /\ l.kind = "bridged" /\ l.pc = "streaming" /\ l.seen = q.seen /\ l.outcome = q.outcome
    BY <2>2, LoggedIs
  <2> HIDE DEF l
  <2>4. /\ n \in TurnRecord /\ n.log = l.log /\ n.upstream # "open" /\ n.closed /\ n.queue = <<>>
        /\ n.kind = "bridged" /\ n.pc = "streaming" /\ n.seen = q.seen /\ n.outcome = q.outcome
    BY <2>3, ClosedIs
  <2> HIDE DEF n
  <2>5. Len(<<>>) = 0
    OBVIOUS
  <2>6. BridgedOK(n)
    BY <1>0, <2>1, <2>3, <2>4, <2>5, Statuses DEF BridgedOK
  <2> QED BY <1>a, <2>1, <2>4, <2>6, TurnStays
<1>5. CASE Relay(t)
  <2> DEFINE e == Head(q.queue)
             r == [q EXCEPT !.queue = Tail(q.queue), !.seen = Append(q.seen, e)]
             n == logged(r, e)
  <2>1. turn' = [turn EXCEPT ![t] = n] /\ q.queue # <<>> /\ ~q.closed
    BY <1>5 DEF Relay
  <2> HIDE DEF q
  <2>2. q.seen = <<>> /\ q.log = None /\ q.outcome = None /\ Len(q.queue) = 1
    <3>1. Len(q.queue) \in Nat \ {0}
      BY <1>0, <2>1, EmptySeq
    <3>2. q.seen = <<>> /\ Len(q.queue) <= 1
      BY <1>0, <2>1 DEF BridgedOK
    <3>3. q.log = None /\ q.outcome = None
      BY <1>0, <2>1, <3>2 DEF BridgedOK
    <3> DEFINE k == Len(q.queue)
    <3>4. k \in Nat \ {0} /\ k <= 1
      BY <3>1, <3>2
    <3> HIDE DEF k
    <3>5. k = 1
      BY <3>4
    <3> QED BY <3>2, <3>3, <3>5 DEF k
  <2>3. e \in Terminals /\ Tail(q.queue) = <<>>
    <3>1. e \in Terminals /\ Tail(q.queue) \in Seq(Terminals) /\ Len(Tail(q.queue)) = 0
      BY <1>0, <2>1, <2>2, HeadTailProperties
    <3> QED BY <3>1, EmptySeq
  <2>4. Append(q.seen, e) = <<e>> /\ <<e>> \in Seq(Terminals) /\ <<>> \in Seq(Terminals)
    BY <2>2, <2>3
  <2> HIDE DEF e
  <2>5. r \in TurnRecord
    BY <1>0, <2>3, <2>4 DEF TurnRecord
  <2>6. /\ r.queue = <<>> /\ r.seen = <<e>> /\ r.kind = q.kind /\ r.pc = q.pc
        /\ r.reading = q.reading /\ r.upstream = q.upstream /\ r.log = q.log
        /\ r.outcome = q.outcome /\ r.closed = q.closed
    BY <1>0, <2>3, <2>4 DEF TurnRecord
  <2> HIDE DEF r
  <2>7. /\ n \in TurnRecord /\ n.log = e
        /\ n.queue = <<>> /\ n.seen = <<e>> /\ n.kind = q.kind /\ n.pc = q.pc
        /\ n.reading = q.reading /\ n.upstream = q.upstream
        /\ n.outcome = q.outcome /\ n.closed = q.closed
    BY <2>2, <2>3, <2>5, <2>6, LoggedIs
  <2> HIDE DEF n
  <2>8. BridgedOK(n)
    <3>1. ~(q.reading /\ q.upstream = "open")
      BY <1>0, <2>1 DEF BridgedOK
    <3>2. Len(<<>>) = 0 /\ <<e>> # <<>> /\ e # None
      BY <2>3, Statuses
    <3>3. n.seen = <<n.log>> /\ n.queue = <<>> /\ n.log \in Terminals /\ n.outcome = None
      BY <2>2, <2>3, <2>7
    <3>4. Len(n.queue) <= 1
      BY <2>7, <3>2
    <3>5. ~(n.reading /\ n.upstream = "open") /\ n.log # None /\ n.seen # <<>>
      BY <2>7, <3>1, <3>2
    <3> QED BY <3>3, <3>4, <3>5 DEF BridgedOK
  <2> QED BY <1>0, <1>a, <2>1, <2>7, <2>8, TurnStays
<1> QED BY <1>1, <1>2, <1>3, <1>4, <1>5

\* The server goes down: what streams is cut, after the drain with a log.
LEMMA CutOK ==
  ASSUME NEW r \in TurnRecord, RecordOK(r)
  PROVE  /\ RecordOK(cut(r))
         /\ r.kind = "native" /\ r.pc # "idle" => RecordOK(cut(logged(r, "cancelled")))
<1> DEFINE c(x) == [x EXCEPT !.pc = "cut", !.queue = <<>>, !.reading = FALSE,
                             !.upstream = "ended", !.closed = TRUE]
<1>1. ASSUME NEW x \in TurnRecord
      PROVE  /\ cut(x) = IF x.pc \in Under THEN c(x) ELSE x
             /\ c(x).pc = "cut" /\ c(x).queue = <<>> /\ ~c(x).reading /\ c(x).closed
             /\ c(x).kind = x.kind /\ c(x).log = x.log /\ c(x).outcome = x.outcome
             /\ c(x).seen = x.seen
  BY DEF cut, TurnRecord
<1> HIDE DEF c
<1>2. Len(<<>>) = 0
  OBVIOUS
<1>3. RecordOK(cut(r))
  <2>1. CASE r.pc \in Under
    BY <1>1, <1>2, <2>1 DEF RecordOK, NativeOK, BridgedOK, NotYet, Under
  <2>2. CASE r.pc \notin Under
    BY <1>1, <2>2
  <2> QED BY <2>1, <2>2
<1>4. ASSUME r.kind = "native", r.pc # "idle" PROVE RecordOK(cut(logged(r, "cancelled")))
  <2> DEFINE l == logged(r, "cancelled")
  <2>1. /\ l \in TurnRecord /\ l.log = (IF r.log = None THEN "cancelled" ELSE r.log)
        /\ l.pc = r.pc /\ l.kind = r.kind /\ l.outcome = r.outcome
    BY LoggedIs
  <2>2. r.log # None => l = r
    BY DEF logged
  <2> HIDE DEF l
  <2>3. CASE r.pc \in Under
    <3> DEFINE k == cut(l)
    <3>1. /\ k.pc = "cut" /\ k.kind = "native" /\ k.outcome = r.outcome
          /\ k.log = (IF r.log = None THEN "cancelled" ELSE r.log)
      BY <1>1, <1>4, <2>1, <2>3
    <3>2. r.outcome # None => k.log = r.outcome
      BY <3>1 DEF RecordOK
    <3> HIDE DEF k
    <3>3. RecordOK(k)
      BY <3>1, <3>2 DEF RecordOK, NativeOK
    <3> QED BY <3>3 DEF k, l
  <2>4. CASE r.pc \notin Under
    <3>1. cut(l) = l
      BY <1>1, <2>1, <2>4
    <3>2. r.pc = "over" => RecordOK(l)
      BY <2>2 DEF RecordOK
    <3>3. r.pc # "over" => RecordOK(l)
      <4>1. r.outcome # None => r.log = r.outcome
        BY DEF RecordOK
      <4> QED BY <1>4, <2>1, <2>4, <4>1 DEF RecordOK, NativeOK, Under
    <3> QED BY <3>1, <3>2, <3>3 DEF l
  <2> QED BY <2>3, <2>4 DEF l
<1> QED BY <1>3, <1>4

LEMMA TurnsStayOK ==
  ASSUME Inv, TurnsOK, [Next]_vars
  PROVE  TurnsOK'
<1>1. ASSUME NEW t \in Turns, TurnStep(t) PROVE TurnsOK'
  BY <1>1, StartsOK, NativeStepsOK, BridgedStepsOK
  DEF Inv, TurnStep, NativeTerminal, NativeEnds, InspectionEnds, NativeRelayEnds, NativeClientLeaves,
      BridgeEnds, BridgeStalls, BridgeRelayEnds, BridgeClientLeaves, Relay
<1>2. CASE Persist \/ Pass \/ Drain \/ Restart \/ UNCHANGED vars
  <2>1. turn' = turn
    BY <1>2 DEF Persist, Pass, Drain, Restart, vars
  <2> QED BY <2>1 DEF TurnsOK
<1>3. CASE Stop
  BY <1>3, CutOK DEF Inv, ActiveIsStarted, Stop, drained, TurnsOK, TypeOK, isNative
<1>4. CASE Crash
  BY <1>4, CutOK DEF Inv, Crash, TurnsOK, TypeOK
<1> QED BY <1>1, <1>2, <1>3, <1>4 DEF Next

-----------------------------------------------------------------------------
(* The order of the store *)

known == {t \in Turns : recorded[t] # None}

\* The entries are finitely many, older ones first, and older than the next.
IsOrdered(E) ==
  /\ IsFiniteSet(E)
  /\ \A e \in E : e.createdAt <= now /\ e.order < Cardinality(known)
  /\ \A e, f \in E : e.order <= f.order => e.createdAt <= f.createdAt

StoreInv ==
  /\ IsOrdered(states) /\ IsOrdered(snapshot)
  /\ SnapshotIsCurrent

\* What is pruned is the oldest of what there was.
IsTail(T, E) == T \subseteq E /\ \A e \in T, g \in E : e.order <= g.order => g \in T

LEMMA PartIsOrdered ==
  ASSUME NEW E, IsOrdered(E), NEW T \in SUBSET E
  PROVE  IsOrdered(T)
BY FS_Subset DEF IsOrdered

LEMMA NewestIsTail ==
  ASSUME NEW E \in SUBSET Entry, IsFiniteSet(E)
  PROVE  IsTail(newest(E), E)
<1> SUFFICES ASSUME NEW e \in newest(E), NEW g \in E, e.order <= g.order
             PROVE  g \in newest(E)
  BY NewestIsPart DEF IsTail
<1> DEFINE after(x) == {f \in E : f.order > x.order}
<1>1. e \in E /\ Cardinality(after(e)) < MaxStored
  BY DEF newest
<1>2. after(g) \subseteq after(e)
  BY <1>1 DEF Entry
<1>3. IsFiniteSet(after(e))
  BY FS_Subset
<1>4. Cardinality(after(g)) <= Cardinality(after(e)) /\ IsFiniteSet(after(g))
  BY <1>2, <1>3, FS_Subset
<1>5. Cardinality(after(g)) \in Nat /\ Cardinality(after(e)) \in Nat
  BY <1>3, <1>4, FS_CardinalityType
<1>6. Cardinality(after(g)) < MaxStored
  <2> HIDE DEF after
  <2> QED BY <1>1, <1>4, <1>5, StoreAssumption
<1> QED BY <1>6 DEF newest

LEMMA PrunedIsTail ==
  ASSUME NEW E \in SUBSET Entry, IsOrdered(E), now \in Nat
  PROVE  IsTail(pruned(E), E)
<1> DEFINE F == {e \in E : now - e.createdAt <= TTL}
<1>1. IsTail(F, E)
  <2> SUFFICES ASSUME NEW e \in F, NEW g \in E, e.order <= g.order PROVE g \in F
    BY DEF IsTail
  <2>1. e.createdAt <= g.createdAt /\ e.createdAt \in Nat /\ g.createdAt \in Nat
    BY DEF IsOrdered, Entry
  <2> QED BY <2>1, StoreAssumption
<1>2. F \in SUBSET Entry /\ IsFiniteSet(F)
  BY FS_Subset DEF IsOrdered
<1>3. IsTail(newest(F), F)
  BY <1>2, NewestIsTail
<1>4. pruned(E) = newest(F)
  BY DEF pruned
<1> HIDE DEF F
<1> QED BY <1>1, <1>3, <1>4 DEF IsTail

\* Of a tail no more is saved than of the whole: what comes after an entry,
\* and takes its place in the snapshot, is the same.
LEMMA TailIsSaved ==
  ASSUME NEW E \in SUBSET Entry, NEW T \in SUBSET E, IsTail(T, E)
  PROVE  saved(T) \subseteq saved(E)
<1> DEFINE small(X) == {e \in X : Len(e.items) <= EntryMax}
           from(X, e) == {f \in small(X) : f.order >= e.order}
<1>1. ASSUME NEW X PROVE saved(X) = {e \in small(X) : size(from(X, e)) <= TotalMax}
  BY DEF saved
<1>2. ASSUME NEW e \in small(T) PROVE e \in small(E) /\ from(T, e) = from(E, e)
  <2>1. e \in T /\ e \in E
    OBVIOUS
  <2>2. \A f \in E : f.order >= e.order => f \in T
    BY <2>1 DEF IsTail, Entry
  <2> QED BY <2>1, <2>2
<1>3. ASSUME NEW e \in saved(T) PROVE e \in saved(E)
  <2>1. e \in small(T) /\ size(from(T, e)) <= TotalMax
    BY <1>1
  <2>2. e \in small(E) /\ from(T, e) = from(E, e)
    BY <1>2, <2>1
  <2>3. size(from(E, e)) <= TotalMax
    BY <2>1, <2>2
  <2> HIDE DEF small, from
  <2> QED BY <1>1, <2>2, <2>3
<1> QED BY <1>3

\* Nothing of the store changes but what is in memory, and that to what a use
\* of it leaves.
LEMMA UsedStore ==
  ASSUME Inv, StoreInv, states' = current, loaded' = TRUE,
         UNCHANGED <<timer, failed, snapshot, recorded, now>>
  PROVE  StoreInv'
<1>0. states \in SUBSET Entry /\ snapshot \in SUBSET Entry /\ now \in Nat
  BY DEF Inv, TypeOK, StoreTypeOK
<1>1. IsOrdered(states') /\ IsOrdered(snapshot)
  <2>1. states' \in SUBSET states \/ states' \in SUBSET snapshot
    BY PrunedIsPart DEF current
  <2> QED BY <2>1, PartIsOrdered DEF StoreInv
<1>2. IsOrdered(states)' /\ IsOrdered(snapshot)'
  BY <1>1 DEF IsOrdered, known
<1>3. ASSUME ~timer, ~failed PROVE saved(states') \subseteq snapshot
  <2>1. CASE loaded
    <3>1. states' = pruned(states)
      BY <2>1 DEF current
    <3>2. IsTail(states', states)
      BY <1>0, <3>1, PrunedIsTail DEF StoreInv
    <3>3. saved(states') \subseteq saved(states)
      BY <1>0, <3>2, TailIsSaved DEF IsTail
    <3> QED BY <1>3, <2>1, <3>3 DEF StoreInv, SnapshotIsCurrent
  <2>2. CASE ~loaded
    <3>1. states' \subseteq snapshot
      BY <2>2, PrunedIsPart DEF current
    <3> QED BY <3>1, SavedIsPart
  <2> QED BY <2>1, <2>2
<1>4. saved(states)' = saved(states')
  BY DEF saved
<1> QED BY <1>2, <1>3, <1>4 DEF StoreInv, SnapshotIsCurrent

\* A turn is recorded last: the entry comes after all others, and a save is due.
LEMMA RememberedStore ==
  ASSUME Inv, StoreInv, NEW t \in Turns, recorded[t] = None,
         NEW items \in Seq(Turns), rememberResponseState(t, items)
  PROVE  StoreInv'
<1> DEFINE n == Cardinality(known)
           entry == [id |-> t, items |-> items, createdAt |-> now, order |-> n]
           rec == [items |-> items, createdAt |-> now]
<1>0. /\ states \in SUBSET Entry /\ snapshot \in SUBSET Entry /\ now \in Nat
      /\ recorded \in [Turns -> [items : Seq(Turns), createdAt : Nat] \union {None}]
      /\ IsFiniteSet(known) /\ n \in Nat
  BY FS_CardinalityType DEF Inv, TypeOK, StoreTypeOK, FewAreRecorded, known
<1>1. /\ states' = pruned(current \union {entry}) /\ timer' = TRUE
      /\ recorded' = [recorded EXCEPT ![t] = rec]
      /\ snapshot' = snapshot /\ now' = now
  BY DEF rememberResponseState, known
<1>2. Cardinality(known)' = n + 1
  <2>1. rec # None
    BY <1>0, StoreAssumption
  <2>2. known' = known \union {t} /\ t \notin known
    BY <1>0, <1>1, <2>1 DEF known
  <2> QED BY <1>0, <2>2, FS_AddElement
<1>3. entry.createdAt = now /\ entry.order = n
  OBVIOUS
<1> HIDE DEF entry, n
<1>4. IsOrdered(current)
  <2>1. current \in SUBSET states \/ current \in SUBSET snapshot
    BY PrunedIsPart DEF current
  <2> QED BY <2>1, PartIsOrdered DEF StoreInv
<1>5. current \subseteq Entry
  BY CurrentTyped
<1>6. IsFiniteSet(states')
  <2>1. IsFiniteSet(current \union {entry})
    BY <1>4, FS_AddElement DEF IsOrdered
  <2> QED BY <1>1, <2>1, PrunedIsPart, FS_Subset
<1>7. states' \subseteq current \union {entry}
  BY <1>1, PrunedIsPart
<1>8. \A e \in current : e.createdAt <= now /\ e.order < n /\ e.order \in Nat
  BY <1>4, <1>5 DEF IsOrdered, Entry, n
<1>9. IsOrdered(states)'
  <2>1. \A e \in states' : e.createdAt <= now /\ e.order < n + 1
    BY <1>0, <1>3, <1>7, <1>8
  <2>2. \A e, f \in states' : e.order <= f.order => e.createdAt <= f.createdAt
    BY <1>0, <1>3, <1>4, <1>7, <1>8 DEF IsOrdered
  <2> QED BY <1>1, <1>2, <1>6, <2>1, <2>2 DEF IsOrdered
<1>10. IsOrdered(snapshot)'
  <2>1. \A e \in snapshot : e.order \in Nat /\ e.order < n
    BY <1>0 DEF StoreInv, IsOrdered, Entry, n
  <2>2. \A e \in snapshot : e.order < n + 1
    BY <1>0, <2>1
  <2> QED BY <1>1, <1>2, <2>2 DEF StoreInv, IsOrdered
<1> QED BY <1>1, <1>9, <1>10 DEF StoreInv, SnapshotIsCurrent

LEMMA SameStore ==
  ASSUME StoreInv, UNCHANGED storeVars
  PROVE  StoreInv'
<1>1. saved(states)' = saved(states)
  BY DEF saved, storeVars
<1> QED BY <1>1 DEF StoreInv, IsOrdered, known, SnapshotIsCurrent, storeVars

LEMMA PersistedStore ==
  ASSUME StoreInv, persistNow
  PROVE  StoreInv'
<1>1. saved(states)' = saved(states)
  BY DEF saved, persistNow
<1>2. CASE snapshot' = saved(states)
  <2>1. IsOrdered(snapshot')
    BY <1>2, SavedIsPart, PartIsOrdered DEF StoreInv
  <2> QED BY <1>1, <1>2, <2>1 DEF persistNow, StoreInv, IsOrdered, known, SnapshotIsCurrent
<1>3. CASE snapshot' = snapshot /\ failed' = TRUE
  BY <1>3 DEF persistNow, StoreInv, IsOrdered, known, SnapshotIsCurrent
<1> QED BY <1>2, <1>3 DEF persistNow

LEMMA StoreStays ==
  ASSUME Inv, StoreInv, [Next]_vars
  PROVE  StoreInv'
<1>1. ASSUME NEW t \in Turns, TurnStep(t) PROVE StoreInv'
  <2>0. turn[t].body \in Seq(Turns) /\ Append(turn[t].body, t) \in Seq(Turns)
    <3>1. turn[t].body \in Seq(Turns)
      BY DEF Inv, TypeOK, TurnRecord
    <3> QED BY <3>1
  <2>1. ASSUME NEW kind \in Kinds, NEW p \in Turns \union {0}, Begin(t, kind, p) PROVE StoreInv'
    <3>1. UNCHANGED storeVars \/ expand
      BY <2>1 DEF Begin
    <3> QED BY <3>1, SameStore, UsedStore DEF expand
  <2>2. ASSUME NEW e \in Answers, NativeTerminal(t, e) PROVE StoreInv'
    <3>1. recorded[t] = None
      BY <2>2 DEF NativeTerminal, Inv, IsRecordedOnce
    <3> QED BY <2>0, <2>2, <3>1, SameStore, RememberedStore DEF NativeTerminal
  <2>3. ASSUME NEW e \in Answers, BridgeEnds(t, e) PROVE StoreInv'
    <3>1. recorded[t] = None
      BY <2>3 DEF BridgeEnds, Inv, IsRecordedOnce
    <3> QED BY <2>0, <2>3, <3>1, SameStore, RememberedStore DEF BridgeEnds
  <2>4. CASE UNCHANGED storeVars
    BY <2>4, SameStore
  <2> QED BY <1>1, <2>1, <2>2, <2>3, <2>4
      DEF TurnStep, Connect, ConnectFails, LeavesEarly, NativeEnds, InspectionEnds,
          NativeRelayEnds, NativeClientLeaves, BridgeStalls, BridgeRelayEnds,
          BridgeClientLeaves, Relay
<1>2. CASE Persist \/ Stop
  BY <1>2, PersistedStore, SameStore DEF Persist, Stop, flushResponseState
<1>3. CASE Pass
  <2>1. now' = now + 1 /\ UNCHANGED <<states, loaded, timer, failed, snapshot, recorded>>
    BY <1>3 DEF Pass, pass
  <2>2. saved(states)' = saved(states)
    BY <2>1 DEF saved
  <2>3. \A e \in states \union snapshot : e.createdAt <= now => e.createdAt <= now + 1
    BY DEF Inv, TypeOK, StoreTypeOK, Entry
  <2> QED BY <2>1, <2>2, <2>3 DEF StoreInv, IsOrdered, known, SnapshotIsCurrent
<1>4. CASE Drain \/ Crash \/ UNCHANGED vars
  <2>1. UNCHANGED storeVars
    BY <1>4 DEF Drain, Crash, vars
  <2> QED BY <2>1, SameStore
<1>5. CASE Restart
  <2>1. IsOrdered({})' 
    BY FS_EmptySet DEF IsOrdered
  <2> QED BY <1>5, <2>1 DEF Restart, restart, StoreInv, IsOrdered, known, SnapshotIsCurrent
<1> QED BY <1>1, <1>2, <1>3, <1>4, <1>5 DEF Next

-----------------------------------------------------------------------------
(* Theorems *)

LEMMA Initially == Init => Inv /\ Cache!Init
<1> SUFFICES ASSUME Init PROVE Inv /\ Cache!Init
  OBVIOUS
<1>1. \A t \in Turns : turn[t] = Unstarted /\ recorded[t] = None
  BY DEF Init, StoreInit
<1>2. TypeOK
  BY UnstartedTyped DEF Init, StoreInit, TypeOK, StoreTypeOK
<1>3. StoreIsHonest /\ IdleIsUnstarted /\ ActiveIsStarted
  BY <1>1 DEF Init, StoreInit, StoreIsHonest, IdleIsUnstarted, ActiveIsStarted
<1>4. FewAreRecorded
  <2>1. {t \in Turns : recorded[t] # None} = {}
    BY <1>1
  <2> QED BY <2>1, FS_EmptySet DEF FewAreRecorded
<1>5. \A t \in Turns : IsRecordedOnce(t) /\ HasItsBody(t)
  BY <1>1 DEF IsRecordedOnce, HasItsBody, Unstarted
<1>6. Cache!Init
  BY <1>1 DEF Init, StoreInit, Cache!Init, Unstarted
<1> QED BY <1>2, <1>3, <1>4, <1>5, <1>6 DEF Inv

LEMMA Step == Inv /\ [Next]_vars => Inv' /\ [Cache!Next]_cacheVars
<1> SUFFICES ASSUME Inv, [Next]_vars PROVE Inv' /\ [Cache!Next]_cacheVars
  OBVIOUS
<1>1. CASE \E t \in Turns : TurnStep(t)
  <2>1. PICK t \in Turns : TurnStep(t)
    BY <1>1
  <2>2. CASE \E kind \in Kinds, p \in Turns \union {0} : Begin(t, kind, p)
    BY <2>2, BeginStep
  <2>3. CASE \E e \in Answers : NativeTerminal(t, e)
    BY <2>3, NativeTerminalStep
  <2>4. CASE \E e \in Answers : BridgeEnds(t, e)
    BY <2>4, BridgeEndsStep
  <2> QED BY <2>1, <2>2, <2>3, <2>4, QuietSteps DEF TurnStep
<1>2. CASE Persist \/ Drain \/ Stop \/ Crash \/ Restart
  BY <1>2, QuietServer
<1>3. CASE Pass
  BY <1>3, PassStep
<1>4. CASE UNCHANGED vars
  <2>1. UNCHANGED <<turn, active, server>> /\ UNCHANGED storeVars
    BY <1>4 DEF vars
  <2>2. turn' \in [Turns -> TurnRecord] /\ active' \subseteq Turns
        /\ server' \in {"running", "draining", "stopped", "crashed"}
        /\ \A t \in active' : turn'[t].pc # "idle"
    BY <2>1 DEF Inv, TypeOK, ActiveIsStarted
  <2> QED BY <2>1, <2>2, StoreUnchanged, Quiet DEF cacheVars
<1> QED BY <1>1, <1>2, <1>3, <1>4 DEF Next

LEMMA Invariance == Spec => []Inv
<1>1. Init => Inv
  BY Initially
<1>2. Inv /\ [Next]_vars => Inv'
  BY Step
<1> QED BY <1>1, <1>2, PTL DEF Spec

\* The store, the turns and the server keep their types.
THEOREM TypeCorrect == Spec => []TypeOK
<1>1. Inv => TypeOK
  BY DEF Inv
<1> QED BY <1>1, Invariance, PTL

\* NativeReplaysAreWhole (responses.ts, passthroughRecordEligible): what a
\* native turn is recorded with is what it was sent with, and that was all
\* of what its predecessor was recorded with.
THEOREM NativeReplays == Spec => []NativeReplaysAreWhole
<1>1. Inv => NativeReplaysAreWhole
  <2> SUFFICES ASSUME Inv, NEW t \in Turns, isNative(t), recorded[t] # None
               PROVE  isWhole(t)
    BY DEF NativeReplaysAreWhole
  <2>1. IsRecordedOnce(t) /\ HasItsBody(t)
    BY DEF Inv
  <2>2. recorded[t].items = Append(turn[t].body, t)
        /\ (turn[t].prev = 0 \/ ~turn[t].missed)
    BY <2>1 DEF IsRecordedOnce, passthroughRecordEligible
  <2>3. CASE turn[t].prev = 0
    <3>1. Append(<<>>, t) = <<t>>
      OBVIOUS
    <3> QED BY <2>1, <2>2, <2>3, <3>1 DEF isWhole, HasItsBody
  <2>4. CASE turn[t].prev # 0
    BY <2>1, <2>2, <2>4 DEF isWhole, HasItsBody
  <2> QED BY <2>3, <2>4
<1> QED BY <1>1, Invariance, PTL

\* CacheSpec (src/src/responses/state.ts): the turns with the store implement
\* the lossy cache.  The store and its snapshot hold nothing but what was
\* recorded, so that a hit is an answer of the cache; a turn is recorded
\* once, when it has its outcome or its bridge ends.
THEOREM StoreIsALossyCache == Spec => CacheSpec
<1>1. Init => Cache!Init
  BY Initially
<1>2. Inv /\ [Next]_vars => [Cache!Next]_<<recorded, [t \in Turns |-> turn[t].body], now>>
  BY Step DEF cacheVars, answers
<1> QED BY <1>1, <1>2, Invariance, PTL DEF Spec, CacheSpec, Cache!Spec

LEMMA MoreInvariance == Spec => [](Inv /\ TurnsOK /\ StoreInv)
<1>1. Init => TurnsOK
  <2>1. RecordOK(Unstarted)
    BY DEF RecordOK, NotYet, NativeOK, Unstarted
  <2> QED BY <2>1 DEF Init, TurnsOK
<1>2. Init => StoreInv
  <2> SUFFICES ASSUME Init PROVE StoreInv
    OBVIOUS
  <2>1. states = {} /\ snapshot = {} /\ ~loaded
    BY DEF Init, StoreInit
  <2>2. IsOrdered({})
    BY FS_EmptySet DEF IsOrdered
  <2> QED BY <2>1, <2>2 DEF StoreInv, SnapshotIsCurrent
<1>3. Inv /\ TurnsOK /\ [Next]_vars => TurnsOK'
  BY TurnsStayOK
<1>4. Inv /\ StoreInv /\ [Next]_vars => StoreInv'
  BY StoreStays
<1> QED BY <1>1, <1>2, <1>3, <1>4, Invariance, PTL DEF Spec

\* LogIsWhatTheClientSaw (src/src/bridge.ts, src/src/server/request-log.ts): a
\* bridged turn has one terminal event, which is queued at most once, and the
\* log is written when the client reads it or is gone.
THEOREM OneTerminalEvent == Spec => []LogIsWhatTheClientSaw
<1>1. Inv /\ TurnsOK => LogIsWhatTheClientSaw
  <2> SUFFICES ASSUME Inv, TurnsOK, NEW t \in Turns, ~isNative(t)
               PROVE  /\ turn[t].seen # <<>> => turn[t].seen = <<turn[t].log>>
                      /\ turn[t].log = "cancelled" => turn[t].seen = <<>>
    BY DEF LogIsWhatTheClientSaw
  <2>1. BridgedOK(turn[t])
    BY DEF TurnsOK, RecordOK, isNative
  <2> QED BY <2>1, Statuses DEF BridgedOK
<1> QED BY <1>1, MoreInvariance, PTL

\* OverTurnsAreLogged (src/src/server/relay.ts, reportNativeTerminal): whichever
\* of the inspection, the client, the drain and the connection ends a turn, it
\* is logged, and never otherwise than its account was told.
THEOREM EveryTurnIsLogged == Spec => []OverTurnsAreLogged
<1>1. TurnsOK => OverTurnsAreLogged
  BY DEF TurnsOK, RecordOK, OverTurnsAreLogged
<1> QED BY <1>1, MoreInvariance, PTL

\* SnapshotIsCurrent (src/src/responses/state.ts): pruning drops the oldest
\* entries only, so that what a save would keep of the rest is on disk already.
THEOREM SnapshotKeepsUp == Spec => []SnapshotIsCurrent
<1>1. StoreInv => SnapshotIsCurrent
  BY DEF StoreInv
<1> QED BY <1>1, MoreInvariance, PTL

=============================================================================
