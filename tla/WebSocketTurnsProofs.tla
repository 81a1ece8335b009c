------------------------ MODULE WebSocketTurnsProofs ------------------------
(***************************************************************************)
(* Proofs about WebSocketTurns, for any sockets, accounts and turns.       *)
(***************************************************************************)
EXTENDS WebSocketTurns, TLAPS

-----------------------------------------------------------------------------
(* The invariant *)

\* A turn that is under way and not told to stop is the current one of a
\* socket that is not closed, and the socket's hook is its own.
HooksHold ==
  \A w \in Sockets, n \in Ids :
    isLive(w, n) =>
      \/ isStopped(w, n)
      \/ /\ isCurrent(w, n)
         /\ state[w] # "closed"
         /\ hook[w] # None
         /\ hook[w].turn = n

\* Such a turn is registered, and the server not stopped.
TurnsAreRegistered ==
  \A w \in Sockets, n \in Ids :
    isLive(w, n) =>
      \/ isStopped(w, n)
      \/ <<w, n>> \in active /\ server # "stopped"

\* What a turn in state r may have sent and reported.
IsConsistent(r) ==
  /\ r.pc = "idle" => r.sent = "nothing"
  /\ r.pc \in Live => r.outcome = None /\ r.sent \in {"nothing", "frames"}
  /\ r.outcome = "terminal" => r.sent = "end"
  /\ r.sent # "overrun"

TurnsAreConsistent == \A w \in Sockets, n \in Ids : IsConsistent(turn[w][n])

TurnInv ==
  /\ TypeOK
  /\ HooksHold
  /\ TurnsAreRegistered
  /\ TurnsAreConsistent
  /\ TrackedAsOwned

-----------------------------------------------------------------------------
(* Steps *)

\* Cancelling changes nothing but flags, clears none, and stops the turn of
\* the hook.
LEMMA Cancelling ==
  ASSUME TypeOK, NEW w \in Sockets
  PROVE  /\ cancelledTurns(w) \in [Ids -> TurnRecord]
         /\ \A n \in Ids :
              /\ cancelledTurns(w)[n].pc = turn[w][n].pc
              /\ cancelledTurns(w)[n].sent = turn[w][n].sent
              /\ cancelledTurns(w)[n].outcome = turn[w][n].outcome
              /\ \/ isStopped(w, n)
                 \/ isLive(w, n) /\ hook[w] # None /\ hook[w].turn = n
                 => cancelledTurns(w)[n].aborted \/ cancelledTurns(w)[n].cancelled
<1>1. /\ turn[w] \in [Ids -> TurnRecord]
      /\ hook[w] \in Hook \union {None}
  BY DEF TypeOK
<1>2. CASE hook[w] = None \/ turn[w][hook[w].turn].pc = "done"
  BY <1>1, <1>2 DEF cancelledTurns, isStopped, isLive, Live
<1>3. CASE ~(hook[w] = None \/ turn[w][hook[w].turn].pc = "done")
  <2>1. hook[w].turn \in Ids /\ hook[w].how \in {"abort", "cancel"}
    BY <1>1, <1>3 DEF Hook
  <2>2. turn[w][hook[w].turn] \in TurnRecord
    BY <1>1, <2>1
  <2>3. CASE hook[w].how = "abort"
    <3>1. cancelledTurns(w) = [turn[w] EXCEPT ![hook[w].turn].aborted = TRUE]
      BY <1>3, <2>3 DEF cancelledTurns
    <3>2. cancelledTurns(w) \in [Ids -> TurnRecord]
      <4>1. [turn[w][hook[w].turn] EXCEPT !.aborted = TRUE] \in TurnRecord
        BY <2>2 DEF TurnRecord
      <4> QED BY <1>1, <2>1, <3>1, <4>1
    <3>3. \A n \in Ids :
            cancelledTurns(w)[n] = IF n = hook[w].turn THEN [turn[w][n] EXCEPT !.aborted = TRUE]
                                   ELSE turn[w][n]
      BY <1>1, <2>1, <3>1
    <3>4. \A r \in TurnRecord :
            LET c == [r EXCEPT !.aborted = TRUE] IN
              /\ c.pc = r.pc /\ c.sent = r.sent /\ c.outcome = r.outcome
              /\ c.aborted
      BY DEF TurnRecord
    <3>5. ASSUME NEW n \in Ids
          PROVE  /\ cancelledTurns(w)[n].pc = turn[w][n].pc
                 /\ cancelledTurns(w)[n].sent = turn[w][n].sent
                 /\ cancelledTurns(w)[n].outcome = turn[w][n].outcome
                 /\ isStopped(w, n) \/ hook[w].turn = n
                    => cancelledTurns(w)[n].aborted \/ cancelledTurns(w)[n].cancelled
      <4>1. turn[w][n] \in TurnRecord
        BY <1>1
      <4>2. CASE n = hook[w].turn
        <5>1. cancelledTurns(w)[n] = [turn[w][n] EXCEPT !.aborted = TRUE]
          BY <3>3, <4>2
        <5> QED BY <3>4, <4>1, <5>1
      <4>3. CASE n # hook[w].turn
        <5>1. cancelledTurns(w)[n] = turn[w][n]
          BY <3>3, <4>3
        <5> QED BY <4>3, <5>1 DEF isStopped
      <4> QED BY <4>2, <4>3
    <3> QED BY <3>2, <3>5
  <2>4. CASE hook[w].how = "cancel"
    <3>1. cancelledTurns(w) = [turn[w] EXCEPT ![hook[w].turn].cancelled = TRUE]
      BY <1>3, <2>4 DEF cancelledTurns
    <3>2. cancelledTurns(w) \in [Ids -> TurnRecord]
      <4>1. [turn[w][hook[w].turn] EXCEPT !.cancelled = TRUE] \in TurnRecord
        BY <2>2 DEF TurnRecord
      <4> QED BY <1>1, <2>1, <3>1, <4>1
    <3>3. \A n \in Ids :
            cancelledTurns(w)[n] = IF n = hook[w].turn THEN [turn[w][n] EXCEPT !.cancelled = TRUE]
                                   ELSE turn[w][n]
      BY <1>1, <2>1, <3>1
    <3>4. \A r \in TurnRecord :
            LET c == [r EXCEPT !.cancelled = TRUE] IN
              /\ c.pc = r.pc /\ c.sent = r.sent /\ c.outcome = r.outcome
              /\ c.cancelled
      BY DEF TurnRecord
    <3>5. ASSUME NEW n \in Ids
          PROVE  /\ cancelledTurns(w)[n].pc = turn[w][n].pc
                 /\ cancelledTurns(w)[n].sent = turn[w][n].sent
                 /\ cancelledTurns(w)[n].outcome = turn[w][n].outcome
                 /\ isStopped(w, n) \/ hook[w].turn = n
                    => cancelledTurns(w)[n].aborted \/ cancelledTurns(w)[n].cancelled
      <4>1. turn[w][n] \in TurnRecord
        BY <1>1
      <4>2. CASE n = hook[w].turn
        <5>1. cancelledTurns(w)[n] = [turn[w][n] EXCEPT !.cancelled = TRUE]
          BY <3>3, <4>2
        <5> QED BY <3>4, <4>1, <5>1
      <4>3. CASE n # hook[w].turn
        <5>1. cancelledTurns(w)[n] = turn[w][n]
          BY <3>3, <4>3
        <5> QED BY <4>3, <5>1 DEF isStopped
      <4> QED BY <4>2, <4>3
    <3> QED BY <3>2, <3>5
  <2> QED BY <2>1, <2>3, <2>4
<1> QED BY <1>2, <1>3

\* What becomes of a turn in state r when it takes a step to state s.
Follows(r, s, current) ==
  /\ s \in TurnRecord
  /\ IsConsistent(s)
  /\ s.pc \in Live \union {"done"}
  /\ s.pc \in Live => s.aborted = r.aborted /\ s.cancelled = r.cancelled
  /\ s.sent # r.sent => current

\* Every step of a turn: its hook it takes over while it is current or
\* clears at its end, and the registration ends with it.
StepsTo(w, n, s) ==
  /\ isLive(w, n)
  /\ Follows(turn[w][n], s, isCurrent(w, n))
  /\ turn' = [turn EXCEPT ![w][n] = s]
  /\ \/ s.pc \in Live /\ UNCHANGED <<hook, active>>
     \/ /\ s.pc \in Live
        /\ isCurrent(w, n)
        /\ hook' = [hook EXCEPT ![w] = [turn |-> n, how |-> "cancel"]]
        /\ UNCHANGED active
     \/ /\ s.pc = "done"
        /\ hook' = [hook EXCEPT ![w] = hookAfter(w, n)]
        /\ active' = active \ {<<w, n>>}
  /\ UNCHANGED registry \/ \E a \in Accounts \union {None} : updateCodexWebSocketAuthContext(w, a)
  /\ UNCHANGED <<sockets, accounts, server>>

LEMMA TurnSteps ==
  ASSUME TurnInv, NEW w \in Sockets, NEW n \in Ids, Advances(w, n) \/ PumpFrame(w, n)
  PROVE  \E s \in TurnRecord : StepsTo(w, n, s)
<1> DEFINE r == turn[w][n]
<1>0. /\ turn[w] \in [Ids -> TurnRecord]
      /\ r \in TurnRecord /\ IsConsistent(r)
      /\ turn \in [Sockets -> [Ids -> TurnRecord]]
      /\ accounts \subseteq Accounts
      /\ None \notin {"terminal", "incomplete"}
  BY ConstantsAssumption DEF TurnInv, TypeOK, TurnsAreConsistent
<1>1. ASSUME NEW pc \in Live, isLive(w, n)
      PROVE  LET s == [r EXCEPT !.pc = pc] IN
               s \in TurnRecord /\ Follows(r, s, isCurrent(w, n)) /\ s.pc \in Live
  BY <1>0, <1>1 DEF isLive, Live, TurnRecord, Follows, IsConsistent
<1>2. ASSUME NEW pc \in Live, isLive(w, n), continues(w, n, pc)
      PROVE  \E s \in TurnRecord : StepsTo(w, n, s)
  <2> DEFINE s == [r EXCEPT !.pc = pc]
  <2>1. s \in TurnRecord /\ Follows(r, s, isCurrent(w, n)) /\ s.pc \in Live
    BY <1>1, <1>2
  <2>2. /\ turn' = [turn EXCEPT ![w][n] = s]
        /\ UNCHANGED <<sockets, registry, active, accounts, server, hook>>
    BY <1>2 DEF continues, goesOn
  <2> HIDE DEF s
  <2>3. StepsTo(w, n, s)
    BY <1>2, <2>1, <2>2 DEF StepsTo
  <2> QED BY <2>1, <2>3
<1>3. ASSUME isLive(w, n), isCurrent(w, n), pumps(w, n)
      PROVE  \E s \in TurnRecord : StepsTo(w, n, s)
  <2> DEFINE s == [r EXCEPT !.pc = "pumping"]
  <2>1. s \in TurnRecord /\ Follows(r, s, isCurrent(w, n)) /\ s.pc \in Live
    BY <1>1, <1>3 DEF Live
  <2>2. /\ turn' = [turn EXCEPT ![w][n] = s]
        /\ UNCHANGED <<sockets, registry, active, accounts, server>>
        /\ hook' = [hook EXCEPT ![w] = [turn |-> n, how |-> "cancel"]]
    BY <1>3 DEF pumps, goesOn
  <2> HIDE DEF s
  <2>3. StepsTo(w, n, s)
    BY <1>3, <2>1, <2>2 DEF StepsTo
  <2> QED BY <2>1, <2>3
<1>4. ASSUME isLive(w, n), NEW sent, NEW outcome, ends(w, n, sent, outcome),
             sent \in {"nothing", "frames", "end"},
             outcome \in {None, "terminal", "incomplete"},
             outcome = "terminal" => sent = "end",
             sent # r.sent => isCurrent(w, n)
      PROVE  \E s \in TurnRecord : StepsTo(w, n, s)
  <2> DEFINE s == Ended(sent, outcome)
  <2>1. s \in TurnRecord /\ Follows(r, s, isCurrent(w, n)) /\ s.pc = "done"
    BY <1>4 DEF Ended, Unstarted, TurnRecord, Follows, IsConsistent, Live
  <2>2. /\ turn' = [turn EXCEPT ![w][n] = s]
        /\ hook' = [hook EXCEPT ![w] = hookAfter(w, n)]
        /\ active' = active \ {<<w, n>>}
        /\ UNCHANGED <<sockets, registry, accounts, server>>
    BY <1>4 DEF ends
  <2> HIDE DEF s
  <2>3. StepsTo(w, n, s)
    BY <1>4, <2>1, <2>2 DEF StepsTo
  <2> QED BY <2>1, <2>3
\* A live turn has reported nothing and its next frame may be its last.
<1>5. ASSUME isLive(w, n)
      PROVE  /\ r.outcome = None
             /\ r.sent \in {"nothing", "frames"}
             /\ \A frame : after(r.sent, frame) = frame
  BY <1>0, <1>5 DEF isLive, IsConsistent, after
<1>6. ASSUME isLive(w, n), endsSilently(w, n)
      PROVE  \E s \in TurnRecord : StepsTo(w, n, s)
  <2>1. ends(w, n, r.sent, r.outcome)
    BY <1>6 DEF endsSilently
  <2> QED BY <1>0, <1>4, <1>5, <1>6, <2>1
<1>7. ASSUME isLive(w, n), isCurrent(w, n), NEW outcome \in {None, "incomplete"},
             endsWith(w, n, outcome)
      PROVE  \E s \in TurnRecord : StepsTo(w, n, s)
  <2>1. ends(w, n, "end", outcome) \/ ends(w, n, r.sent, outcome)
    BY <1>5, <1>7 DEF endsWith
  <2> QED BY <1>0, <1>4, <1>5, <1>7, <2>1
<1>8. ASSUME isLive(w, n), isCurrent(w, n), endsWithError(w, n)
      PROVE  \E s \in TurnRecord : StepsTo(w, n, s)
  BY <1>5, <1>7, <1>8 DEF endsWithError
<1>9. CASE Resolve(w, n)
  <2>1. PICK a \in accounts \union {None}, pc \in {"fetching", "failing"} :
          /\ turn' = [turn EXCEPT ![w][n].account = a, ![w][n].pc = pc]
          /\ updateCodexWebSocketAuthContext(w, a)
    BY <1>9 DEF Resolve
  <2> DEFINE s == [r EXCEPT !.account = a, !.pc = pc]
  <2>2. isLive(w, n) /\ a \in Accounts \union {None}
    BY <1>0, <1>9 DEF Resolve, isLive, Live
  <2>3. s \in TurnRecord /\ Follows(r, s, isCurrent(w, n)) /\ s.pc \in Live
    BY <1>0, <2>2 DEF isLive, Live, TurnRecord, Follows, IsConsistent
  <2>4. turn' = [turn EXCEPT ![w][n] = s]
    BY <1>0, <2>1
  <2>5. UNCHANGED <<sockets, hook, active, accounts, server>>
    BY <1>9 DEF Resolve
  <2> HIDE DEF s
  <2>6. StepsTo(w, n, s)
    BY <2>1, <2>2, <2>3, <2>4, <2>5 DEF StepsTo
  <2> QED BY <2>3, <2>6
<1>10. CASE ResolveFails(w, n)
  BY <1>2, <1>10 DEF ResolveFails, isLive, Live
<1>11. CASE Throws(w, n)
  BY <1>6, <1>8, <1>11 DEF Throws, isLive, Live
<1>12. CASE FetchFails(w, n)
  BY <1>2, <1>6, <1>12 DEF FetchFails, mayAnswer, isLive, Live
<1>13. CASE SendFailure(w, n)
  BY <1>6, <1>8, <1>13 DEF SendFailure, mayAnswer, isLive, Live
<1>14. CASE FetchStream(w, n)
  BY <1>3, <1>6, <1>14 DEF FetchStream, mayAnswer, isLive, Live
<1>15. CASE FetchBody(w, n)
  BY <1>2, <1>6, <1>15 DEF FetchBody, mayAnswer, isLive, Live
<1>16. CASE FetchNothing(w, n)
  BY <1>6, <1>7, <1>16 DEF FetchNothing, mayAnswer, isLive, Live
<1>17. CASE ReadStream(w, n)
  BY <1>3, <1>6, <1>17 DEF ReadStream, mayAnswer, isLive, Live
<1>18. CASE ReadJson(w, n)
  <2>1. isLive(w, n)
    BY <1>18 DEF ReadJson, isLive, Live
  <2>2. CASE isCurrent(w, n)
    <3>1. \/ ends(w, n, "end", "terminal")
          \/ ends(w, n, "frames", r.outcome)
          \/ endsWithError(w, n)
      BY <1>5, <1>18, <2>1, <2>2 DEF ReadJson, mayAnswer, sendResponsesJsonAsEvents
    <3> QED BY <1>0, <1>4, <1>5, <1>8, <2>1, <2>2, <3>1
  <2>3. CASE ~isCurrent(w, n)
    BY <1>6, <1>18, <2>1, <2>3 DEF ReadJson, mayAnswer
  <2> QED BY <2>2, <2>3
<1>19. CASE ReadOther(w, n)
  BY <1>6, <1>7, <1>19 DEF ReadOther, mayAnswer, isLive, Live
<1>20. CASE PumpDropped(w, n)
  BY <1>8, <1>20 DEF PumpDropped, isPumping, mayAnswer, isLive, Live
<1>21. CASE PumpTerminal(w, n)
  <2> DEFINE outcome == IF r.cancelled THEN None ELSE "terminal"
  <2>1. isLive(w, n) /\ isCurrent(w, n)
    BY <1>21 DEF PumpTerminal, isPumping, mayAnswer, isLive, Live
  <2>2. ends(w, n, "end", outcome)
    BY <1>5, <1>21, <2>1 DEF PumpTerminal
  <2>3. outcome \in {None, "terminal", "incomplete"}
    OBVIOUS
  <2> HIDE DEF outcome
  <2> QED BY <1>4, <2>1, <2>2, <2>3
<1>22. CASE PumpBreaks(w, n)
  BY <1>6, <1>7, <1>22 DEF PumpBreaks, isPumping, mayAnswer, isLive, Live
<1>23. CASE PumpIsCancelled(w, n)
  BY <1>6, <1>23 DEF PumpIsCancelled, isPumping, isLive, Live
<1>24. CASE PumpFrame(w, n)
  <2> DEFINE s == [r EXCEPT !.sent = "frames"]
  <2>1. isLive(w, n) /\ isCurrent(w, n) /\ r.pc = "pumping"
    BY <1>24 DEF PumpFrame, isPumping, mayAnswer, isLive, Live
  <2>2. s \in TurnRecord /\ Follows(r, s, isCurrent(w, n)) /\ s.pc \in Live
    BY <1>0, <2>1 DEF isLive, Live, TurnRecord, Follows, IsConsistent
  <2>3. s = [r EXCEPT !.sent = after(@, "frames")]
    BY <1>0, <1>5, <2>1
  <2>4. /\ turn' = [turn EXCEPT ![w][n] = s]
        /\ UNCHANGED <<sockets, registry, active, accounts, server, hook>>
    BY <1>24, <2>3 DEF PumpFrame, goesOn
  <2> HIDE DEF s
  <2>5. StepsTo(w, n, s)
    BY <2>1, <2>2, <2>4 DEF StepsTo
  <2> QED BY <2>2, <2>5
<1> QED BY <1>9, <1>10, <1>11, <1>12, <1>13, <1>14, <1>15, <1>16, <1>17, <1>18,
           <1>19, <1>20, <1>21, <1>22, <1>23, <1>24 DEF Advances

-----------------------------------------------------------------------------
(* The invariant is kept *)

\* After ws.data.cancel?.() every turn of the socket has been told to stop.
LEMMA AllAreTold ==
  ASSUME TurnInv, NEW w \in Sockets
  PROVE  /\ cancelledTurns(w) \in [Ids -> TurnRecord]
         /\ \A n \in Ids :
              /\ cancelledTurns(w)[n].pc = turn[w][n].pc
              /\ cancelledTurns(w)[n].sent = turn[w][n].sent
              /\ IsConsistent(cancelledTurns(w)[n])
              /\ cancelledTurns(w)[n].pc \in Live
                 => cancelledTurns(w)[n].aborted \/ cancelledTurns(w)[n].cancelled
<1>1. /\ cancelledTurns(w) \in [Ids -> TurnRecord]
      /\ \A n \in Ids :
           /\ cancelledTurns(w)[n].pc = turn[w][n].pc
           /\ cancelledTurns(w)[n].sent = turn[w][n].sent
           /\ cancelledTurns(w)[n].outcome = turn[w][n].outcome
           /\ \/ isStopped(w, n)
              \/ isLive(w, n) /\ hook[w] # None /\ hook[w].turn = n
              => cancelledTurns(w)[n].aborted \/ cancelledTurns(w)[n].cancelled
  BY Cancelling DEF TurnInv
<1>2. \A n \in Ids : IsConsistent(turn[w][n])
  BY DEF TurnInv, TurnsAreConsistent
<1>3. \A n \in Ids :
        isLive(w, n) => isStopped(w, n) \/ (hook[w] # None /\ hook[w].turn = n)
  BY DEF TurnInv, HooksHold
<1>4. \A n \in Ids : IsConsistent(cancelledTurns(w)[n])
  BY <1>1, <1>2 DEF IsConsistent
<1> QED BY <1>1, <1>3, <1>4 DEF isLive

\* A socket that moves from one account to another is named once.
LEMMA RegistryMoves ==
  ASSUME TurnInv, NEW w \in Sockets, NEW a \in Accounts \union {None},
         updateCodexWebSocketAuthContext(w, a)
  PROVE  /\ owner' \in [Sockets -> Accounts \union {None}]
         /\ tracked' \in [Accounts -> SUBSET Sockets]
         /\ TrackedAsOwned'
<1>1. /\ owner \in [Sockets -> Accounts \union {None}]
      /\ tracked \in [Accounts -> SUBSET Sockets]
      /\ \A b \in Accounts : \A v \in tracked[b] : owner[v] = b
  BY DEF TurnInv, TypeOK, TrackedAsOwned
<1>2. /\ owner' = [owner EXCEPT ![w] = a]
      /\ \A b \in Accounts :
           tracked'[b] = IF b = a THEN tracked[b] \union {w}
                         ELSE IF b = owner[w] THEN tracked[b] \ {w} ELSE tracked[b]
      /\ tracked' \in [Accounts -> SUBSET Sockets]
  BY <1>1 DEF updateCodexWebSocketAuthContext
<1>3. ASSUME NEW b \in Accounts, NEW v \in tracked'[b] PROVE owner'[v] = b
  <2>1. v \in Sockets
    BY <1>2
  <2>2. CASE v = w
    BY <1>1, <1>2, <2>1, <2>2
  <2>3. CASE v # w
    BY <1>1, <1>2, <2>1, <2>3
  <2> QED BY <2>2, <2>3
<1> QED BY <1>1, <1>2, <1>3 DEF TrackedAsOwned

\* A step of a turn.
LEMMA TurnKeepsInv ==
  ASSUME TurnInv, NEW w \in Sockets, NEW n \in Ids, Advances(w, n) \/ PumpFrame(w, n)
  PROVE  TurnInv'
<1>1. PICK s \in TurnRecord : StepsTo(w, n, s)
  BY TurnSteps
<1>2. /\ TypeOK /\ TurnsAreConsistent /\ HooksHold /\ TurnsAreRegistered /\ TrackedAsOwned
      /\ turn \in [Sockets -> [Ids -> TurnRecord]]
      /\ hook \in [Sockets -> Hook \union {None}]
      /\ active \subseteq Sockets \X Ids
      /\ turnId \in [Sockets -> 0..MaxTurns]
  BY DEF TurnInv, TypeOK
<1>3. /\ isLive(w, n)
      /\ Follows(turn[w][n], s, isCurrent(w, n))
      /\ turn' = [turn EXCEPT ![w][n] = s]
      /\ state' = state /\ turnId' = turnId /\ accounts' = accounts /\ server' = server
  BY <1>1 DEF StepsTo, sockets
<1>4. /\ turn' \in [Sockets -> [Ids -> TurnRecord]]
      /\ turn'[w][n] = s
      /\ \A v \in Sockets, m \in Ids : v # w \/ m # n => turn'[v][m] = turn[v][m]
  BY <1>2, <1>3
<1>5. /\ s.pc \in Live \union {"done"}
      /\ IsConsistent(s)
      /\ s.pc \in Live => s.aborted = turn[w][n].aborted /\ s.cancelled = turn[w][n].cancelled
  BY <1>3 DEF Follows
<1>6. /\ owner' \in [Sockets -> Accounts \union {None}]
      /\ tracked' \in [Accounts -> SUBSET Sockets]
      /\ TrackedAsOwned'
  <2>1. CASE UNCHANGED registry
    BY <1>2, <2>1 DEF registry, TypeOK, TrackedAsOwned
  <2>2. CASE \E a \in Accounts \union {None} : updateCodexWebSocketAuthContext(w, a)
    BY <2>2, RegistryMoves
  <2> QED BY <1>1, <2>1, <2>2 DEF StepsTo
\* The hook of every other turn is left as it is.
<1>7. /\ hook' \in [Sockets -> Hook \union {None}]
      /\ \A v \in Sockets, m \in Ids :
           (v # w \/ m # n) /\ (v = w => ~isCurrent(w, n) \/ s.pc = "done")
           /\ hook[v] # None /\ hook[v].turn = m
           => hook'[v] # None /\ hook'[v].turn = m
      /\ s.pc \in Live /\ hook[w] # None /\ hook[w].turn = n
         => hook'[w] # None /\ hook'[w].turn = n
  <2>1. s.pc = "done" => s.pc \notin Live
    BY DEF Live
  <2>2. CASE s.pc \in Live /\ UNCHANGED <<hook, active>>
    BY <1>2, <2>2
  <2>3. CASE /\ s.pc \in Live
             /\ isCurrent(w, n)
             /\ hook' = [hook EXCEPT ![w] = [turn |-> n, how |-> "cancel"]]
    <3>1. [turn |-> n, how |-> "cancel"] \in Hook
      BY DEF Hook
    <3> QED BY <1>2, <2>1, <2>3, <3>1, ConstantsAssumption
  <2>4. CASE s.pc = "done" /\ hook' = [hook EXCEPT ![w] = hookAfter(w, n)]
    BY <1>2, <2>1, <2>4 DEF hookAfter
  <2> QED BY <1>1, <2>2, <2>3, <2>4 DEF StepsTo
<1>8. /\ active' \subseteq Sockets \X Ids
      /\ \A v \in Sockets, m \in Ids : v # w \/ m # n => (<<v, m>> \in active => <<v, m>> \in active')
      /\ s.pc \in Live => active' = active
  <2>1. s.pc = "done" => s.pc \notin Live
    BY DEF Live
  <2> QED BY <1>1, <1>2, <2>1 DEF StepsTo
<1>9. TypeOK'
  <2>1. turn[w][n].pc # "idle" /\ s.pc # "idle"
    BY <1>3, <1>5 DEF isLive, Live
  <2>2. \A v \in Sockets, m \in Ids : turn'[v][m].pc = "idle" <=> m > turnId'[v]
    BY <1>2, <1>3, <1>4, <2>1 DEF TypeOK
  <2> QED BY <1>2, <1>3, <1>4, <1>6, <1>7, <1>8, <2>2 DEF TypeOK
<1>10. HooksHold'
  <2> SUFFICES ASSUME NEW v \in Sockets, NEW m \in Ids, isLive(v, m)'
               PROVE  \/ isStopped(v, m)'
                      \/ /\ isCurrent(v, m)'
                         /\ state'[v] # "closed"
                         /\ hook'[v] # None
                         /\ hook'[v].turn = m
    BY DEF HooksHold
  <2>1. CASE v = w /\ m = n
    <3>1. isLive(w, n) /\ s.pc \in Live
      BY <1>3, <1>4, <2>1 DEF isLive
    <3> QED BY <1>2, <1>3, <1>4, <1>5, <1>7, <2>1, <3>1 DEF HooksHold, isStopped, isCurrent
  <2>2. CASE v # w \/ m # n
    <3>1. isLive(v, m) /\ (isStopped(v, m) => isStopped(v, m)')
      BY <1>4, <2>2 DEF isLive, isStopped
    <3>2. isCurrent(v, m) /\ v = w => ~isCurrent(w, n)
      BY <2>2 DEF isCurrent
    <3> QED BY <1>2, <1>3, <1>7, <2>2, <3>1, <3>2 DEF HooksHold, isCurrent
  <2> QED BY <2>1, <2>2
<1>11. TurnsAreRegistered'
  <2> SUFFICES ASSUME NEW v \in Sockets, NEW m \in Ids, isLive(v, m)'
               PROVE  isStopped(v, m)' \/ (<<v, m>> \in active' /\ server' # "stopped")
    BY DEF TurnsAreRegistered
  <2>1. CASE v = w /\ m = n
    <3>1. isLive(w, n) /\ s.pc \in Live
      BY <1>3, <1>4, <2>1 DEF isLive
    <3> QED BY <1>2, <1>3, <1>4, <1>5, <1>8, <2>1, <3>1 DEF TurnsAreRegistered, isStopped
  <2>2. CASE v # w \/ m # n
    <3>1. isLive(v, m) /\ (isStopped(v, m) => isStopped(v, m)')
      BY <1>4, <2>2 DEF isLive, isStopped
    <3> QED BY <1>2, <1>3, <1>8, <2>2, <3>1 DEF TurnsAreRegistered
  <2> QED BY <2>1, <2>2
<1>12. TurnsAreConsistent'
  <2>1. \A v \in Sockets, m \in Ids : IsConsistent(turn'[v][m])
    BY <1>2, <1>4, <1>5 DEF TurnsAreConsistent
  <2> QED BY <2>1 DEF TurnsAreConsistent, IsConsistent
<1> QED BY <1>6, <1>9, <1>10, <1>11, <1>12 DEF TurnInv

\* A new turn: all the older ones of the socket have been told to stop.
LEMMA TakingOver ==
  ASSUME TurnInv, NEW w \in Sockets, NEW started \in TurnRecord, takeOver(w, started),
         IsConsistent(started), started.pc # "idle"
  PROVE  LET n == turnId[w] + 1 IN
         /\ n \in Ids
         /\ turnId' \in [Sockets -> 0..MaxTurns]
         /\ turn' \in [Sockets -> [Ids -> TurnRecord]]
         /\ turn'[w][n] = started
         /\ \A m \in Ids : m # n /\ turn'[w][m].pc \in Live
                           => turn'[w][m].aborted \/ turn'[w][m].cancelled
         /\ \A m \in Ids : m # n => turn'[w][m].sent = turn[w][m].sent
         /\ \A v \in Sockets : v # w => turn'[v] = turn[v] /\ turnId'[v] = turnId[v]
         /\ turnId'[w] = n
         /\ \A v \in Sockets, m \in Ids : turn'[v][m].pc = "idle" <=> m > turnId'[v]
         /\ \A v \in Sockets, m \in Ids : IsConsistent(turn'[v][m])
         /\ owner' \in [Sockets -> Accounts \union {None}]
         /\ tracked' \in [Accounts -> SUBSET Sockets]
         /\ TrackedAsOwned'
         /\ state[w] = "open" /\ server # "stopped"
         /\ UNCHANGED <<state, accounts, server>>
<1> DEFINE n == turnId[w] + 1
           c == cancelledTurns(w)
<1>1. /\ turn \in [Sockets -> [Ids -> TurnRecord]]
      /\ turnId \in [Sockets -> 0..MaxTurns]
      /\ \A v \in Sockets, m \in Ids : turn[v][m].pc = "idle" <=> m > turnId[v]
      /\ \A v \in Sockets, m \in Ids : IsConsistent(turn[v][m])
      /\ MaxTurns \in Nat
  BY ConstantsAssumption DEF TurnInv, TypeOK, TurnsAreConsistent
<1>2. /\ c \in [Ids -> TurnRecord]
      /\ \A m \in Ids :
           /\ c[m].pc = turn[w][m].pc
           /\ c[m].sent = turn[w][m].sent
           /\ IsConsistent(c[m])
           /\ c[m].pc \in Live => c[m].aborted \/ c[m].cancelled
  BY AllAreTold
<1> HIDE DEF c
<1>3. /\ n \in Ids
      /\ turnId' = [turnId EXCEPT ![w] = n]
      /\ turn' = [turn EXCEPT ![w] = [c EXCEPT ![n] = started]]
      /\ state[w] = "open" /\ server # "stopped"
      /\ UNCHANGED <<state, accounts, server>>
      /\ updateCodexWebSocketAuthContext(w, None)
  BY <1>1 DEF takeOver, hasTurnsLeft, isOpen, Ids, c
<1>4. n \in 0..MaxTurns /\ n = turnId[w] + 1 /\ turnId[w] \in Nat
  BY <1>1, <1>3 DEF Ids
<1> HIDE DEF n
<1>5. /\ turnId' \in [Sockets -> 0..MaxTurns]
      /\ turnId'[w] = n
      /\ \A v \in Sockets : v # w => turnId'[v] = turnId[v]
  BY <1>1, <1>3, <1>4
<1>6. /\ [c EXCEPT ![n] = started] \in [Ids -> TurnRecord]
      /\ turn' \in [Sockets -> [Ids -> TurnRecord]]
      /\ turn'[w] = [c EXCEPT ![n] = started]
      /\ \A v \in Sockets : v # w => turn'[v] = turn[v]
  BY <1>1, <1>2, <1>3
<1>7. turn'[w][n] = started /\ \A m \in Ids : m # n => turn'[w][m] = c[m]
  BY <1>2, <1>3, <1>6
<1>8. ASSUME NEW v \in Sockets, NEW m \in Ids
      PROVE  turn'[v][m].pc = "idle" <=> m > turnId'[v]
  <2>1. m \in Nat
    BY DEF Ids
  <2>2. CASE v = w
    <3>1. CASE m = n
      BY <1>5, <1>7, <2>1, <2>2, <3>1
    <3>2. CASE m # n
      <4>1. turn'[w][m].pc = "idle" <=> m > turnId[w]
        BY <1>1, <1>2, <1>7, <3>2
      <4>2. m > turnId[w] <=> m > n
        BY <1>4, <2>1, <3>2
      <4> QED BY <1>5, <2>2, <4>1, <4>2
    <3> QED BY <3>1, <3>2
  <2>3. CASE v # w
    BY <1>1, <1>5, <1>6, <2>3
  <2> QED BY <2>2, <2>3
<1>9. ASSUME NEW v \in Sockets, NEW m \in Ids PROVE IsConsistent(turn'[v][m])
  <2>1. CASE v # w
    BY <1>1, <1>6, <2>1
  <2>2. CASE v = w
    BY <1>2, <1>7, <2>2
  <2> QED BY <2>1, <2>2
<1>10. /\ owner' \in [Sockets -> Accounts \union {None}]
       /\ tracked' \in [Accounts -> SUBSET Sockets]
       /\ TrackedAsOwned'
  BY <1>3, RegistryMoves
<1>11. \A m \in Ids : m # n /\ turn'[w][m].pc \in Live
                      => turn'[w][m].aborted \/ turn'[w][m].cancelled
  BY <1>2, <1>7
<1>12. \A m \in Ids : m # n => turn'[w][m].sent = turn[w][m].sent
  BY <1>2, <1>7
<1> QED BY <1>3, <1>5, <1>6, <1>7, <1>8, <1>9, <1>10, <1>11, <1>12 DEF n

LEMMA CreateKeepsInv ==
  ASSUME TurnInv, NEW w \in Sockets, Create(w) \/ WarmUp(w)
  PROVE  TurnInv'
<1> DEFINE n == turnId[w] + 1
<1>0. /\ None \notin Hook
      /\ HooksHold /\ TurnsAreRegistered
      /\ hook \in [Sockets -> Hook \union {None}]
      /\ active \subseteq Sockets \X Ids
      /\ accounts \subseteq Accounts
      /\ state \in [Sockets -> {"new", "open", "closing", "closed"}]
      /\ server \in {"running", "draining", "stopped"}
  BY ConstantsAssumption DEF TurnInv, TypeOK
<1>1. PICK started \in TurnRecord :
        /\ takeOver(w, started)
        /\ IsConsistent(started)
        /\ started.pc # "idle"
        /\ \/ /\ started.pc \in Live
              /\ hook' = [hook EXCEPT ![w] = [turn |-> n, how |-> "abort"]]
              /\ active' = active \union {<<w, n>>}
           \/ /\ started.pc \notin Live
              /\ \/ hook' = [hook EXCEPT ![w] = [turn |-> n, how |-> "abort"]]
                 \/ hook' = [hook EXCEPT ![w] = None]
              /\ active' = active
  <2>1. \A r \in {Started, Ended("end", None), Ended("nothing", None)} :
          r \in TurnRecord /\ IsConsistent(r) /\ r.pc # "idle"
    BY ConstantsAssumption
    DEF Started, Ended, Unstarted, TurnRecord, IsConsistent, Live
  <2>2. /\ Started.pc \in Live
        /\ Ended("end", None).pc \notin Live
        /\ Ended("nothing", None).pc \notin Live
    BY DEF Started, Ended, Unstarted, Live
  <2>3. CASE Create(w)
    BY <2>1, <2>2, <2>3 DEF Create
  <2>4. CASE WarmUp(w)
    BY <2>1, <2>2, <2>4 DEF WarmUp
  <2> QED BY <2>3, <2>4
<1>2. /\ n \in Ids
      /\ turnId' \in [Sockets -> 0..MaxTurns]
      /\ turn' \in [Sockets -> [Ids -> TurnRecord]]
      /\ turn'[w][n] = started
      /\ \A m \in Ids : m # n /\ turn'[w][m].pc \in Live
                        => turn'[w][m].aborted \/ turn'[w][m].cancelled
      /\ \A v \in Sockets : v # w => turn'[v] = turn[v] /\ turnId'[v] = turnId[v]
      /\ turnId'[w] = n
      /\ \A v \in Sockets, m \in Ids : turn'[v][m].pc = "idle" <=> m > turnId'[v]
      /\ \A v \in Sockets, m \in Ids : IsConsistent(turn'[v][m])
      /\ owner' \in [Sockets -> Accounts \union {None}]
      /\ tracked' \in [Accounts -> SUBSET Sockets]
      /\ TrackedAsOwned'
      /\ state[w] = "open" /\ server # "stopped"
      /\ UNCHANGED <<state, accounts, server>>
  BY <1>1, TakingOver
<1> HIDE DEF n
<1>3. /\ hook' \in [Sockets -> Hook \union {None}]
      /\ active' \subseteq Sockets \X Ids
      /\ active \subseteq active'
      /\ \A v \in Sockets : v # w => hook'[v] = hook[v]
      /\ started.pc \in Live => /\ hook'[w] # None /\ hook'[w].turn = n
                                /\ <<w, n>> \in active'
  <2>1. [turn |-> n, how |-> "abort"] \in Hook
    BY <1>2 DEF Hook
  <2>2. [turn |-> n, how |-> "abort"] # None
    BY <1>0, <2>1
  <2>3. active' \subseteq Sockets \X Ids /\ active \subseteq active'
    BY <1>0, <1>1, <1>2
  <2>4. \/ hook' = [hook EXCEPT ![w] = [turn |-> n, how |-> "abort"]]
        \/ hook' = [hook EXCEPT ![w] = None] /\ started.pc \notin Live
    BY <1>1
  <2>5. started.pc \in Live => <<w, n>> \in active'
    BY <1>1
  <2>6. CASE hook' = [hook EXCEPT ![w] = [turn |-> n, how |-> "abort"]]
    <3>1. hook'[w] = [turn |-> n, how |-> "abort"] /\ \A v \in Sockets : v # w => hook'[v] = hook[v]
      BY <1>0, <2>6
    <3>2. hook' \in [Sockets -> Hook \union {None}]
      BY <1>0, <2>1, <2>6
    <3> QED BY <2>2, <2>3, <2>5, <3>1, <3>2
  <2>7. CASE hook' = [hook EXCEPT ![w] = None] /\ started.pc \notin Live
    BY <1>0, <2>3, <2>7
  <2> QED BY <2>4, <2>6, <2>7
<1>4. TypeOK'
  BY <1>0, <1>2, <1>3 DEF TypeOK
<1>5. HooksHold'
  <2> SUFFICES ASSUME NEW v \in Sockets, NEW m \in Ids, isLive(v, m)'
               PROVE  \/ isStopped(v, m)'
                      \/ /\ isCurrent(v, m)'
                         /\ state'[v] # "closed"
                         /\ hook'[v] # None
                         /\ hook'[v].turn = m
    BY DEF HooksHold
  <2>1. CASE v = w
    BY <1>2, <1>3, <2>1 DEF isLive, isStopped, isCurrent
  <2>2. CASE v # w
    <3>1. turn'[v] = turn[v] /\ turnId'[v] = turnId[v] /\ hook'[v] = hook[v] /\ state'[v] = state[v]
      BY <1>2, <1>3, <2>2
    <3>2. isLive(v, m)
      BY <3>1 DEF isLive
    <3> QED BY <1>0, <3>1, <3>2 DEF HooksHold, isStopped, isCurrent
  <2> QED BY <2>1, <2>2
<1>6. TurnsAreRegistered'
  <2> SUFFICES ASSUME NEW v \in Sockets, NEW m \in Ids, isLive(v, m)'
               PROVE  isStopped(v, m)' \/ (<<v, m>> \in active' /\ server' # "stopped")
    BY DEF TurnsAreRegistered
  <2>1. CASE v = w
    BY <1>2, <1>3, <2>1 DEF isLive, isStopped
  <2>2. CASE v # w
    BY <1>0, <1>2, <1>3, <2>2 DEF TurnsAreRegistered, isLive, isStopped
  <2> QED BY <2>1, <2>2
<1>7. TurnsAreConsistent'
  BY <1>2 DEF TurnsAreConsistent, IsConsistent
<1> QED BY <1>2, <1>4, <1>5, <1>6, <1>7 DEF TurnInv

\* Steps that end no turn and start none, but may tell some to stop: the
\* hooks, the turnIds and what was sent stay as they are.
LEMMA TellingKeepsInv ==
  ASSUME TurnInv,
         turn' \in [Sockets -> [Ids -> TurnRecord]],
         \A w \in Sockets, n \in Ids :
           /\ turn'[w][n].pc = turn[w][n].pc
           /\ turn'[w][n].sent = turn[w][n].sent
           /\ IsConsistent(turn'[w][n])
           /\ isStopped(w, n) /\ isLive(w, n) => isStopped(w, n)',
         state' \in [Sockets -> {"new", "open", "closing", "closed"}],
         \A w \in Sockets, n \in Ids :
           isLive(w, n) => isStopped(w, n)' \/ (state[w] # "closed" => state'[w] # "closed"),
         server' \in {"running", "draining", "stopped"},
         active' \subseteq active,
         \A w \in Sockets, n \in Ids :
           isLive(w, n) => isStopped(w, n)' \/ (active' = active /\ server' # "stopped")
                                            \/ (active' = active /\ server' = server),
         accounts' \subseteq Accounts,
         owner' \in [Sockets -> Accounts \union {None}],
         tracked' \in [Accounts -> SUBSET Sockets],
         TrackedAsOwned',
         UNCHANGED <<hook, turnId>>
  PROVE  TurnInv'
<1>1. \A w \in Sockets, n \in Ids : isLive(w, n)' => isLive(w, n)
  BY DEF isLive
<1>2. TypeOK'
  <2>1. /\ hook \in [Sockets -> Hook \union {None}]
        /\ turnId \in [Sockets -> 0..MaxTurns]
        /\ active \subseteq Sockets \X Ids
        /\ \A w \in Sockets, n \in Ids : turn[w][n].pc = "idle" <=> n > turnId[w]
    BY DEF TurnInv, TypeOK
  <2>2. active' \subseteq Sockets \X Ids
    BY <2>1
  <2>3. \A w \in Sockets, n \in Ids : turn'[w][n].pc = "idle" <=> n > turnId'[w]
    BY <2>1
  <2> QED BY <2>1, <2>2, <2>3 DEF TypeOK
<1>3. HooksHold'
  BY <1>1 DEF TurnInv, HooksHold, isCurrent
<1>4. TurnsAreRegistered'
  BY <1>1 DEF TurnInv, TurnsAreRegistered
<1>5. TurnsAreConsistent'
  BY DEF TurnsAreConsistent, IsConsistent
<1> QED BY <1>2, <1>3, <1>4, <1>5 DEF TurnInv

LEMMA InitHolds == Init => TurnInv
<1> SUFFICES ASSUME Init PROVE TurnInv
  OBVIOUS
<1>1. Unstarted \in TurnRecord /\ IsConsistent(Unstarted) /\ Unstarted.pc \notin Live
  BY ConstantsAssumption DEF Unstarted, TurnRecord, IsConsistent, Live
<1>2. \A w \in Sockets, n \in Ids : turn[w][n] = Unstarted /\ turnId[w] = 0 /\ n > 0
  BY DEF Init, Ids
<1>3. TypeOK
  <2>1. 0 \in 0..MaxTurns
    BY ConstantsAssumption
  <2>2. \A w \in Sockets, n \in Ids : turn[w][n].pc = "idle" <=> n > turnId[w]
    BY <1>2 DEF Unstarted
  <2> QED BY <1>1, <2>1, <2>2 DEF Init, TypeOK
<1>4. HooksHold /\ TurnsAreRegistered /\ TurnsAreConsistent
  BY <1>1, <1>2 DEF HooksHold, TurnsAreRegistered, TurnsAreConsistent, isLive
<1>5. TrackedAsOwned
  BY DEF Init, TrackedAsOwned
<1> QED BY <1>3, <1>4, <1>5 DEF TurnInv

LEMMA NextKeepsInv == TurnInv /\ [Next]_vars => TurnInv'
<1> SUFFICES ASSUME TurnInv, [Next]_vars PROVE TurnInv'
  OBVIOUS
<1>0. /\ TypeOK /\ HooksHold /\ TurnsAreRegistered /\ TurnsAreConsistent /\ TrackedAsOwned
      /\ state \in [Sockets -> {"new", "open", "closing", "closed"}]
      /\ turn \in [Sockets -> [Ids -> TurnRecord]]
      /\ owner \in [Sockets -> Accounts \union {None}]
      /\ tracked \in [Accounts -> SUBSET Sockets]
      /\ accounts \subseteq Accounts
      /\ server \in {"running", "draining", "stopped"}
      /\ \A w \in Sockets, n \in Ids : IsConsistent(turn[w][n])
  BY DEF TurnInv, TypeOK, TurnsAreConsistent
<1>1. ASSUME UNCHANGED <<turn, hook, turnId, registry, active, accounts>>,
             state' \in [Sockets -> {"new", "open", "closing", "closed"}],
             \A w \in Sockets : state[w] # "closed" => state'[w] # "closed",
             server' = server \/ server' = "draining"
      PROVE  TurnInv'
  <2>1. TrackedAsOwned'
    BY <1>0, <1>1 DEF TrackedAsOwned, registry
  <2>2. /\ owner' = owner /\ tracked' = tracked /\ turn' = turn /\ hook' = hook
        /\ turnId' = turnId /\ active' = active /\ accounts' = accounts
    BY <1>1 DEF registry
  <2> QED BY <1>0, <1>1, <2>1, <2>2, TellingKeepsInv DEF isStopped
<1>2. ASSUME NEW w \in Sockets, Open(w) PROVE TurnInv'
  BY <1>0, <1>1, <1>2 DEF Open
<1>3. ASSUME NEW w \in Sockets, TooLarge(w) PROVE TurnInv'
  BY <1>0, <1>1, <1>3 DEF TooLarge
<1>4. ASSUME NEW w \in Sockets, Close(w) PROVE TurnInv'
  <2>1. /\ state' = [state EXCEPT ![w] = "closed"]
        /\ turn' = [turn EXCEPT ![w] = cancelledTurns(w)]
        /\ unregisterCodexWebSocket(w)
        /\ UNCHANGED <<turnId, hook, active, accounts, server>>
    BY <1>4 DEF Close
  <2>2. /\ cancelledTurns(w) \in [Ids -> TurnRecord]
        /\ \A n \in Ids :
             /\ cancelledTurns(w)[n].pc = turn[w][n].pc
             /\ cancelledTurns(w)[n].sent = turn[w][n].sent
             /\ IsConsistent(cancelledTurns(w)[n])
             /\ cancelledTurns(w)[n].pc \in Live
                => cancelledTurns(w)[n].aborted \/ cancelledTurns(w)[n].cancelled
    BY AllAreTold
  <2>3. /\ turn' \in [Sockets -> [Ids -> TurnRecord]]
        /\ turn'[w] = cancelledTurns(w)
        /\ \A v \in Sockets : v # w => turn'[v] = turn[v] /\ state'[v] = state[v]
        /\ state' \in [Sockets -> {"new", "open", "closing", "closed"}]
    BY <1>0, <2>1, <2>2
  <2>4. ASSUME NEW v \in Sockets, NEW n \in Ids
        PROVE  /\ turn'[v][n].pc = turn[v][n].pc
               /\ turn'[v][n].sent = turn[v][n].sent
               /\ IsConsistent(turn'[v][n])
               /\ isLive(v, n) /\ (isStopped(v, n) \/ v = w) => isStopped(v, n)'
    <3>1. CASE v = w
      BY <2>2, <2>3, <3>1 DEF isLive, isStopped
    <3>2. CASE v # w
      BY <1>0, <2>3, <3>2 DEF isStopped
    <3> QED BY <3>1, <3>2
  <2>5. /\ owner' = owner
        /\ tracked' \in [Accounts -> SUBSET Sockets]
        /\ TrackedAsOwned'
    <3>1. /\ owner' = owner
          /\ \A b \in Accounts : tracked'[b] \subseteq tracked[b]
          /\ tracked' \in [Accounts -> SUBSET Sockets]
      BY <1>0, <2>1 DEF unregisterCodexWebSocket
    <3> QED BY <1>0, <3>1 DEF TrackedAsOwned
  <2> QED BY <1>0, <2>1, <2>3, <2>4, <2>5, TellingKeepsInv
<1>5. ASSUME NEW a \in Accounts, DeleteAccount(a) PROVE TurnInv'
  <2>1. /\ accounts' = accounts \ {a}
        /\ tracked' = [tracked EXCEPT ![a] = {}]
        /\ turn' = [w \in Sockets |-> IF w \in tracked[a] THEN cancelledTurns(w) ELSE turn[w]]
        /\ state' = [w \in Sockets |->
             IF w \in tracked[a] /\ isOpen(w) THEN "closing" ELSE state[w]]
        /\ UNCHANGED <<turnId, hook, owner, active, server>>
    BY <1>5 DEF DeleteAccount
  <2>2. \A w \in Sockets :
          /\ cancelledTurns(w) \in [Ids -> TurnRecord]
          /\ \A n \in Ids :
               /\ cancelledTurns(w)[n].pc = turn[w][n].pc
               /\ cancelledTurns(w)[n].sent = turn[w][n].sent
               /\ IsConsistent(cancelledTurns(w)[n])
               /\ cancelledTurns(w)[n].pc \in Live
                  => cancelledTurns(w)[n].aborted \/ cancelledTurns(w)[n].cancelled
    BY AllAreTold
  <2>3. /\ turn' \in [Sockets -> [Ids -> TurnRecord]]
        /\ \A w \in Sockets : turn'[w] = cancelledTurns(w) \/ turn'[w] = turn[w]
        /\ state' \in [Sockets -> {"new", "open", "closing", "closed"}]
        /\ \A w \in Sockets : state[w] # "closed" => state'[w] # "closed"
    BY <1>0, <2>1, <2>2
  <2>4. ASSUME NEW w \in Sockets, NEW n \in Ids
        PROVE  /\ turn'[w][n].pc = turn[w][n].pc
               /\ turn'[w][n].sent = turn[w][n].sent
               /\ IsConsistent(turn'[w][n])
               /\ isLive(w, n) /\ isStopped(w, n) => isStopped(w, n)'
    <3>1. CASE turn'[w] = cancelledTurns(w)
      BY <2>2, <3>1 DEF isLive, isStopped
    <3>2. CASE turn'[w] = turn[w]
      BY <1>0, <3>2 DEF isStopped
    <3> QED BY <2>3, <3>1, <3>2
  <2>5. tracked' \in [Accounts -> SUBSET Sockets] /\ TrackedAsOwned'
    BY <1>0, <2>1 DEF TrackedAsOwned
  <2> QED BY <1>0, <2>1, <2>3, <2>4, <2>5, TellingKeepsInv
<1>6. ASSUME Drain PROVE TurnInv'
  <2>1. UNCHANGED <<turn, hook, turnId, registry, active, accounts, state>>
    BY <1>6 DEF Drain, sockets
  <2> QED BY <1>0, <1>1, <1>6, <2>1 DEF Drain
<1>7. ASSUME Stop PROVE TurnInv'
  <2>1. /\ server = "draining" /\ server' = "stopped"
        /\ turn' = abortedAtDeadline
        /\ active' = {}
        /\ UNCHANGED <<state, turnId, hook, owner, tracked, accounts>>
    BY <1>7 DEF Stop, sockets, registry
  <2>2. ASSUME NEW w \in Sockets, NEW n \in Ids
        PROVE  /\ turn'[w][n] = [turn[w][n] EXCEPT !.aborted = @ \/ <<w, n>> \in active]
               /\ turn'[w][n] \in TurnRecord
               /\ turn'[w][n].aborted = (turn[w][n].aborted \/ <<w, n>> \in active)
               /\ turn'[w][n].pc = turn[w][n].pc
               /\ turn'[w][n].sent = turn[w][n].sent
               /\ turn'[w][n].cancelled = turn[w][n].cancelled
               /\ turn'[w][n].outcome = turn[w][n].outcome
    <3>1. turn'[w][n] = [turn[w][n] EXCEPT !.aborted = @ \/ <<w, n>> \in active]
      BY <2>1 DEF abortedAtDeadline
    <3>2. turn[w][n] \in TurnRecord
      BY <1>0
    <3>3. (turn[w][n].aborted \/ <<w, n>> \in active) \in BOOLEAN
      OBVIOUS
    <3> QED BY <3>1, <3>2, <3>3 DEF TurnRecord
  <2>3. turn' \in [Sockets -> [Ids -> TurnRecord]]
    BY <2>1, <2>2 DEF abortedAtDeadline
  <2>4. ASSUME NEW w \in Sockets, NEW n \in Ids PROVE IsConsistent(turn'[w][n])
    <3>1. IsConsistent(turn[w][n])
      BY <1>0
    <3> QED BY <2>2, <3>1 DEF IsConsistent
  <2>5. \A w \in Sockets, n \in Ids : isLive(w, n) => isStopped(w, n)'
    BY <1>0, <2>2 DEF TurnsAreRegistered, isStopped
  <2>6. TrackedAsOwned'
    BY <1>0, <2>1 DEF TrackedAsOwned
  <2> QED BY <1>0, <2>1, <2>2, <2>3, <2>4, <2>5, <2>6, TellingKeepsInv
<1>8. ASSUME UNCHANGED vars PROVE TurnInv'
  <2>1. UNCHANGED <<turn, hook, turnId, registry, active, accounts, state, server>>
    BY <1>8 DEF vars, sockets
  <2> QED BY <1>0, <1>1, <2>1
<1>9. ASSUME Next PROVE TurnInv'
  BY <1>2, <1>3, <1>4, <1>5, <1>6, <1>7, <1>9, CreateKeepsInv, TurnKeepsInv DEF Next
<1> QED BY <1>8, <1>9

LEMMA AlwaysTurnInv == Spec => []TurnInv
BY InitHolds, NextKeepsInv, PTL DEF Spec

-----------------------------------------------------------------------------
(* What a step sends *)

\* A frame is sent by the current turn only, before any newer one has begun.
LEMMA SentByCurrentTurn ==
  ASSUME TurnInv, [Next]_vars,
         NEW w \in Sockets, NEW n \in Ids, turn'[w][n].sent # turn[w][n].sent
  PROVE  \A m \in Ids : m > n => turn[w][m].sent = "nothing"
<1>0. /\ turn \in [Sockets -> [Ids -> TurnRecord]]
      /\ turnId \in [Sockets -> 0..MaxTurns]
      /\ \A v \in Sockets, m \in Ids : turn[v][m].pc = "idle" <=> m > turnId[v]
      /\ \A v \in Sockets, m \in Ids : IsConsistent(turn[v][m])
  BY DEF TurnInv, TypeOK, TurnsAreConsistent
<1>1. ASSUME n >= turnId[w] PROVE \A m \in Ids : m > n => turn[w][m].sent = "nothing"
  <2> SUFFICES ASSUME NEW m \in Ids, m > n PROVE turn[w][m].sent = "nothing"
    OBVIOUS
  <2>1. m > turnId[w]
    <3>1. m \in Nat /\ n \in Nat /\ turnId[w] \in Nat
      BY <1>0 DEF Ids
    <3> QED BY <1>1, <3>1
  <2> QED BY <1>0, <2>1 DEF IsConsistent
<1>2. ASSUME NEW v \in Sockets, NEW m \in Ids, Advances(v, m) \/ PumpFrame(v, m)
      PROVE  n >= turnId[w]
  <2>1. PICK s \in TurnRecord : StepsTo(v, m, s)
    BY <1>2, TurnSteps
  <2>2. /\ turn' = [turn EXCEPT ![v][m] = s]
        /\ Follows(turn[v][m], s, isCurrent(v, m))
    BY <2>1 DEF StepsTo
  <2>3. v = w /\ m = n /\ turn'[w][n] = s
    BY <1>0, <2>2
  <2>4. turnId[w] = n
    BY <2>2, <2>3 DEF Follows, isCurrent
  <2> QED BY <1>0, <2>4 DEF Ids
<1>3. ASSUME NEW v \in Sockets, Create(v) \/ WarmUp(v) PROVE n >= turnId[w]
  <2>1. PICK started \in TurnRecord :
          takeOver(v, started) /\ IsConsistent(started) /\ started.pc # "idle"
    <3>1. \A r \in {Started, Ended("end", None), Ended("nothing", None)} :
            r \in TurnRecord /\ IsConsistent(r) /\ r.pc # "idle"
      BY ConstantsAssumption
      DEF Started, Ended, Unstarted, TurnRecord, IsConsistent, Live
    <3> QED BY <1>3, <3>1 DEF Create, WarmUp
  <2>2. /\ \A m \in Ids : m # turnId[v] + 1 => turn'[v][m].sent = turn[v][m].sent
        /\ \A u \in Sockets : u # v => turn'[u] = turn[u]
    BY <2>1, TakingOver
  <2>3. n = turnId[w] + 1
    BY <2>2
  <2> QED BY <1>0, <2>3
<1>4. ASSUME NEW v \in Sockets, Close(v) PROVE FALSE
  <2>1. turn' = [turn EXCEPT ![v] = cancelledTurns(v)]
    BY <1>4 DEF Close
  <2>2. \A m \in Ids : cancelledTurns(v)[m].sent = turn[v][m].sent
    BY AllAreTold
  <2> QED BY <1>0, <2>1, <2>2
<1>5. ASSUME NEW a \in Accounts, DeleteAccount(a) PROVE FALSE
  <2>1. turn'[w] = cancelledTurns(w) \/ turn'[w] = turn[w]
    BY <1>5 DEF DeleteAccount
  <2>2. cancelledTurns(w)[n].sent = turn[w][n].sent
    BY AllAreTold
  <2> QED BY <2>1, <2>2
<1>6. ASSUME Stop PROVE FALSE
  <2>1. turn'[w][n] = [turn[w][n] EXCEPT !.aborted = @ \/ <<w, n>> \in active]
    BY <1>6 DEF Stop, abortedAtDeadline
  <2> QED BY <1>0, <2>1 DEF TurnRecord
<1>7. ASSUME turn' = turn PROVE FALSE
  BY <1>7
<1>8. ASSUME NEW v \in Sockets, Open(v) \/ TooLarge(v) PROVE FALSE
  BY <1>7, <1>8 DEF Open, TooLarge
<1>9. ASSUME Drain PROVE FALSE
  BY <1>7, <1>9 DEF Drain
<1>10. ASSUME UNCHANGED vars PROVE FALSE
  BY <1>7, <1>10 DEF vars
<1>11. ASSUME Next PROVE n >= turnId[w]
  BY <1>2, <1>3, <1>4, <1>5, <1>6, <1>8, <1>9, <1>11 DEF Next
<1> QED BY <1>1, <1>10, <1>11

-----------------------------------------------------------------------------
(* Theorems *)

\* Every reachable state is of the declared types, and a socket's turns are
\* those up to its turnId (index.ts, message).
THEOREM TypeCorrect == Spec => []TypeOK
BY AlwaysTurnInv, PTL DEF TurnInv

\* Whatever the order in which turns and pumps set and clear ws.data.cancel, a
\* superseded turn and a turn of a closed socket have been told to stop.
THEOREM OldTurnsStop == Spec => []OldTurnsAreStopped
<1>1. TurnInv => OldTurnsAreStopped
  BY DEF TurnInv, HooksHold, OldTurnsAreStopped
<1> QED BY <1>1, AlwaysTurnInv, PTL

\* The status of a terminal event is reported for the account only when the
\* event was delivered as the turn's last frame (ws-bridge.ts).
THEOREM ReportsAreDelivered == Spec => []OutcomesAreDelivered
<1>1. TurnInv => OutcomesAreDelivered
  BY DEF TurnInv, TurnsAreConsistent, IsConsistent, OutcomesAreDelivered
<1> QED BY <1>1, AlwaysTurnInv, PTL

\* drainAndShutdown stops with every turn ended or told to stop, those that
\* began during the drain included (lifecycle.ts).
THEOREM StopIsClean == Spec => []StopLeavesNoTurn
<1>1. TurnInv => StopLeavesNoTurn
  BY DEF TurnInv, TurnsAreRegistered, StopLeavesNoTurn
<1> QED BY <1>1, AlwaysTurnInv, PTL

\* The registry names no socket under two accounts, nor under one that its
\* context does not name (websocket-registry.ts).
THEOREM RegistryIsOwned == Spec => []TrackedAsOwned
BY AlwaysTurnInv, PTL DEF TurnInv

\* A turn's frames end with its end and precede those of every newer turn of
\* the socket (sendResponseToWebSocket and the pump, ws-bridge.ts).
THEOREM TurnsDoNotMix == Spec => NothingFollowsTheEnd
<1>1. ASSUME TurnInv, TurnInv', [Next]_vars
      PROVE  [\A w \in Sockets, n \in Ids :
                turn'[w][n].sent # turn[w][n].sent
                => /\ turn'[w][n].sent # "overrun"
                   /\ \A m \in Ids : m > n => turn[w][m].sent = "nothing"]_vars
  <2>1. \A w \in Sockets, n \in Ids : turn'[w][n].sent # "overrun"
    BY <1>1 DEF TurnInv, TurnsAreConsistent, IsConsistent
  <2> QED BY <1>1, <2>1, SentByCurrentTurn
<1> QED BY <1>1, AlwaysTurnInv, PTL DEF Spec, NothingFollowsTheEnd

=============================================================================
