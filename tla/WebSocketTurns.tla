--------------------------- MODULE WebSocketTurns ---------------------------
(***************************************************************************)
(* The Responses WebSocket: sockets that carry one turn after another,     *)
(* the registry of sockets by Codex account, and the drain at shutdown.    *)
(*                                                                         *)
(* A message (src/src/server/index.ts) cancels the turn before it, takes   *)
(* the socket over and starts an asynchronous turn that resolves its       *)
(* account, fetches, and answers on the socket through ws-bridge.ts.       *)
(* Turns are superseded, sockets close, accounts are deleted and the       *)
(* server drains between any two awaits of a turn; up to its next await a  *)
(* turn runs alone.                                                        *)
(*                                                                         *)
(* A turn is its socket and its turnId.  Frames are left out but for what  *)
(* they say about a turn: that it is under way, or its end (a terminal     *)
(* event or an error frame).  The nested controllers that handleResponses  *)
(* registers for a stream live within the turn's own registration.  The    *)
(* accounts are those of the pool; a turn that uses none of them has none. *)
(***************************************************************************)
EXTENDS Naturals, FiniteSets

CONSTANTS
  Sockets,
  Accounts,    \* the Codex accounts there are at first
  None,        \* no account, no outcome, no hook
  MaxTurns,    \* bound: turns of a socket
  MaxBegun     \* bound: turns of all the sockets

\* A turn of a socket by its turnId; what ws.data.cancel does to its turn.
Ids  == 1..MaxTurns
Hook == [turn : Ids, how : {"abort", "cancel"}]

ASSUME ConstantsAssumption ==
  /\ None \notin Accounts /\ None \notin Hook /\ None \notin {"terminal", "incomplete"}
  /\ MaxTurns \in Nat /\ MaxBegun \in Nat

VARIABLES
  state,      \* readyState of a socket, "new" before the upgrade
  turnId,     \* ws.data.turnId, 0 before the first turn
  hook,       \* ws.data.cancel: the turn that it cancels, and how
  owner,      \* the account of ws.data.authContext
  tracked,    \* socketsByAccount
  turn,       \* the turns of each socket
  active,     \* activeTurns
  accounts,   \* the accounts that are not deleted
  server      \* running, draining, or stopped

registry == <<owner, tracked>>
sockets  == <<state, turnId>>
vars == <<sockets, hook, registry, turn, active, accounts, server>>

-----------------------------------------------------------------------------
(* Types *)

Unstarted == [pc |-> "idle", account |-> None, aborted |-> FALSE, cancelled |-> FALSE,
              sent |-> "nothing", outcome |-> None]
Started   == [Unstarted EXCEPT !.pc = "resolving"]

\* What is left of a turn that has ended: what it sent and reported.
Ended(sent, outcome) ==
  [Unstarted EXCEPT !.pc = "done", !.sent = sent, !.outcome = outcome]

Live == {"resolving", "fetching", "failing", "reading", "pumping"}

\* sent: "overrun" when a frame follows the end of the turn.
\* aborted: by turnAbort; cancelled: clientCancelled of its pump.
TurnRecord ==
  [pc : {"idle", "done"} \union Live, account : Accounts \union {None},
   aborted : BOOLEAN, cancelled : BOOLEAN,
   sent : {"nothing", "frames", "end", "overrun"},
   outcome : {None, "terminal", "incomplete"}]

\* The turns there have been are those up to turnId.
TypeOK ==
  /\ state \in [Sockets -> {"new", "open", "closing", "closed"}]
  /\ turnId \in [Sockets -> 0..MaxTurns]
  /\ hook \in [Sockets -> Hook \union {None}]
  /\ owner \in [Sockets -> Accounts \union {None}]
  /\ tracked \in [Accounts -> SUBSET Sockets]
  /\ turn \in [Sockets -> [Ids -> TurnRecord]]
  /\ \A w \in Sockets, n \in Ids : turn[w][n].pc = "idle" <=> n > turnId[w]
  /\ active \subseteq Sockets \X Ids
  /\ accounts \subseteq Accounts
  /\ server \in {"running", "draining", "stopped"}

isCurrent(w, n)   == turnId[w] = n
isOpen(w)         == state[w] = "open"
isLive(w, n)      == turn[w][n].pc \in Live
isStopped(w, n)   == turn[w][n].aborted \/ turn[w][n].cancelled

-----------------------------------------------------------------------------
(* The registry of websocket-registry.ts *)

updateCodexWebSocketAuthContext(w, a) ==
  /\ owner' = [owner EXCEPT ![w] = a]
  /\ tracked' = [b \in Accounts |->
       IF b = a THEN tracked[b] \union {w}
       ELSE IF b = owner[w] THEN tracked[b] \ {w} ELSE tracked[b]]

unregisterCodexWebSocket(w) ==
  /\ tracked' = [b \in Accounts |-> IF b = owner[w] THEN tracked[b] \ {w} ELSE tracked[b]]
  /\ UNCHANGED owner

\* Fault: the pump's hook does not cancel its reader.
cancelledTurnsNotPumping(w) ==
  LET h == hook[w] IN
    IF h = None \/ turn[w][h.turn].pc = "done" THEN turn[w]
    ELSE IF h.how = "abort" THEN [turn[w] EXCEPT ![h.turn].aborted = TRUE]
    ELSE turn[w]

\* The turns of a socket after ws.data.cancel?.(), which means nothing to a
\* turn that has ended.
cancelledTurns(w) ==
  LET h == hook[w] IN
    IF h = None \/ turn[w][h.turn].pc = "done" THEN turn[w]
    ELSE IF h.how = "abort" THEN [turn[w] EXCEPT ![h.turn].aborted = TRUE]
    ELSE [turn[w] EXCEPT ![h.turn].cancelled = TRUE]

-----------------------------------------------------------------------------
(* The socket *)

Open(w) ==
  /\ state[w] = "new"
  /\ server = "running"
  /\ state' = [state EXCEPT ![w] = "open"]
  /\ UNCHANGED <<turnId, hook, registry, turn, active, accounts, server>>

begun == {t \in Sockets \X Ids : t[2] <= turnId[t[1]]}

hasTurnsLeft(w) == turnId[w] < MaxTurns /\ Cardinality(begun) < MaxBegun

\* What every response.create does first.
takeOver(w, started) ==
  LET n == turnId[w] + 1 IN
  /\ isOpen(w)
  /\ hasTurnsLeft(w)
  /\ server # "stopped"
  /\ turnId' = [turnId EXCEPT ![w] = n]
  /\ turn' = [turn EXCEPT ![w] = [cancelledTurns(w) EXCEPT ![n] = started]]
  /\ updateCodexWebSocketAuthContext(w, None)
  /\ UNCHANGED <<state, accounts, server>>

\* A turn; drained or not, the server takes it.
Create(w) ==
  /\ takeOver(w, Started)
  /\ hook' = [hook EXCEPT ![w] = [turn |-> turnId[w] + 1, how |-> "abort"]]
  /\ active' = active \union {<<w, turnId[w] + 1>>}

\* generate: false is answered on the spot.  A frame that is dropped throws,
\* and the hook stays.
WarmUp(w) ==
  /\ \/ /\ takeOver(w, Ended("end", None))
        /\ hook' = [hook EXCEPT ![w] = None]
     \/ /\ takeOver(w, Ended("nothing", None))
        /\ hook' = [hook EXCEPT ![w] = [turn |-> turnId[w] + 1, how |-> "abort"]]
  /\ UNCHANGED active

\* A message over the limit closes the socket; the turn under way is told
\* only by the close handler.
TooLarge(w) ==
  /\ isOpen(w)
  /\ server # "stopped"
  /\ state' = [state EXCEPT ![w] = "closing"]
  /\ UNCHANGED <<turnId, hook, registry, turn, active, accounts, server>>

\* The close handler: the client left, the account was invalidated, or the
\* server stopped.
Close(w) ==
  /\ state[w] \in {"open", "closing"}
  /\ state' = [state EXCEPT ![w] = "closed"]
  /\ unregisterCodexWebSocket(w)
  /\ turn' = [turn EXCEPT ![w] = cancelledTurns(w)]
  /\ UNCHANGED <<turnId, hook, active, accounts, server>>

-----------------------------------------------------------------------------
(* A turn *)

\* Fault: the end of a turn clears the hook of the turn that replaced it.
hookAfterAlways(w, n) == None

\* The finally clauses clear the hook only if it is still their own.
hookAfter(w, n) ==
  IF hook[w] # None /\ hook[w].turn = n THEN None ELSE hook[w]

goesOn(w, n, changed) ==
  /\ turn' = [turn EXCEPT ![w][n] = changed]
  /\ UNCHANGED <<sockets, registry, active, accounts, server>>

continues(w, n, pc) ==
  /\ goesOn(w, n, [turn[w][n] EXCEPT !.pc = pc])
  /\ UNCHANGED hook

\* The turn's async function returns; it may have sent a last frame and
\* reported an outcome before.
ends(w, n, sent, outcome) ==
  /\ turn' = [turn EXCEPT ![w][n] = Ended(sent, outcome)]
  /\ hook' = [hook EXCEPT ![w] = hookAfter(w, n)]
  /\ active' = active \ {<<w, n>>}
  /\ UNCHANGED <<sockets, registry, accounts, server>>

endsSilently(w, n) == ends(w, n, turn[w][n].sent, turn[w][n].outcome)

after(sent, frame) == IF sent \in {"end", "overrun"} THEN "overrun" ELSE frame

\* It ends with a frame, which a congested or closed socket drops.
endsWith(w, n, outcome) ==
  \/ isOpen(w) /\ ends(w, n, after(turn[w][n].sent, "end"), outcome)
  \/ ends(w, n, turn[w][n].sent, outcome)

endsWithError(w, n) == endsWith(w, n, turn[w][n].outcome)

\* The account is resolved, possibly after its token was refreshed: the
\* socket is registered for it, whatever became of socket and turn
\* meanwhile.  The account may turn out to need a new login.
Resolve(w, n) ==
  /\ turn[w][n].pc = "resolving"
  /\ \E a \in accounts \union {None}, pc \in {"fetching", "failing"} :
       /\ turn' = [turn EXCEPT ![w][n].account = a, ![w][n].pc = pc]
       /\ updateCodexWebSocketAuthContext(w, a)
  /\ UNCHANGED <<sockets, hook, active, accounts, server>>

ResolveFails(w, n) ==
  /\ turn[w][n].pc = "resolving"
  /\ continues(w, n, "failing")

\* The turn's handleResponses throws.
Throws(w, n) ==
  /\ turn[w][n].pc \in {"resolving", "fetching", "reading"}
  /\ IF isCurrent(w, n) THEN endsWithError(w, n) ELSE endsSilently(w, n)

\* Fault: a turn that was superseded during its fetch answers.
mayAnswerAnyway(w, n) == TRUE

mayAnswer(w, n) == isCurrent(w, n)

\* An error of the upstream, or the 499 of an aborted turn.
FetchFails(w, n) ==
  /\ turn[w][n].pc = "fetching"
  /\ IF mayAnswer(w, n) THEN continues(w, n, "failing") ELSE endsSilently(w, n)

\* The text of the error is read before it is sent.
SendFailure(w, n) ==
  /\ turn[w][n].pc = "failing"
  /\ IF mayAnswer(w, n) THEN endsWithError(w, n) ELSE endsSilently(w, n)

\* A stream: its pump takes over the hook.
pumps(w, n) ==
  /\ goesOn(w, n, [turn[w][n] EXCEPT !.pc = "pumping"])
  /\ hook' = [hook EXCEPT ![w] = [turn |-> n, how |-> "cancel"]]

FetchStream(w, n) ==
  /\ turn[w][n].pc = "fetching"
  /\ IF mayAnswer(w, n) THEN pumps(w, n) ELSE endsSilently(w, n)

\* A body that is read, or looked into, first.
FetchBody(w, n) ==
  /\ turn[w][n].pc = "fetching"
  /\ IF mayAnswer(w, n) THEN continues(w, n, "reading") ELSE endsSilently(w, n)

\* No body at all.
FetchNothing(w, n) ==
  /\ turn[w][n].pc = "fetching"
  /\ IF mayAnswer(w, n) THEN endsWith(w, n, "incomplete") ELSE endsSilently(w, n)

ReadStream(w, n) ==
  /\ turn[w][n].pc = "reading"
  /\ IF mayAnswer(w, n) THEN pumps(w, n) ELSE endsSilently(w, n)

\* Fault: the outcome is reported although the frames were dropped.
sendResponsesJsonUnchecked(w, n) == endsWith(w, n, "terminal")

\* sendResponsesJsonAsEvents: a frame that is dropped throws past the report.
sendResponsesJsonAsEvents(w, n) ==
  \/ isOpen(w) /\ ends(w, n, after(turn[w][n].sent, "end"), "terminal")
  \/ isOpen(w) /\ ends(w, n, after(turn[w][n].sent, "frames"), turn[w][n].outcome)
  \/ endsWithError(w, n)

ReadJson(w, n) ==
  /\ turn[w][n].pc = "reading"
  /\ IF mayAnswer(w, n) THEN sendResponsesJsonAsEvents(w, n) ELSE endsSilently(w, n)

ReadOther(w, n) ==
  /\ turn[w][n].pc = "reading"
  /\ IF mayAnswer(w, n) THEN endsWith(w, n, "incomplete") ELSE endsSilently(w, n)

-----------------------------------------------------------------------------
(* pumpResponsesSseToWebSocket *)

isPumping(w, n) == turn[w][n].pc = "pumping"

PumpFrame(w, n) ==
  /\ isPumping(w, n)
  /\ mayAnswer(w, n)
  /\ isOpen(w)
  /\ goesOn(w, n, [turn[w][n] EXCEPT !.sent = after(@, "frames")])
  /\ UNCHANGED hook

\* A frame is dropped: nothing is reported.
PumpDropped(w, n) ==
  /\ isPumping(w, n)
  /\ mayAnswer(w, n)
  /\ endsWithError(w, n)

PumpTerminal(w, n) ==
  /\ isPumping(w, n)
  /\ mayAnswer(w, n)
  /\ isOpen(w)
  /\ ends(w, n, after(turn[w][n].sent, "end"),
          IF turn[w][n].cancelled THEN None ELSE "terminal")

\* The stream ends early, is malformed or fails.
PumpBreaks(w, n) ==
  /\ isPumping(w, n)
  /\ mayAnswer(w, n)
  /\ ~turn[w][n].cancelled
  /\ \/ endsWith(w, n, "incomplete")
     \/ ~isOpen(w) /\ endsSilently(w, n)

\* Its reader was cancelled, or its frames are nobody's any more.
PumpIsCancelled(w, n) ==
  /\ isPumping(w, n)
  /\ turn[w][n].cancelled \/ ~mayAnswer(w, n)
  /\ endsSilently(w, n)

-----------------------------------------------------------------------------
(* The account lifecycle and the shutdown *)

\* deleteCodexAccount: invalidateCodexWebSocketsForAccount cancels and closes
\* the sockets that are tracked for it.
DeleteAccount(a) ==
  /\ a \in accounts
  /\ accounts' = accounts \ {a}
  /\ tracked' = [tracked EXCEPT ![a] = {}]
  /\ turn' = [w \in Sockets |-> IF w \in tracked[a] THEN cancelledTurns(w) ELSE turn[w]]
  /\ state' = [w \in Sockets |->
       IF w \in tracked[a] /\ isOpen(w) THEN "closing" ELSE state[w]]
  /\ UNCHANGED <<turnId, hook, owner, active, server>>

Drain ==
  /\ server = "running"
  /\ server' = "draining"
  /\ UNCHANGED <<sockets, hook, registry, turn, active, accounts>>

\* Fault: the turns left at the deadline are forgotten and not aborted.
abortedAtDeadlineNone == turn

abortedAtDeadline ==
  [w \in Sockets |-> [n \in Ids |->
     [turn[w][n] EXCEPT !.aborted = @ \/ <<w, n>> \in active]]]

\* No turn is left, or the deadline has passed.
Stop ==
  /\ server = "draining"
  /\ server' = "stopped"
  /\ turn' = abortedAtDeadline
  /\ active' = {}
  /\ UNCHANGED <<sockets, hook, registry, accounts>>

-----------------------------------------------------------------------------
Init ==
  /\ state = [w \in Sockets |-> "new"]
  /\ turnId = [w \in Sockets |-> 0]
  /\ hook = [w \in Sockets |-> None]
  /\ owner = [w \in Sockets |-> None]
  /\ tracked = [a \in Accounts |-> {}]
  /\ turn = [w \in Sockets |-> [n \in Ids |-> Unstarted]]
  /\ active = {}
  /\ accounts = Accounts
  /\ server = "running"

\* A step of a turn other than passing on one more frame.
Advances(w, n) ==
  \/ Resolve(w, n) \/ ResolveFails(w, n) \/ Throws(w, n)
  \/ FetchFails(w, n) \/ FetchStream(w, n) \/ FetchBody(w, n) \/ FetchNothing(w, n)
  \/ SendFailure(w, n)
  \/ ReadStream(w, n) \/ ReadJson(w, n) \/ ReadOther(w, n)
  \/ PumpDropped(w, n) \/ PumpTerminal(w, n) \/ PumpBreaks(w, n)
  \/ PumpIsCancelled(w, n)

Next ==
  \/ \E w \in Sockets : Open(w) \/ Create(w) \/ WarmUp(w) \/ TooLarge(w) \/ Close(w)
  \/ \E w \in Sockets, n \in Ids : Advances(w, n) \/ PumpFrame(w, n)
  \/ \E a \in Accounts : DeleteAccount(a)
  \/ Drain
  \/ Stop

Spec == Init /\ [][Next]_vars

\* A resolution ends, and an upstream that was aborted or whose reader was
\* cancelled lets its turn go on; an upstream that was not may stream on.
Fairness ==
  \A w \in Sockets, n \in Ids :
    /\ WF_vars(Resolve(w, n) \/ ResolveFails(w, n))
    /\ WF_vars(isStopped(w, n) /\ Advances(w, n))

FairSpec == Spec /\ Fairness

-----------------------------------------------------------------------------
(* Properties *)

\* A socket serves one turn at a time: every older turn, and every turn of a
\* socket that has closed, has been told to stop, although turns and pumps
\* replace and clear the one ws.data.cancel in any order.
OldTurnsAreStopped ==
  \A w \in Sockets, n \in Ids :
    isLive(w, n) /\ (~isCurrent(w, n) \/ state[w] = "closed") => isStopped(w, n)

\* A turn ends once on the socket, and no frame of an older turn follows one
\* of a newer turn.
NothingFollowsTheEnd ==
  [][\A w \in Sockets, n \in Ids :
       turn'[w][n].sent # turn[w][n].sent
       => /\ turn'[w][n].sent # "overrun"
          /\ \A m \in Ids : m > n => turn[w][m].sent = "nothing"]_vars

\* The outcome that counts for the account's health is what the client saw: a
\* turn reports the status of a terminal event only when that event, and no
\* frame after it, went out on the socket.
OutcomesAreDelivered ==
  \A w \in Sockets, n \in Ids :
    turn[w][n].outcome = "terminal" => turn[w][n].sent = "end"

\* The shutdown leaves no turn running on: however turns start, end and hand
\* their hooks on during the drain, each has ended or is told to stop.
StopLeavesNoTurn ==
  server = "stopped" =>
    \A w \in Sockets, n \in Ids : isLive(w, n) => isStopped(w, n)

\* The registry names a socket under one account at most, the one its last
\* resolution found, although resolutions of old and new turns come in any
\* order and deletions and closing take sockets out.
TrackedAsOwned ==
  \A a \in Accounts : \A w \in tracked[a] : owner[w] = a

\* A turn that was superseded or whose socket closed ends, even when its
\* upstream would stream for ever.
StoppedTurnsEnd ==
  \A w \in Sockets, n \in Ids :
    isLive(w, n) /\ (~isCurrent(w, n) \/ state[w] = "closed")
    ~> turn[w][n].pc = "done"

=============================================================================
