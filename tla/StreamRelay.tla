----------------------------- MODULE StreamRelay -----------------------------
(***************************************************************************)
(* The turns of POST /v1/responses that stream: the way of a stream from   *)
(* the upstream to the client, what is recorded of it on the way, and the  *)
(* drain of the server.  The turns share the store of ResponseState.       *)
(*                                                                         *)
(* A native turn relays the stream of ChatGPT.  Its body is teed: one      *)
(* branch goes to the client (relaySseWithFailedTail), the other to the    *)
(* inspection (consumeForInspection) that records the outcome for the      *)
(* account, writes the request log, and remembers the response.  A bridged *)
(* turn has the events of an adapter turned into a stream                  *)
(* (bridgeToResponsesSSE), which trackStreamLifetime and the request log   *)
(* wrap.                                                                   *)
(*                                                                         *)
(* Of a stream only its terminal event and its end are told.  Inspection   *)
(* always has a read pending and so keeps up with the upstream; a client   *)
(* reads at its own pace, and leaves when it likes.  Compaction turns,     *)
(* which never use the store, are left out.                                *)
(***************************************************************************)
EXTENDS ResponseState

CONSTANTS
  MaxLive,   \* bound: turns under way at once
  MaxNow,    \* bound: the clock
  Kinds      \* the kinds of turns there are

Terminals == {"completed", "failed", "incomplete"}

ASSUME RelayAssumption ==
  /\ MaxLive \in Nat /\ MaxNow \in Nat
  /\ Kinds \subseteq {"native", "bridged"}
  /\ None \notin Terminals \union {"cancelled"}

\* How an upstream ends its answer: one that it calls incomplete, or that an
\* adapter leaves without an end, goes the way of one that failed.
Answers == {"completed", "failed"}

VARIABLES
  turn,     \* the turns
  active,   \* activeTurns
  server    \* running, draining, stopped, or crashed

vars == <<turn, active, server, storeVars>>

\* prev: previous_response_id; body: what came before the input; missed: prev
\* was not in the store.  upstream: its body is still open, has ended, broke,
\* or was aborted.  queue: what the client has yet to read; seen: what it has
\* read; closed: it reads no more.  reading: the inspection, or the loop of
\* the bridge, goes on.
Unstarted ==
  [pc |-> "idle", kind |-> "native", prev |-> 0, body |-> <<>>, missed |-> FALSE,
   upstream |-> "open", reading |-> FALSE, queue |-> <<>>, seen |-> <<>>,
   closed |-> FALSE, outcome |-> None, log |-> None]

Under == {"connecting", "streaming"}

\* over: for the server and for the client; cut: the server went down.
TurnRecord ==
  [pc : {"idle", "over", "cut"} \union Under, kind : {"native", "bridged"},
   prev : Turns \union {0}, body : Seq(Turns), missed : BOOLEAN,
   upstream : {"open", "ended", "broken", "aborted"}, reading : BOOLEAN,
   queue : Seq(Terminals), seen : Seq(Terminals), closed : BOOLEAN,
   outcome : Terminals \union {None}, log : Terminals \union {"cancelled", None}]

TypeOK ==
  /\ StoreTypeOK
  /\ turn \in [Turns -> TurnRecord]
  /\ active \subseteq Turns
  /\ server \in {"running", "draining", "stopped", "crashed"}

isUp           == server \in {"running", "draining"}
isStreaming(t) == isUp /\ turn[t].pc = "streaming"
isNative(t)    == turn[t].kind = "native"

Init ==
  /\ StoreInit
  /\ turn = [t \in Turns |-> Unstarted]
  /\ active = {}
  /\ server = "running"

-----------------------------------------------------------------------------
(* Steps of a turn *)

\* r, once nothing of it is left to do.
settled(r) ==
  IF r.reading \/ ~r.closed THEN r
  ELSE [r EXCEPT !.pc = "over", !.queue = <<>>, !.upstream = "ended"]

\* The request log is written once.
logged(r, status) == IF r.log = None THEN [r EXCEPT !.log = status] ELSE r

queued(r, e) == IF r.closed THEN r ELSE [r EXCEPT !.queue = Append(@, e)]

\* An abort does nothing to a body that has ended.
aborted(r) == IF r.upstream = "open" THEN [r EXCEPT !.upstream = "aborted"] ELSE r

\* Fault: the outcome is not logged.
reportedUnlogged(r, status) == IF r.outcome = None THEN [r EXCEPT !.outcome = status] ELSE r

\* reportNativeTerminal: the outcome of the account, and the log.
reported(r, status) ==
  IF r.outcome = None THEN logged([r EXCEPT !.outcome = status], status) ELSE r

becomes(t, r) == turn' = [turn EXCEPT ![t] = settled(r)]

-----------------------------------------------------------------------------
(* Starting *)

live == {t \in Turns : turn[t].pc \in Under}

\* A turn is new, or it names a response that its client has seen complete.
mayName(p) == p = 0 \/ (p \in Turns /\ \E i \in DOMAIN turn[p].seen : turn[p].seen[i] = "completed")

Begin(t, kind, p) ==
  /\ server = "running"
  /\ turn[t].pc = "idle" /\ \A u \in Turns : turn[u].pc = "idle" => t <= u
  /\ Cardinality(live) < MaxLive
  /\ mayName(p)
  /\ LET missed == p # 0 /\ ~isStored(p)
         r == [Unstarted EXCEPT !.pc = "connecting", !.kind = kind, !.prev = p,
                                !.body = conversation(p), !.missed = missed] IN
       turn' = [turn EXCEPT ![t] = r]
  /\ IF p = 0 THEN UNCHANGED storeVars ELSE expand
  /\ UNCHANGED <<active, server>>

Connect(t) ==
  /\ isUp /\ turn[t].pc = "connecting"
  /\ turn' = [turn EXCEPT ![t].pc = "streaming", ![t].reading = TRUE]
  /\ active' = active \union {t}
  /\ UNCHANGED <<server, storeVars>>

\* The fetch is refused, resets or times out; only a native turn has an
\* account to record that for.
ConnectFails(t) ==
  /\ isUp /\ turn[t].pc = "connecting"
  /\ LET r == IF isNative(t) THEN [turn[t] EXCEPT !.outcome = "failed"] ELSE turn[t] IN
       becomes(t, [logged(r, "failed") EXCEPT !.closed = TRUE])
  /\ UNCHANGED <<active, server, storeVars>>

LeavesEarly(t) ==
  /\ isUp /\ turn[t].pc = "connecting"
  /\ becomes(t, [logged(turn[t], "cancelled") EXCEPT !.closed = TRUE])
  /\ UNCHANGED <<active, server, storeVars>>

-----------------------------------------------------------------------------
(* Native turns *)

\* Fault: a turn that was sent without what it continues is recorded too.
recordsAny(t) == TRUE

\* passthroughRecordEligible
passthroughRecordEligible(t) == turn[t].prev = 0 \/ ~turn[t].missed

\* A terminal event of the upstream.
NativeTerminal(t, e) ==
  /\ isStreaming(t) /\ isNative(t)
  /\ turn[t].reading /\ turn[t].upstream = "open" /\ turn[t].outcome = None
  /\ becomes(t, queued(reported(turn[t], e), e))
  /\ IF e = "completed" /\ passthroughRecordEligible(t)
     THEN rememberResponseState(t, Append(turn[t].body, t))
     ELSE UNCHANGED storeVars
  /\ UNCHANGED <<active, server>>

\* The upstream's body ends, or breaks: then what the client has not read of
\* it is lost.
NativeEnds(t) ==
  /\ isStreaming(t) /\ isNative(t)
  /\ turn[t].reading /\ turn[t].upstream = "open"
  /\ \/ turn' = [turn EXCEPT ![t].upstream = "ended"]
     \/ turn' = [turn EXCEPT ![t].upstream = "broken", ![t].queue = <<>>]
  /\ UNCHANGED <<active, server, storeVars>>

\* The inspection's pump finds that out.
InspectionEnds(t) ==
  /\ isStreaming(t) /\ isNative(t)
  /\ turn[t].reading /\ turn[t].upstream # "open"
  /\ becomes(t, [reported(turn[t], "incomplete") EXCEPT !.reading = FALSE])
  /\ active' = active \ {t}
  /\ UNCHANGED <<server, storeVars>>

\* The client's branch: a broken body ends with a response.failed.
NativeRelayEnds(t) ==
  /\ isStreaming(t) /\ isNative(t)
  /\ ~turn[t].closed /\ turn[t].queue = <<>>
  /\ \/ turn[t].upstream = "ended" /\ becomes(t, [turn[t] EXCEPT !.closed = TRUE])
     \/ turn[t].upstream = "broken"
        /\ becomes(t, [turn[t] EXCEPT !.closed = TRUE, !.seen = Append(@, "failed")])
  /\ UNCHANGED <<active, server, storeVars>>

\* Fault: the client's branch does not abort the fetch.
nativeLeavesQuietly(t) ==
  /\ isStreaming(t) /\ isNative(t) /\ ~turn[t].closed
  /\ becomes(t, [turn[t] EXCEPT !.closed = TRUE, !.queue = <<>>])
  /\ UNCHANGED <<active, server, storeVars>>

NativeClientLeaves(t) ==
  /\ isStreaming(t) /\ isNative(t) /\ ~turn[t].closed
  /\ becomes(t, [aborted(turn[t]) EXCEPT !.closed = TRUE, !.queue = <<>>])
  /\ UNCHANGED <<active, server, storeVars>>

-----------------------------------------------------------------------------
(* Bridged turns *)

\* Fault: an answer that came after the stall is still sent.
queuedLate(r, e) == queued(r, e)

\* The bridge emits nothing once it is closed by a stall or by the client.
emitted(r, e) == IF r.upstream = "open" THEN queued(r, e) ELSE r

\* The loop of the bridge ends: the adapter has said "done", has failed, or
\* has ended without a word.  It may even do so after the abort, with an
\* event that was already there.
BridgeEnds(t, e) ==
  /\ isStreaming(t) /\ ~isNative(t)
  /\ turn[t].reading
  /\ becomes(t, [emitted(turn[t], e) EXCEPT !.reading = FALSE])
  /\ IF e = "completed" THEN rememberResponseState(t, Append(turn[t].body, t))
     ELSE UNCHANGED storeVars
  /\ UNCHANGED <<active, server>>

\* Nothing from the adapter for the stall timeout.
BridgeStalls(t) ==
  /\ isStreaming(t) /\ ~isNative(t)
  /\ turn[t].reading /\ turn[t].upstream = "open"
  /\ turn' = [turn EXCEPT ![t] = aborted(queued(turn[t], "incomplete"))]
  /\ UNCHANGED <<active, server, storeVars>>

\* trackStreamLifetime at the end of the stream, and the log, which has seen
\* every event that the client has.
BridgeRelayEnds(t) ==
  /\ isStreaming(t) /\ ~isNative(t)
  /\ ~turn[t].reading /\ ~turn[t].closed /\ turn[t].queue = <<>>
  /\ becomes(t, [logged(turn[t], "incomplete") EXCEPT !.closed = TRUE])
  /\ active' = active \ {t}
  /\ UNCHANGED <<server, storeVars>>

\* The cancel goes up from the log to trackStreamLifetime, to the bridge and
\* to the upstream.
BridgeClientLeaves(t) ==
  /\ isStreaming(t) /\ ~isNative(t) /\ ~turn[t].closed
  /\ becomes(t, [logged(aborted(turn[t]), "cancelled") EXCEPT !.closed = TRUE, !.queue = <<>>])
  /\ active' = active \ {t}
  /\ UNCHANGED <<server, storeVars>>

\* The client reads the next event; the log of a bridged turn sees it pass.
Relay(t) ==
  /\ isStreaming(t) /\ ~turn[t].closed /\ turn[t].queue # <<>>
  /\ LET e == Head(turn[t].queue)
         r == [turn[t] EXCEPT !.queue = Tail(@), !.seen = Append(@, e)] IN
       turn' = [turn EXCEPT ![t] = IF isNative(t) THEN r ELSE logged(r, e)]
  /\ UNCHANGED <<active, server, storeVars>>

-----------------------------------------------------------------------------
(* The server *)

Persist ==
  /\ isUp /\ timer
  /\ persistNow
  /\ UNCHANGED <<turn, active, server>>

Pass ==
  /\ now < MaxNow
  /\ pass
  /\ UNCHANGED <<turn, active, server>>

Drain ==
  /\ server = "running"
  /\ server' = "draining"
  /\ UNCHANGED <<turn, active, storeVars>>

cut(r) ==
  IF r.pc \in Under THEN [r EXCEPT !.pc = "cut", !.queue = <<>>, !.reading = FALSE,
                                   !.upstream = "ended", !.closed = TRUE]
  ELSE r

\* Past the deadline each active turn is aborted.  Its inspection logs that;
\* nothing listens to the controller of a bridged turn.
drained ==
  [t \in Turns |->
     cut(IF t \in active /\ isNative(t) THEN logged(turn[t], "cancelled") ELSE turn[t])]

\* The end of drainAndShutdown, when no turn is active or at the deadline.
Stop ==
  /\ server = "draining"
  /\ turn' = drained
  /\ active' = {}
  /\ flushResponseState
  /\ server' = "stopped"

Crash ==
  /\ isUp
  /\ turn' = [t \in Turns |-> cut(turn[t])]
  /\ active' = {}
  /\ server' = "crashed"
  /\ UNCHANGED storeVars

Restart ==
  /\ ~isUp
  /\ \E t \in Turns : turn[t].pc = "idle"
  /\ server' = "running"
  /\ restart
  /\ UNCHANGED <<turn, active>>

-----------------------------------------------------------------------------
(* Specification *)

TurnStep(t) ==
  \/ \E kind \in Kinds, p \in Turns \union {0} : Begin(t, kind, p)
  \/ Connect(t) \/ ConnectFails(t) \/ LeavesEarly(t)
  \/ \E e \in Answers : NativeTerminal(t, e)
  \/ NativeEnds(t) \/ InspectionEnds(t) \/ NativeRelayEnds(t) \/ NativeClientLeaves(t)
  \/ \E e \in Answers : BridgeEnds(t, e)
  \/ BridgeStalls(t) \/ BridgeRelayEnds(t) \/ BridgeClientLeaves(t)
  \/ Relay(t)

Next == (\E t \in Turns : TurnStep(t)) \/ Persist \/ Pass \/ Drain \/ Stop \/ Crash \/ Restart

\* The pumps of the server go on.  An adapter whose fetch is aborted comes to
\* its end, and the timer of the bridge fires when an adapter says nothing.
\* The clients, the upstreams and the server itself owe nothing.
Fairness ==
  \A t \in Turns :
    /\ WF_vars(InspectionEnds(t))
    /\ WF_vars(BridgeStalls(t))
    /\ WF_vars(turn[t].upstream = "aborted" /\ \E e \in Answers : BridgeEnds(t, e))

Spec == Init /\ [][Next]_vars /\ Fairness

-----------------------------------------------------------------------------
(* Properties *)

\* What turn t was recorded with is all of its conversation: what its
\* predecessor was recorded with, and itself.
isWhole(t) ==
  LET p == turn[t].prev IN
    recorded[t].items = IF p = 0 THEN <<t>> ELSE Append(recorded[p].items, t)

\* A native turn is recorded with all of its conversation or not at all,
\* whatever was saved, lost or pruned since its predecessor: so no later turn
\* is sent a truncated conversation for it.
NativeReplaysAreWhole ==
  \A t \in Turns : isNative(t) /\ recorded[t] # None => isWhole(t)

\* The bridge sends one terminal event, whatever follows a stall or a failure
\* of its adapter, and that is what the log says of the turn, unless the
\* client left before it.
LogIsWhatTheClientSaw ==
  \A t \in Turns :
    /\ ~isNative(t) /\ turn[t].seen # <<>> => turn[t].seen = <<turn[t].log>>
    /\ turn[t].log = "cancelled" /\ ~isNative(t) => turn[t].seen = <<>>

\* No turn goes without its entry in the request log, also when its client
\* leaves at any time, and a native turn has the outcome there that it has
\* for the account.
OverTurnsAreLogged ==
  \A t \in Turns :
    /\ turn[t].pc = "over" => turn[t].log # None
    /\ turn[t].outcome # None => turn[t].log = turn[t].outcome

\* The stream of a turn whose client is done comes to its end, and so does
\* that of a bridged turn in any case: the drain waits for none for ever.
StreamsAreReleased ==
  \A t \in Turns :
    isStreaming(t) /\ (turn[t].closed \/ ~isNative(t)) ~> ~turn[t].reading

\* The store is a lossy cache: through crashes, restarts, snapshots, caps and
\* expiry, a turn is sent the conversation just as it was recorded, and not
\* past its time to live, or none.
Cache == INSTANCE ContinuationCache WITH Ids <- Turns, answer <- [t \in Turns |-> turn[t].body]
CacheSpec == Cache!Spec

=============================================================================
