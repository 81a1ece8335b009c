---------------------------- MODULE ComboFailover ----------------------------
(***************************************************************************)
(* Combos: one model name served by several provider/model targets, picked *)
(* in order (failover) or by smooth weighted round robin with a sticky     *)
(* target, with a cooldown for a target that failed.                       *)
(*                                                                         *)
(* The selection state and the cooldowns of src/src/combos/resolve.ts and  *)
(* failover.ts belong to a combo and are shared by all its requests.  A    *)
(* request (handleComboResponses in server/responses.ts) picks a target,   *)
(* awaits the child request, may await the body of a failure, and then     *)
(* advances to another target; between two awaits it does not yield.       *)
(* Everything is per combo, so the module has a single one.                *)
(*                                                                         *)
(* A target is its targetKey; every target has a provider of its own that  *)
(* an operator enables and disables.  Logs and usage are left out.         *)
(***************************************************************************)
EXTENDS Integers, FiniteSets, Sequences, FiniteSetsExt, SequencesExt

CONSTANTS
  Targets,      \* the "provider/model" keys
  Requests,     \* the requests of a behaviour
  None,         \* no combo, no target, no failure
  Configs,      \* what an operator may save: normalized combo configurations
  Failures,     \* failed child responses, as [status, code]
  Cooldowns,    \* what parseRetryAfterMs or the default adds to the clock
  MaxNow,       \* bound: the clock
  MaxCommands   \* bound: operator commands

\* The callbacks of a native passthrough stream.
Callbacks == {"terminal", "cancel"}

\* What comboConfigIssues lets through: targets are distinct and at least
\* one, weights and the sticky limit are positive.
ASSUME ConfigsAssumption ==
  \A c \in Configs :
    /\ c.strategy \in {"failover", "round-robin"}
    /\ c.stickyLimit \in Nat \ {0}
    /\ c.targets \in Seq(Targets) /\ Len(c.targets) > 0
    /\ \A i, j \in DOMAIN c.targets : c.targets[i] = c.targets[j] => i = j
    /\ c.weight \in [Targets -> Nat \ {0}]

\* A configuration names finitely many providers and models.
ASSUME TargetsAssumption == IsFiniteSet(Targets)

ASSUME BoundsAssumption ==
  /\ None \notin Targets /\ None \notin Configs
  /\ None \notin Failures /\ None \notin Callbacks
  /\ \A f \in Failures : f.status \in Nat
  /\ Cooldowns \subseteq Nat \ {0}
  /\ MaxNow \in Nat
  /\ MaxCommands \in Nat

VARIABLES
  now,            \* Date.now()
  combo,          \* config.combos[id], None when deleted
  enabled,        \* targets whose provider exists and is not disabled
  activeKey,      \* selectionState: the sticky target
  successes,      \*   its successes since it became active
  currentWeights, \*   the smooth weights
  cooldownUntil,  \* targetCooldowns, 0 when there is none
  req,            \* the requests
  gate,           \* one callback gate per attempt of a request
  published,      \* what a request's gates passed on, in order
  commands        \* how many operator commands were given

selection == <<activeKey, successes, currentWeights>>
config    == <<combo, enabled, commands>>
callbacks == <<gate, published>>
vars == <<now, config, selection, cooldownUntil, req, callbacks>>

NotStarted == [pc |-> "idle", aborted |-> FALSE, target |-> None,
               attempted |-> {}, snapshot |-> None, failure |-> None]
Closed     == [state |-> "none", pending |-> None]

\* answered: the child's success; stopped, exhausted: the last failure;
\* thrown: the combo was deleted, or the child request threw.
Answered == {"answered", "stopped", "exhausted", "unknown", "unavailable",
             "cancelled", "thrown"}

TypeOK ==
  /\ now \in 0..MaxNow
  /\ combo \in Configs \union {None}
  /\ enabled \subseteq Targets
  /\ activeKey \in Targets \union {None}
  /\ successes \in Nat
  /\ activeKey = None => successes = 0
  /\ currentWeights \in [Targets -> Int]
  /\ cooldownUntil \in [Targets -> Nat]
  /\ req \in [Requests ->
       [pc : {"idle", "waiting", "consuming"} \union Answered,
        aborted : BOOLEAN, target : Targets \union {None},
        attempted : SUBSET Targets, snapshot : Configs \union {None},
        failure : Failures \union {None}]]
  /\ \A r \in Requests : req[r].pc \in {"waiting", "consuming"} =>
       req[r].target \in req[r].attempted /\ req[r].snapshot \in Configs
  /\ gate \in [Requests -> [Targets ->
       [state : {"none", "pending", "committed", "discarded"},
        pending : Callbacks \union {None}]]]
  /\ published \in [Requests -> Seq(Targets \X Callbacks)]
  /\ commands \in 0..MaxCommands

-----------------------------------------------------------------------------
(* Picking a target *)

isComboTargetInCooldown(t) == cooldownUntil[t] > now

targetsOf(c) == ToSet(c.targets)

position(c, t) == CHOOSE i \in DOMAIN c.targets : c.targets[i] = t

earliest(c, S) == CHOOSE t \in S : \A u \in S : position(c, t) <= position(c, u)

score(c, t) == currentWeights[t] + c.weight[t]

\* The first target with the greatest score.
heaviest(c, S) ==
  earliest(c, {t \in S : \A u \in S : score(c, u) <= score(c, t)})

\* Fault: the weights of all the targets are taken from the winner.
weightsAfterAll(c, S) ==
  [t \in Targets |->
     IF t \notin S THEN currentWeights[t]
     ELSE IF t # heaviest(c, S) THEN score(c, t)
     ELSE score(c, t) - MapThenSumSet(LAMBDA u : c.weight[u], targetsOf(c))]

\* smoothWeightedIndex: every eligible target gains its weight and the
\* winner pays for all of them.
weightsAfter(c, S) ==
  [t \in Targets |->
     IF t \notin S THEN currentWeights[t]
     ELSE IF t # heaviest(c, S) THEN score(c, t)
     ELSE score(c, t) - MapThenSumSet(LAMBDA u : c.weight[u], S)]

\* Fault: a sticky target that cannot serve is not replaced at once.
pickedFromSticky(c, S) ==
  IF S = {} THEN None
  ELSE IF c.strategy = "failover" THEN earliest(c, S)
  ELSE IF activeKey \in S THEN activeKey
  ELSE IF activeKey # None THEN None
  ELSE heaviest(c, S)

\* The target that pickComboTarget returns when S is what may be picked.
pickedFrom(c, S) ==
  IF S = {} THEN None
  ELSE IF c.strategy = "failover" THEN earliest(c, S)
  ELSE IF activeKey \in S THEN activeKey
  ELSE heaviest(c, S)

\* What picking from S does to the selection state, when key is the sticky
\* target by then (a failure of the caller may have cleared it).
select(c, S) ==
  IF c.strategy = "failover" \/ activeKey \in S
    THEN UNCHANGED selection
    ELSE /\ activeKey' = pickedFrom(c, S)
         /\ successes' = 0
         /\ currentWeights' = IF S = {} THEN currentWeights ELSE weightsAfter(c, S)

\* What one request may pick when it has attempted the given targets.
eligible(c, attempted) ==
  {t \in targetsOf(c) \ attempted : t \in enabled /\ ~isComboTargetInCooldown(t)}

-----------------------------------------------------------------------------
(* The callback gate of one attempt *)

setGate(r, t, state, pending) ==
  gate' = [gate EXCEPT ![r][t] = [state |-> state, pending |-> pending]]

publish(r, t, value) ==
  published' = [published EXCEPT ![r] = Append(@, <<t, value>>)]

\* A native passthrough stream of the child ends or is cancelled.  The gate
\* accepts one of the two and drops whatever arrives later; pending also
\* stands for the accepted flag.
ChildCallback(r, t, value) ==
  LET g == gate[r][t] IN
  /\ g.state \in {"pending", "committed"}
  /\ g.pending = None
  /\ setGate(r, t, g.state, value)
  /\ IF g.state = "committed" THEN publish(r, t, value) ELSE UNCHANGED published
  /\ UNCHANGED <<now, config, selection, cooldownUntil, req>>

\* Fault: what arrived before the commit is forgotten.
commitForgets(r, t) ==
  /\ setGate(r, t, "committed", gate[r][t].pending)
  /\ UNCHANGED published

commit(r, t) ==
  LET early == gate[r][t].pending IN
  /\ setGate(r, t, "committed", early)
  /\ IF early # None THEN publish(r, t, early) ELSE UNCHANGED published

discard(r, t) ==
  /\ setGate(r, t, "discarded", None)
  /\ UNCHANGED published

-----------------------------------------------------------------------------
(* A request *)

finish(r, status) ==
  req' = [req EXCEPT ![r].pc = status, ![r].target = None,
                     ![r].failure = None, ![r].snapshot = None]

\* Fault: only the last target is left out of the next pick.
attemptedJustNow(r, t) == {t}

attemptedWith(r, t) == req[r].attempted \union {t}

attempt(r, c, t) ==
  req' = [req EXCEPT ![r].pc = "waiting", ![r].target = t, ![r].snapshot = c,
                     ![r].failure = None,
                     ![r].attempted = attemptedWith(r, t)]

openGate(r, t) == gate' = [gate EXCEPT ![r][t] = [Closed EXCEPT !.state = "pending"]]

\* The first pick, and the check for a client that is already gone.
Begin(r) ==
  /\ req[r].pc = "idle"
  /\ combo # None
  /\ LET S == eligible(combo, {})
         t == pickedFrom(combo, S)
     IN  /\ select(combo, S)
         /\ IF t = None \/ req[r].aborted
              THEN /\ finish(r, IF t = None THEN "unavailable" ELSE "cancelled")
                   /\ UNCHANGED gate
              ELSE attempt(r, combo, t) /\ openGate(r, t)
  /\ UNCHANGED <<now, config, cooldownUntil, published>>

BeginUnknown(r) ==
  /\ req[r].pc = "idle"
  /\ combo = None
  /\ finish(r, "unknown")
  /\ UNCHANGED <<now, config, selection, cooldownUntil, callbacks>>

isWaiting(r) == req[r].pc = "waiting"

\* The child request ended, one way or another, after the client went away,
\* or it threw, or it was the child that noticed: 499.
ChildCancelled(r) ==
  /\ isWaiting(r)
  /\ discard(r, req[r].target)
  /\ finish(r, IF req[r].aborted THEN "cancelled" ELSE "thrown")
  /\ UNCHANGED <<now, config, selection, cooldownUntil>>

Child499(r) ==
  /\ isWaiting(r)
  /\ discard(r, req[r].target)
  /\ finish(r, "cancelled")
  /\ UNCHANGED <<now, config, selection, cooldownUntil>>

\* Fault: the run of successes is one too long.
runIsOverLate(c) == successes + 1 > c.stickyLimit

runIsOver(c) == successes + 1 >= c.stickyLimit

\* noteComboSuccess, with the combo as it was when the request began.
noteComboSuccess(c, t) ==
  IF c.strategy # "round-robin" \/ activeKey # t
    THEN UNCHANGED selection
    ELSE /\ activeKey' = IF runIsOver(c) THEN None ELSE activeKey
         /\ successes' = IF runIsOver(c) THEN 0 ELSE successes + 1
         /\ UNCHANGED currentWeights

ChildSucceeded(r) ==
  /\ isWaiting(r)
  /\ ~req[r].aborted
  /\ noteComboSuccess(req[r].snapshot, req[r].target)
  /\ commit(r, req[r].target)
  /\ finish(r, "answered")
  /\ UNCHANGED <<now, config, cooldownUntil>>

\* The child failed and its body is still to be read.
ChildFailed(r, f) ==
  /\ isWaiting(r)
  /\ ~req[r].aborted
  /\ f.status # 499
  /\ discard(r, req[r].target)
  /\ req' = [req EXCEPT ![r].pc = "consuming", ![r].failure = f]
  /\ UNCHANGED <<now, config, selection, cooldownUntil>>

comboFailureDecision(f) ==
  IF f.status = 499 \/ f.code \in {"origin_rejected", "context_length_exceeded",
                                   "invalid_request_error"}
    THEN "stop"
  ELSE IF \/ f.status \in {401, 403, 404, 408, 429}
          \/ f.status >= 500
          \/ f.code \in {"permission_denied", "subscription_required",
                         "invalid_api_key", "insufficient_quota",
                         "rate_limit_exceeded", "server_is_overloaded",
                         "upstream_server_error"}
    THEN "hop"
  ELSE "stop"

isConsuming(r) == req[r].pc = "consuming"

\* Fault: a client that left while the body was read is not noticed.
clientIsGoneUnseen(r) == FALSE
clientIsGone(r) == req[r].aborted

FailureCancelled(r) ==
  /\ isConsuming(r)
  /\ clientIsGone(r)
  /\ finish(r, "cancelled")
  /\ UNCHANGED <<now, config, selection, cooldownUntil, callbacks>>

FailureStops(r) ==
  /\ isConsuming(r)
  /\ ~clientIsGone(r)
  /\ comboFailureDecision(req[r].failure) = "stop"
  /\ finish(r, "stopped")
  /\ UNCHANGED <<now, config, selection, cooldownUntil, callbacks>>

coolComboTarget(t) ==
  \E d \in Cooldowns : cooldownUntil' = [cooldownUntil EXCEPT ![t] = now + d]

\* noteComboFailure clears the sticky target if it is the one that failed;
\* the next pick then chooses afresh.
hops(r) ==
  /\ isConsuming(r)
  /\ ~clientIsGone(r)
  /\ comboFailureDecision(req[r].failure) = "hop"
  /\ coolComboTarget(req[r].target)

\* advanceComboAfterFailure.  The target that failed is among the attempted
\* ones, so it is not eligible: whether the sticky target was cleared before
\* the pick or by it comes to the same.
FailureHops(r) ==
  /\ hops(r)
  /\ combo # None
  /\ LET S == eligible(combo, req[r].attempted)
         t == pickedFrom(combo, S)
     IN  /\ select(combo, S)
         /\ IF t = None
              THEN finish(r, "exhausted") /\ UNCHANGED gate
              ELSE attempt(r, req[r].snapshot, t) /\ openGate(r, t)
  /\ UNCHANGED <<now, config, published>>

\* The combo was deleted meanwhile: pickComboTarget throws.
FailureThrows(r) ==
  /\ hops(r)
  /\ combo = None
  /\ IF activeKey = req[r].target
       THEN activeKey' = None /\ successes' = 0 /\ UNCHANGED currentWeights
       ELSE UNCHANGED selection
  /\ finish(r, "thrown")
  /\ UNCHANGED <<now, config, callbacks>>

-----------------------------------------------------------------------------
(* The client, the clock and the operator *)

Abort(r) ==
  /\ ~req[r].aborted
  /\ req[r].pc \in {"idle", "waiting", "consuming"}
  /\ req' = [req EXCEPT ![r].aborted = TRUE]
  /\ UNCHANGED <<now, config, selection, cooldownUntil, callbacks>>

Tick ==
  /\ now < MaxNow
  /\ now' = now + 1
  /\ UNCHANGED <<config, selection, cooldownUntil, req, callbacks>>

command ==
  /\ commands < MaxCommands
  /\ commands' = commands + 1
  /\ UNCHANGED <<now, req, callbacks>>

clearCombo ==
  /\ activeKey' = None
  /\ successes' = 0
  /\ currentWeights' = [t \in Targets |-> 0]
  /\ cooldownUntil' = [t \in Targets |-> 0]

\* PUT /api/combos.
PutCombo(c) ==
  /\ command
  /\ \E t \in targetsOf(c) : t \in enabled
  /\ combo' = c
  /\ clearCombo
  /\ UNCHANGED enabled

DeleteCombo ==
  /\ command
  /\ combo # None
  /\ combo' = None
  /\ clearCombo
  /\ UNCHANGED enabled

\* PATCH of a provider: enable or disable.
SwitchProvider(t) ==
  /\ command
  /\ enabled' = IF t \in enabled THEN enabled \ {t} ELSE enabled \union {t}
  /\ UNCHANGED <<combo, selection, cooldownUntil>>

-----------------------------------------------------------------------------
Init ==
  /\ now = 0
  /\ combo \in Configs
  /\ enabled = Targets
  /\ activeKey = None
  /\ successes = 0
  /\ currentWeights = [t \in Targets |-> 0]
  /\ cooldownUntil = [t \in Targets |-> 0]
  /\ req = [r \in Requests |-> NotStarted]
  /\ gate = [r \in Requests |-> [t \in Targets |-> Closed]]
  /\ published = [r \in Requests |-> <<>>]
  /\ commands = 0

RequestStep(r) ==
  \/ Begin(r)
  \/ BeginUnknown(r)
  \/ ChildCancelled(r)
  \/ Child499(r)
  \/ ChildSucceeded(r)
  \/ \E f \in Failures : ChildFailed(r, f)
  \/ FailureCancelled(r)
  \/ FailureStops(r)
  \/ FailureHops(r)
  \/ FailureThrows(r)

Next ==
  \/ \E r \in Requests : RequestStep(r) \/ Abort(r)
  \/ \E r \in Requests, t \in Targets, v \in Callbacks : ChildCallback(r, t, v)
  \/ Tick
  \/ \E c \in Configs : PutCombo(c)
  \/ DeleteCombo
  \/ \E t \in Targets : SwitchProvider(t)

Spec == Init /\ [][Next]_vars

-----------------------------------------------------------------------------
(* Properties *)

\* One request sends each target at most one child request: the hops end,
\* even when a cooldown runs out or the combo is replaced between two.
TargetsAreTriedOnce ==
  [][\A r \in Requests, t \in Targets :
       gate[r][t].state # "pending" /\ gate'[r][t].state = "pending"
       => gate[r][t].state = "none"]_vars

\* A child request goes to a target that belongs to the combo, is enabled
\* and is not cooling down, also when another request made it the sticky
\* target before it failed.
AttemptsGoToAvailableTargets ==
  [][\A r \in Requests, t \in Targets :
       gate[r][t].state # "pending" /\ gate'[r][t].state = "pending"
       => t \in targetsOf(combo) \cap enabled /\ ~isComboTargetInCooldown(t)]_vars

\* A request reports that no target is available, or its last failure, only
\* when every enabled target is cooling down or was already tried by it.
GivesUpOnlyWhenExhausted ==
  [][\A r \in Requests :
       req[r].pc \notin Answered /\ req'[r].pc \in {"unavailable", "exhausted"}
       => \A t \in targetsOf(combo) \cap enabled :
            isComboTargetInCooldown(t) \/ gate[r][t].state # "none"]_vars

\* The smooth weights of a combo always add up to nothing: whatever the
\* eligible targets gain in one pick, its winner pays.
WeightsAreBalanced == MapThenSumSet(LAMBDA t : currentWeights[t], Targets) = 0

\* The sticky target is given up in time: its run of successes never
\* reaches the greatest limit saved.  (A request that began before the combo
\* was replaced still counts by the limit it began with.)
StickyRunIsBounded ==
  successes > 0 => \E c \in Configs : successes < c.stickyLimit

\* The outcome passed on for a request is that of the attempt that answered
\* it, once, whether it came before or after the answer; the outcomes of
\* failed attempts are never passed on.
OutcomeIsTheWinners ==
  \A r \in Requests :
    LET won == {t \in Targets : gate[r][t].state = "committed"}
    IN  /\ won # {} <=> req[r].pc = "answered"
        /\ published[r] = <<>> => \A t \in won : gate[r][t].pending = None
        /\ published[r] # <<>> =>
             \E t \in won : published[r] = << <<t, gate[r][t].pending>> >>

\* When the client has gone away, the end of its request cools no target,
\* counts no success, moves no sticky target, and tries no other target.
CancelledLeavesNoTrace ==
  [][\A r \in Requests :
       (/\ req[r].aborted
        /\ req[r].pc \in {"waiting", "consuming"}
        /\ req'[r].pc # req[r].pc)
       => UNCHANGED <<selection, cooldownUntil, published>> /\ req'[r].pc \in Answered]_vars

-----------------------------------------------------------------------------
(* What the client sees *)

usable == IF combo = None THEN {} ELSE eligible(combo, {})

verdict(pc) ==
  CASE pc \in {"idle", "waiting", "consuming"}         -> "open"
    [] pc = "answered"                                 -> "answered"
    [] pc \in {"unavailable", "exhausted", "unknown"}  -> "refused"
    [] OTHER                                           -> "dropped"

\* The target that is asked, or the one whose answer was accepted.
current(q, g) ==
  CASE q.pc = "waiting"  -> q.target
    [] q.pc = "answered" -> CHOOSE t \in Targets : g[t].state = "committed"
    [] OTHER             -> None

\* What a request q with the gates g has done for its client, told p.
service(q, g, p) ==
  [asked |-> {t \in Targets : g[t].state # "none"}, current |-> current(q, g),
   verdict |-> verdict(q.pc), reader |-> IF q.aborted THEN "gone" ELSE "there",
   told |-> p]

client == [r \in Requests |-> service(req[r], gate[r], published[r])]

Client == INSTANCE FailoverRequests WITH Candidates <- Targets, Reports <- Callbacks

\* A combo gives each client one answer of one candidate: whatever hops,
\* cooldowns, late callbacks and commands there are, its requests behave as
\* those of FailoverRequests.
FailoverSpec == Client!Spec

=============================================================================
