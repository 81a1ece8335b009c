------------------------------ MODULE LoginFlow ------------------------------
(***************************************************************************)
(* The logins that the dashboard starts (startLoginFlow) while requests    *)
(* refresh the accounts of the same provider: the three maps of            *)
(* src/src/oauth/index.ts, the loopback callback flow of                   *)
(* src/src/oauth/callback-server.ts, and the commands of the management    *)
(* API.                                                                    *)
(*                                                                         *)
(* A flow opens (it may try a local token, discovers endpoints and builds  *)
(* its URL), waits for the browser's callback or for a paste, exchanges the*)
(* code, and saves the credential.  The maps have one entry for a provider,*)
(* which is why a flow that was cancelled, and ends later, touches those of*)
(* the flow that came after it.                                            *)
(*                                                                         *)
(* A pasted redirect URL names its attempt by its state; a raw code names  *)
(* none, but is of use only to the flow that asked for it (PKCE).          *)
(***************************************************************************)
EXTENDS ProviderAccounts

CONSTANTS
  Flows,   \* the attempts to log in, by number
  Server   \* the process that serves the dashboard

ASSUME FlowsAssumption == Flows \subseteq Nat \ {0} /\ Server \in Processes

VARIABLES
  flow,        \* the attempts
  loginState,  \* loginState: None, "progress", "done" or "failed"
  loginAbort,  \* loginAbort: the flow whose controller it is, or None
  slot         \* loginManual: None or a slot

flowVars == <<flow, loginState, loginAbort, slot>>
vars == <<flowVars, accountVars>>

Inputs == [kind : {"url", "raw"}, of : Flows]
Slot == [input : Inputs \union {None}, waiter : Flows \union {None},
         expected : Flows \union {None}]
EmptySlot == [input |-> None, waiter |-> None, expected |-> None]

\* target: reauthAccountId; aborted: by a cancel; code: what is exchanged; who,
\* cred: the account and the credential that came of it.
Unstarted == [pc |-> "idle", target |-> None, aborted |-> FALSE, code |-> None,
              who |-> None, cred |-> 0]
FlowRecord ==
  [pc : {"idle", "opening", "waiting", "exchanging", "verifying", "saving", "over", "spinning"},
   target : Accounts \union {None}, aborted : BOOLEAN, code : Inputs \union {None},
   who : Accounts \union {None}, cred : Ids \union {0}]

TypeOK ==
  /\ AccountsTypeOK
  /\ flow \in [Flows -> FlowRecord]
  /\ loginState \in {None, "progress", "done", "failed"}
  /\ loginAbort \in Flows \union {None}
  /\ slot \in Slot \union {None}

Init ==
  /\ AccountsInit
  /\ flow = [f \in Flows |-> Unstarted]
  /\ loginState = None /\ loginAbort = None /\ slot = None

in(f, pc) == flow[f].pc = pc
isUnder(f) == flow[f].pc \notin {"idle", "over"}

\* A flow that loops without an await for the event loop stops the server.
isResponsive == \A f \in Flows : ~in(f, "spinning")

-----------------------------------------------------------------------------
(* The end of a flow *)

\* The then and catch of startLoginFlow, whoever owns the maps by now.
finished(state) ==
  /\ loginAbort' = None /\ slot' = None
  /\ loginState' = state

Over == [Unstarted EXCEPT !.pc = "over"]
over(f) == flow' = [flow EXCEPT ![f] = Over]

\* An open that is refused, a callback with an error, the timeout of the wait,
\* or an exchange that fails or is aborted.
FlowFails(f) ==
  /\ isResponsive
  /\ flow[f].pc \in {"opening", "waiting", "exchanging"}
  /\ over(f)
  /\ finished("failed")
  /\ UNCHANGED accountVars

-----------------------------------------------------------------------------
(* Steps of a flow *)

\* startLoginFlow, for a new login or for that of a stored account.
StartLogin(f, target) ==
  /\ isResponsive
  /\ in(f, "idle") /\ \A g \in Flows : in(g, "idle") => f <= g
  /\ loginState # "progress"
  /\ target = None \/ (target \in Accounts /\ isStored(target))
  /\ flow' = [flow EXCEPT ![f].pc = "opening", ![f].target = target]
  /\ loginState' = "progress" /\ loginAbort' = f /\ slot' = None
  /\ UNCHANGED accountVars

\* Fault: a pasted redirect URL need not be of this attempt.
anyPaste(f, input) == TRUE

\* The loop of #waitForCallback takes what was pasted.
isForFlow(f, input) == input.kind = "raw" \/ input.of = f

slotOf == IF slot = None THEN EmptySlot ELSE slot

\* The flow begins to wait, and takes what was pasted before.
Wait(f) ==
  /\ isResponsive
  /\ in(f, "opening") /\ ~flow[f].aborted
  /\ LET input == slotOf.input IN
       IF input # None /\ isForFlow(f, input)
       THEN /\ slot' = [slotOf EXCEPT !.expected = f, !.input = None]
            /\ flow' = [flow EXCEPT ![f].pc = "exchanging", ![f].code = input]
       ELSE /\ slot' = [slotOf EXCEPT !.expected = f, !.input = None, !.waiter = f]
            /\ flow' = [flow EXCEPT ![f].pc = "waiting"]
  /\ UNCHANGED <<loginState, loginAbort, accountVars>>

\* A flow that was cancelled before it waits: the signal is aborted already,
\* so that nothing rejects the wait, and each request of a paste is rejected
\* at once, for ever.
WaitAborted(f) ==
  /\ isResponsive
  /\ in(f, "opening") /\ flow[f].aborted
  /\ flow' = [flow EXCEPT ![f].pc = "spinning"]
  /\ UNCHANGED <<loginState, loginAbort, slot, accountVars>>

\* The browser's callback has the state of the flow.
Callback(f) ==
  /\ isResponsive
  /\ in(f, "waiting")
  /\ flow' = [flow EXCEPT ![f].pc = "exchanging", ![f].code = [kind |-> "url", of |-> f]]
  /\ UNCHANGED <<loginState, loginAbort, slot, accountVars>>

\* The exchange of the code of this flow; the user has signed in as account a.
\* Some providers do not abort it when the flow is cancelled.
ExchangeCode(f, a) ==
  /\ isResponsive
  /\ in(f, "exchanging") /\ flow[f].code.of = f
  /\ issues(a, 0)
  /\ flow' = [flow EXCEPT ![f].pc = IF flow[f].target # None THEN "verifying" ELSE "saving",
                          ![f].who = a, ![f].cred = next]
  /\ UNCHANGED <<loginState, loginAbort, slot, policy, row, active, past, flight,
                 verdicts, lock, mishaps>>

\* Fault: the identity of a reauthentication is not compared.
anyAccount(f) == isStored(flow[f].target)

\* runLogin: the account is still there, and it is the one that signed in.
isSameAccount(f) ==
  /\ isStored(flow[f].target)
  /\ flow[f].who = issued[row[flow[f].target].cred].owner

Verify(f) ==
  /\ isResponsive
  /\ in(f, "verifying")
  /\ IF isSameAccount(f)
     THEN flow' = [flow EXCEPT ![f].pc = "saving"] /\ UNCHANGED <<loginState, loginAbort, slot>>
     ELSE over(f) /\ finished("failed")
  /\ UNCHANGED accountVars

SaveLogin(f) ==
  /\ isResponsive
  /\ in(f, "saving")
  /\ IF flow[f].target # None THEN saveAccountCredential(flow[f].target, flow[f].cred)
     ELSE saveCredential(flow[f].who, flow[f].cred)
  /\ over(f)
  /\ finished("done")
  /\ UNCHANGED <<policy, grantVars, past, flight, verdicts, lock, mishaps>>

-----------------------------------------------------------------------------
(* Commands of the dashboard *)

\* submitManualLoginCode.  Only a flow that waits listens to its waiter.
Submit(input) ==
  /\ isResponsive
  /\ loginState = "progress"
  /\ input.kind = "raw" \/ slotOf.expected \in {None, input.of}
  /\ IF slotOf.waiter = None
     THEN slot' = [slotOf EXCEPT !.input = input] /\ UNCHANGED flow
     ELSE LET f == slotOf.waiter IN
          IF ~in(f, "waiting")
          THEN slot' = [slotOf EXCEPT !.waiter = None] /\ UNCHANGED flow
          ELSE IF isForFlow(f, input)
          THEN /\ slot' = [slotOf EXCEPT !.waiter = None]
               /\ flow' = [flow EXCEPT ![f].pc = "exchanging", ![f].code = input]
          ELSE UNCHANGED <<slot, flow>>
  /\ UNCHANGED <<loginState, loginAbort, accountVars>>

\* The abort of the flow in loginAbort.  A flow that waits ends at once, and
\* its catch runs right after the command.
aborting(state) ==
  LET f == loginAbort IN
  /\ IF f = None THEN UNCHANGED flow
     ELSE flow' = [flow EXCEPT ![f] = IF in(f, "waiting") THEN Over ELSE [@ EXCEPT !.aborted = TRUE]]
  /\ loginState' = IF f # None /\ in(f, "waiting") THEN "failed" ELSE state
  /\ loginAbort' = None /\ slot' = None

Cancel ==
  /\ isResponsive
  /\ loginAbort # None \/ loginState = "progress"
  /\ aborting("failed")
  /\ UNCHANGED accountVars

\* removeCredential, then clearLoginState.
Logout ==
  /\ isResponsive
  /\ active # None /\ removed(active)
  /\ aborting(None)
  /\ UNCHANGED <<policy, grantVars, past, flight, verdicts, lock, mishaps>>

\* DELETE of an account clears the state of the login when it was the last.
RemoveAccount(a) ==
  /\ isResponsive
  /\ removed(a)
  /\ IF \A b \in Accounts \ {a} : ~isStored(b) THEN aborting(None) ELSE UNCHANGED flowVars
  /\ UNCHANGED <<policy, grantVars, past, flight, verdicts, lock, mishaps>>

SetActive(a) == isResponsive /\ setActiveAccount(a) /\ UNCHANGED flowVars

-----------------------------------------------------------------------------
(* Specification *)

\* A crash of the server ends its flows and empties its maps.
Crash(p) ==
  /\ crashed(p)
  /\ IF p = Server
     THEN /\ flow' = [f \in Flows |-> IF in(f, "idle") THEN flow[f] ELSE Over]
          /\ loginState' = None /\ loginAbort' = None /\ slot' = None
     ELSE UNCHANGED flowVars

FlowStep(f) ==
  \/ \E a \in Accounts \union {None} : StartLogin(f, a)
  \/ Wait(f) \/ WaitAborted(f) \/ Callback(f)
  \/ \E a \in Accounts : ExchangeCode(f, a)
  \/ Verify(f) \/ SaveLogin(f) \/ FlowFails(f)

Refresh(p, a) ==
  /\ p = Server => isResponsive
  /\ RefreshStep(p, a)
  /\ UNCHANGED flowVars

Next ==
  \/ \E f \in Flows : FlowStep(f)
  \/ \E input \in Inputs : flow[input.of].pc # "idle" /\ Submit(input)
  \/ Cancel \/ Logout
  \/ \E a \in Accounts : RemoveAccount(a) \/ SetActive(a) \/ (Expires(a) /\ UNCHANGED flowVars)
  \/ \E p \in Processes : Crash(p) \/ \E a \in Accounts : Refresh(p, a)
  \/ \E p \in Processes, c \in Ids : Forget(p, c) /\ UNCHANGED flowVars

\* Every wait has its timeout: that for the callback, and those of the
\* requests to the provider.
Fairness == \A f \in Flows : WF_vars(FlowFails(f)) /\ WF_vars(Verify(f)) /\ WF_vars(SaveLogin(f))

Spec == Init /\ [][Next]_vars /\ Fairness

-----------------------------------------------------------------------------
(* Properties *)

\* A flow exchanges a redirect URL of its own attempt only, whichever
\* attempts were cancelled before it and whatever was pasted early.
PastesStayInTheirLogin ==
  \A f \in Flows : flow[f].code # None /\ flow[f].code.kind = "url" => flow[f].code.of = f

\* Expected by the cancel command: a login that is cancelled ends.
CancelledLoginsEnd == \A f \in Flows : flow[f].aborted ~> ~isUnder(f)

=============================================================================
