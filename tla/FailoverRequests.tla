-------------------------- MODULE FailoverRequests --------------------------
(***************************************************************************)
(* What a combo (handleComboResponses of src/src/server/responses.ts)      *)
(* promises to a client: one answer of one candidate.                      *)
(*                                                                         *)
(* A request asks candidates one after the other, each at most once, and   *)
(* only usable ones.  It takes the answer of the one it is asking, and     *)
(* from then on what that one reports at the end of its stream is passed   *)
(* on, once.  It gives up for want of candidates only when it has asked    *)
(* all the usable ones, and does nothing more for a client that has left.  *)
(* Which candidate is next, and why one is usable, is not said here: the   *)
(* combo, its selection, its cooldowns and the operator are the            *)
(* surroundings, which change at any time.                                 *)
(***************************************************************************)
EXTENDS Sequences

CONSTANTS Requests, Candidates, Reports, None

VARIABLES
  usable,  \* the candidates that may be asked now
  client   \* what each client has asked for and was told

\* asked: the candidates asked so far; current: the one that is asked now, or
\* that answered; reader: whether the client is there or gone; told: the reports
\* that were passed on.
Unserved ==
  [asked |-> {}, current |-> None, verdict |-> "open", reader |-> "there", told |-> <<>>]

Init ==
  /\ usable \subseteq Candidates
  /\ client = [r \in Requests |-> Unserved]

-----------------------------------------------------------------------------
(* The steps of one request, from c to d *)

isOpen(c) == c.verdict = "open"
isGone(c) == c.reader = "gone"

Ask(c, d) ==
  /\ isOpen(c) /\ ~isGone(c) /\ c.current = None
  /\ \E t \in usable \ c.asked :
       d = [c EXCEPT !.asked = @ \union {t}, !.current = t]

Fail(c, d) ==
  /\ isOpen(c) /\ c.current # None
  /\ d = [c EXCEPT !.current = None]

\* The candidate may have reported before it answered.
Answer(c, d) ==
  /\ isOpen(c) /\ ~isGone(c) /\ c.current # None
  /\ \/ d = [c EXCEPT !.verdict = "answered"]
     \/ \E v \in Reports :
          d = [c EXCEPT !.verdict = "answered", !.told = << <<c.current, v>> >>]

Report(c, d) ==
  /\ c.verdict = "answered" /\ c.told = <<>>
  /\ \E v \in Reports : d = [c EXCEPT !.told = << <<c.current, v>> >>]

Refuse(c, d) ==
  /\ isOpen(c) /\ c.current = None
  /\ usable \subseteq c.asked
  /\ d = [c EXCEPT !.verdict = "refused"]

\* A failure is passed on, the candidate or the combo is no more, or the client
\* has left: the request ends without an answer.
Drop(c, d) ==
  /\ isOpen(c) /\ (isGone(c) \/ c.asked # {})
  /\ d = [c EXCEPT !.verdict = "dropped", !.current = None]

Leave(c, d) ==
  /\ isOpen(c) /\ ~isGone(c)
  /\ d = [c EXCEPT !.reader = "gone"]

Step(c, d) ==
  \/ Ask(c, d)
  \/ Fail(c, d)
  \/ Answer(c, d)
  \/ Report(c, d)
  \/ Refuse(c, d)
  \/ Drop(c, d)
  \/ Leave(c, d)

-----------------------------------------------------------------------------
\* Requests are independent: each makes a step, or none.
Next ==
  /\ usable' \subseteq Candidates
  /\ \A r \in Requests :
       LET c == client[r]  d == client'[r] IN d = c \/ Step(c, d)

Spec == Init /\ [][Next]_<<usable, client>>

=============================================================================
