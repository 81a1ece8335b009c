-------------------------- MODULE ContinuationCache --------------------------
(***************************************************************************)
(* What the continuation store of src/src/responses/state.ts promises to   *)
(* the turns that chain with previous_response_id: it is a lossy cache.    *)
(*                                                                         *)
(* A response is recorded once, with the conversation it ends.  A turn     *)
(* that names it is answered a miss, at any time and for any reason, or    *)
(* the whole conversation just as it was recorded, and that only while the *)
(* record is no older than its time to live.  Memory, snapshots, caps,     *)
(* crashes and restarts are below this specification: to it they are       *)
(* reasons for a miss.                                                     *)
(***************************************************************************)
EXTENDS Naturals, Sequences

CONSTANTS Ids, None, TTL

VARIABLES recorded, answer, now

\* A conversation is told by the turns that make it up.
Init ==
  /\ recorded = [i \in Ids |-> None]
  /\ answer = [i \in Ids |-> <<>>]
  /\ now = 0

\* Any conversation may end with response i.
RecordResponse(i) ==
  /\ recorded[i] = None /\ recorded'[i] # None
  /\ recorded'[i].items \in Seq(Ids)
  /\ recorded' = [recorded EXCEPT ![i] = [items |-> recorded'[i].items, createdAt |-> now]]
  /\ UNCHANGED <<answer, now>>

\* Turn i, which names response p, is answered from the cache.
Answer(i, p) ==
  /\ recorded[p] # None
  /\ now - recorded[p].createdAt <= TTL
  /\ answer' = [answer EXCEPT ![i] = recorded[p].items]
  /\ UNCHANGED <<recorded, now>>

Pass ==
  /\ now' = now + 1
  /\ UNCHANGED <<recorded, answer>>

Next ==
  \/ \E i \in Ids : RecordResponse(i)
  \/ \E i, p \in Ids : Answer(i, p)
  \/ Pass

Spec == Init /\ [][Next]_<<recorded, answer, now>>

=============================================================================
