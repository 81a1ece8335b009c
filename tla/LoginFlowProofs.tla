--------------------------- MODULE LoginFlowProofs ---------------------------
(***************************************************************************)
(* Proofs about LoginFlow and the ProviderAccounts that it composes, for   *)
(* any accounts, processes and flows, and for either policy.               *)
(*                                                                         *)
(* The argument is about what is known of a credential.  Whatever is in a  *)
(* row, in a refresh or in a flow was issued for its account.  With the    *)
(* policy of xAI a refresh from the exchange on holds the lock of its      *)
(* account, or has a grant that was overtaken with the lock; what it brings *)
(* is of no use to anybody until it is saved, and is alive when it is; and *)
(* a row's grant that is used up belongs to the refresh that is about to   *)
(* replace it, or is lost.                                                 *)
(***************************************************************************)
EXTENDS LoginFlow, SequenceTheorems, TLAPS

isOf(c, a) == c \in DOMAIN issued /\ issued[c].owner = a

\* What a refresh or a flow has in hand, and to whom it belongs.
FlightIsOwned(p, a) ==
  /\ at(p, a, "idle") => flight[p][a].cred = 0
  /\ ~at(p, a, "idle") => isOf(flight[p][a].cred, a)
  /\ at(p, a, "saving") => /\ isOf(flight[p][a].new, a)
                           /\ issued[flight[p][a].new].from = flight[p][a].cred
  /\ at(p, a, "marking") => flight[p][a].cred \notin alive
  /\ lock[a] = p => flight[p][a].pc \in {"exchanging", "saving", "marking"}

isPending(f) == flow[f].pc \in {"verifying", "saving"}

FlowIsOwned(f) ==
  isPending(f) =>
    /\ flow[f].who \in Accounts
    /\ flow[f].cred \in DOMAIN issued
    /\ issued[flow[f].cred] = [owner |-> flow[f].who, from |-> 0]
    /\ in(f, "saving") /\ flow[f].target # None => flow[f].who = flow[f].target

CodeIsOwn(f) == flow[f].code # None /\ flow[f].code.kind = "url" => flow[f].code.of = f

\* With the policy of xAI.
isUsed(c) ==
  \/ \E a \in Accounts : isStored(a) /\ row[a].cred = c
  \/ \E p \in Processes, a \in Accounts : flight[p][a].cred = c

FlightIsSafe(p, a) ==
  /\ flight[p][a].pc \in {"exchanging", "saving", "marking"}
       => lock[a] = p \/ flight[p][a].cred \in overtaken
  /\ flight[p][a].pc \in {"exchanging", "marking"} /\ flight[p][a].cred \notin alive
       => flight[p][a].cred \in lost \union overtaken
  /\ at(p, a, "saving") =>
       /\ flight[p][a].new \in alive /\ ~isUsed(flight[p][a].new)
       /\ \A q \in Processes \ {p} : at(q, a, "saving") => flight[q][a].new # flight[p][a].new

RowIsSafe(a) ==
  isStored(a) =>
    /\ \/ row[a].cred \in alive \union lost
       \/ \E p \in Processes : at(p, a, "saving") /\ flight[p][a].cred = row[a].cred
    /\ row[a].reauth => row[a].cred \in (lost \union overtaken) \ alive

FlowIsSafe(f) ==
  isPending(f) =>
    /\ flow[f].cred \in alive /\ ~isUsed(flow[f].cred)
    /\ \A g \in Flows \ {f} : isPending(g) => flow[g].cred # flow[f].cred

Inv ==
  /\ TypeOK
  /\ alive \subseteq DOMAIN issued
  /\ \A a \in Accounts : isStored(a) => isOf(row[a].cred, a)
  /\ \A p \in Processes, a \in Accounts : FlightIsOwned(p, a)
  /\ \A f \in Flows : FlowIsOwned(f) /\ CodeIsOwn(f)
  /\ isLocked => /\ \A p \in Processes, a \in Accounts : FlightIsSafe(p, a)
                 /\ \A a \in Accounts : RowIsSafe(a)
                 /\ \A f \in Flows : FlowIsSafe(f)

-----------------------------------------------------------------------------
(* Steps in which the provider issues nothing *)

\* A row is removed, keeps its credential, or takes one that nobody else has
\* in hand afterwards.
isLeft(c) ==
  /\ \A p \in Processes, a \in Accounts : at(p, a, "saving") => flight[p][a].new # c
  /\ \A f \in Flows : isPending(f) => flow[f].cred # c

RowGoesOn(a) ==
  \/ row'[a] = None
  \/ /\ row[a] # None /\ row'[a] # None /\ row'[a].cred = row[a].cred
     /\ isLocked /\ row'[a].reauth
          => row[a].reauth \/ row[a].cred \in (lost' \union overtaken') \ alive
  \/ \E c \in Ids : /\ row'[a] = stored(c) /\ isOf(c, a)
                    /\ isLocked => c \in alive /\ isLeft(c)'

FlightGoesOn(p, a) ==
  \/ /\ flight'[p][a] = flight[p][a] /\ (lock'[a] = p => lock[a] = p)
     /\ isLocked /\ flight[p][a].pc \in {"exchanging", "saving", "marking"}
          => lock'[a] = p \/ flight[p][a].cred \in overtaken'
  \/ /\ FlightIsOwned(p, a)'
     /\ isLocked =>
          /\ flight'[p][a].pc # "saving"
          /\ flight'[p][a].pc \in {"exchanging", "marking"} =>
               /\ lock'[a] = p \/ flight'[p][a].cred \in overtaken'
               /\ flight'[p][a].cred \in alive \union lost' \union overtaken'
          /\ flight'[p][a].cred = 0 \/ isUsed(flight'[p][a].cred)
          /\ at(p, a, "saving") /\ row'[a] # None /\ row'[a].cred = flight[p][a].cred
               => flight[p][a].cred \in lost'

FlowGoesOn(f) ==
  /\ CodeIsOwn(f)'
  /\ isPending(f)' =>
       /\ isPending(f)
       /\ flow'[f].who = flow[f].who /\ flow'[f].cred = flow[f].cred
       /\ flow'[f].pc = "saving" /\ flow'[f].target # None => flow[f].who = flow'[f].target

LEMMA Quiet ==
  ASSUME Inv, TypeOK', policy' = policy, UNCHANGED grantVars,
         lost \subseteq lost', overtaken \subseteq overtaken',
         \A a \in Accounts : RowGoesOn(a),
         \A p \in Processes, a \in Accounts : FlightGoesOn(p, a),
         \A f \in Flows : FlowGoesOn(f)
  PROVE  Inv'
<1>0. /\ issued' = issued /\ alive' = alive /\ isLocked' = isLocked
      /\ alive \subseteq DOMAIN issued
  BY DEF grantVars, isLocked, Inv
<1>1. ASSUME NEW a \in Accounts, row'[a] # None PROVE isOf(row[a].cred, a)'
  <2>1. CASE row[a] # None /\ row'[a].cred = row[a].cred
    BY <1>0, <2>1 DEF Inv, isStored, isOf
  <2>2. CASE \E c \in Ids : row'[a] = stored(c) /\ isOf(c, a)
    <3>1. PICK c \in Ids : row'[a] = stored(c) /\ isOf(c, a)
      BY <2>2
    <3>2. row'[a].cred = c
      BY <3>1 DEF stored
    <3> QED BY <1>0, <3>1, <3>2 DEF isOf
  <2> QED BY <1>1, <2>1, <2>2 DEF RowGoesOn
<1>2. ASSUME NEW p \in Processes, NEW a \in Accounts PROVE FlightIsOwned(p, a)'
  <2>1. FlightIsOwned(p, a)
    BY DEF Inv
  <2>2. CASE flight'[p][a] = flight[p][a] /\ (lock'[a] = p => lock[a] = p)
    BY <1>0, <2>1, <2>2 DEF FlightIsOwned, at, isOf
  <2>3. CASE FlightIsOwned(p, a)'
    BY <2>3
  <2> QED BY <2>2, <2>3 DEF FlightGoesOn
<1>3. ASSUME NEW f \in Flows PROVE FlowIsOwned(f)' /\ CodeIsOwn(f)'
  BY <1>0 DEF Inv, FlowGoesOn, FlowIsOwned, isPending, in
<1>4. ASSUME isLocked
      PROVE  /\ \A p \in Processes, a \in Accounts : FlightIsSafe(p, a)'
             /\ \A a \in Accounts : RowIsSafe(a)'
             /\ \A f \in Flows : FlowIsSafe(f)'
  <2>1. /\ \A p \in Processes, a \in Accounts : FlightIsSafe(p, a) /\ FlightIsOwned(p, a)
        /\ \A a \in Accounts : RowIsSafe(a)
        /\ \A f \in Flows : FlowIsSafe(f) /\ FlowIsOwned(f)
    BY <1>4 DEF Inv
  <2>2. 0 \notin DOMAIN issued
    BY DEF Inv, TypeOK, AccountsTypeOK
  <2>3. ASSUME NEW c, isUsed(c)', c # 0
        PROVE  isUsed(c) \/ (c \in alive /\ isLeft(c)')
    <3>1. ASSUME NEW a \in Accounts, row'[a] # None, row'[a].cred = c
          PROVE  isUsed(c) \/ (c \in alive /\ isLeft(c)')
      <4>1. CASE row[a] # None /\ row'[a].cred = row[a].cred
        BY <3>1, <4>1 DEF isUsed, isStored
      <4>2. CASE \E d \in Ids : row'[a] = stored(d) /\ d \in alive /\ isLeft(d)'
        <5>1. PICK d \in Ids : row'[a] = stored(d) /\ d \in alive /\ isLeft(d)'
          BY <4>2
        <5>2. d = c
          BY <3>1, <5>1 DEF stored
        <5> QED BY <5>1, <5>2
      <4> QED BY <1>4, <3>1, <4>1, <4>2 DEF RowGoesOn
    <3>2. ASSUME NEW p \in Processes, NEW a \in Accounts, flight'[p][a].cred = c
          PROVE  isUsed(c)
      BY <1>4, <2>3, <3>2 DEF FlightGoesOn, isUsed
    <3> QED BY <2>3, <3>1, <3>2 DEF isUsed, isStored
  <2>4. ASSUME NEW p \in Processes, NEW a \in Accounts PROVE FlightIsSafe(p, a)'
    <3>1. CASE flight'[p][a] = flight[p][a]
               /\ (flight[p][a].pc \in {"exchanging", "saving", "marking"}
                     => lock'[a] = p \/ flight[p][a].cred \in overtaken')
      <4>1. at(p, a, "saving") => flight[p][a].new # 0
        BY <2>1, <2>2 DEF FlightIsOwned, isOf
      <4>2. at(p, a, "saving") => ~isUsed(flight[p][a].new)'
        BY <2>1, <2>3, <3>1, <4>1 DEF FlightIsSafe, isLeft, at
      <4>3. ASSUME at(p, a, "saving"), NEW q \in Processes \ {p}, (at(q, a, "saving"))'
            PROVE  flight'[q][a].new # flight'[p][a].new
        <5>1. flight'[q][a] = flight[q][a]
          BY <1>4, <4>3 DEF FlightGoesOn, at
        <5> QED BY <2>1, <3>1, <4>3, <5>1 DEF FlightIsSafe, at
      <4> QED BY <1>0, <2>1, <3>1, <4>2, <4>3 DEF FlightIsSafe, at
    <3>2. CASE /\ flight'[p][a].pc # "saving"
               /\ flight'[p][a].pc \in {"exchanging", "marking"} =>
                    /\ lock'[a] = p \/ flight'[p][a].cred \in overtaken'
                    /\ flight'[p][a].cred \in alive \union lost' \union overtaken'
      BY <1>0, <3>2 DEF FlightIsSafe, at
    <3> QED BY <1>4, <3>1, <3>2 DEF FlightGoesOn
  <2>5. ASSUME NEW a \in Accounts PROVE RowIsSafe(a)'
    <3> SUFFICES ASSUME row'[a] # None PROVE RowIsSafe(a)'
      BY DEF RowIsSafe, isStored
    <3>1. CASE row[a] # None /\ row'[a].cred = row[a].cred
               /\ (row'[a].reauth =>
                     row[a].reauth \/ row[a].cred \in (lost' \union overtaken') \ alive)
      <4>1. ASSUME NEW p \in Processes, at(p, a, "saving"), flight[p][a].cred = row[a].cred
            PROVE  (at(p, a, "saving") /\ flight[p][a].cred = row[a].cred)'
                     \/ row'[a].cred \in lost'
        BY <1>4, <3>1, <4>1 DEF FlightGoesOn, at
      <4>2. RowIsSafe(a) /\ isStored(a)
        BY <2>1, <3>1 DEF isStored
      <4> QED BY <1>0, <3>1, <4>1, <4>2 DEF RowIsSafe
    <3>2. CASE \E c \in Ids : row'[a] = stored(c) /\ c \in alive
      BY <1>0, <3>2 DEF RowIsSafe, stored
    <3> QED BY <1>4, <3>1, <3>2 DEF RowGoesOn
  <2>6. ASSUME NEW f \in Flows PROVE FlowIsSafe(f)'
    <3> SUFFICES ASSUME isPending(f)' PROVE FlowIsSafe(f)'
      BY DEF FlowIsSafe
    <3>1. /\ isPending(f) /\ flow'[f].cred = flow[f].cred /\ flow[f].cred \in DOMAIN issued
          /\ flow[f].cred \in alive /\ ~isUsed(flow[f].cred)
      BY <2>1 DEF FlowGoesOn, FlowIsSafe, FlowIsOwned
    <3>2. ~isUsed(flow[f].cred)'
      BY <2>2, <2>3, <3>1 DEF isLeft
    <3>3. \A g \in Flows \ {f} : isPending(g)' => flow'[g].cred # flow'[f].cred
      BY <2>1, <3>1 DEF FlowGoesOn, FlowIsSafe
    <3> QED BY <1>0, <3>1, <3>2, <3>3 DEF FlowIsSafe
  <2> QED BY <2>4, <2>5, <2>6
<1> QED BY <1>0, <1>1, <1>2, <1>3, <1>4 DEF Inv, isStored

-----------------------------------------------------------------------------
(* Steps of the flows and commands, other than those that issue or store *)

cells == [a \in Accounts |-> IF isStored(a)
                             THEN [cred |-> row[a].cred, condemned |-> row[a].reauth]
                             ELSE None]
cellVars == <<isLocked, cells, issued, alive>>

MapsTyped ==
  /\ loginState \in {None, "progress", "done", "failed"}
  /\ loginAbort \in Flows \union {None}
  /\ slot \in Slot \union {None}

\* The accounts are left alone, but for which one is active.
LEMMA FlowsOnly ==
  ASSUME Inv, flow' \in [Flows -> FlowRecord], MapsTyped',
         UNCHANGED <<policy, row, grantVars, past, flight, verdicts, lock, mishaps>>,
         active' \in Accounts \union {None},
         \A f \in Flows : FlowGoesOn(f)
  PROVE  Inv' /\ UNCHANGED cellVars
<1>1. TypeOK'
  BY DEF Inv, TypeOK, AccountsTypeOK, MapsTyped, grantVars, past
<1>2. \A a \in Accounts : RowGoesOn(a)
  BY DEF RowGoesOn
<1>3. \A p \in Processes, a \in Accounts : FlightGoesOn(p, a)
  BY DEF FlightGoesOn, Inv, FlightIsSafe, past
<1>4. Inv'
  BY <1>1, <1>2, <1>3, Quiet DEF past
<1>5. UNCHANGED cellVars
  BY DEF cellVars, cells, isStored, isLocked, grantVars
<1> QED BY <1>4, <1>5

\* One flow goes on to r.
LEMMA OneFlow ==
  ASSUME Inv, NEW f \in Flows, NEW r \in FlowRecord, flow' = [flow EXCEPT ![f] = r],
         MapsTyped', UNCHANGED accountVars,
         r.code # None /\ r.code.kind = "url" => r.code.of = f,
         r.pc \in {"verifying", "saving"} =>
           /\ isPending(f) /\ r.who = flow[f].who /\ r.cred = flow[f].cred
           /\ r.pc = "saving" /\ r.target # None => flow[f].who = r.target
  PROVE  Inv' /\ UNCHANGED cellVars
<1>1. flow \in [Flows -> FlowRecord] /\ active \in Accounts \union {None}
  BY DEF Inv, TypeOK, AccountsTypeOK
<1>2. flow' \in [Flows -> FlowRecord] /\ flow'[f] = r
      /\ \A g \in Flows \ {f} : flow'[g] = flow[g]
  BY <1>1
<1>3. FlowGoesOn(f)
  BY <1>2 DEF FlowGoesOn, CodeIsOwn, isPending
<1>4. ASSUME NEW g \in Flows, g # f PROVE FlowGoesOn(g)
  <2>1. FlowIsOwned(g) /\ CodeIsOwn(g)
    BY DEF Inv
  <2> QED BY <1>2, <1>4, <2>1 DEF FlowGoesOn, FlowIsOwned, CodeIsOwn, isPending, in
<1> QED BY <1>1, <1>2, <1>3, <1>4, FlowsOnly DEF accountVars, grantVars, past

LEMMA FlowSteps ==
  ASSUME Inv, NEW f \in Flows,
         \/ \E a \in Accounts \union {None} : StartLogin(f, a)
         \/ Wait(f) \/ WaitAborted(f) \/ Callback(f) \/ Verify(f) \/ FlowFails(f)
  PROVE  Inv' /\ UNCHANGED cellVars
<1> DEFINE q == flow[f]
<1>0. /\ q \in FlowRecord /\ flow \in [Flows -> FlowRecord] /\ MapsTyped
      /\ q.code # None /\ q.code.kind = "url" => q.code.of = f
      /\ slotOf \in Slot
  BY DEF Inv, TypeOK, MapsTyped, CodeIsOwn, slotOf, Slot, EmptySlot
<1>1. ASSUME NEW a \in Accounts \union {None}, StartLogin(f, a) PROVE Inv' /\ UNCHANGED cellVars
  <2> DEFINE r == [q EXCEPT !.pc = "opening", !.target = a]
  <2>1. flow' = [flow EXCEPT ![f] = r]
    BY <1>1 DEF StartLogin
  <2> HIDE DEF q
  <2>2. r \in FlowRecord /\ r.pc = "opening" /\ r.code = q.code
    BY <1>0 DEF FlowRecord
  <2>3. MapsTyped' /\ UNCHANGED accountVars
    BY <1>1 DEF StartLogin, MapsTyped
  <2> HIDE DEF r
  <2> QED BY <1>0, <2>1, <2>2, <2>3, OneFlow
<1>2. CASE Wait(f)
  <2> DEFINE i == slotOf.input
             r == [q EXCEPT !.pc = "exchanging", !.code = i]
             w == [q EXCEPT !.pc = "waiting"]
  <2>1. i \in Inputs \union {None}
    BY <1>0 DEF Slot
  <2>2. CASE i # None /\ isForFlow(f, i)
    <3>1. flow' = [flow EXCEPT ![f] = r] /\ slot' = [slotOf EXCEPT !.expected = f, !.input = None]
      BY <1>2, <2>2 DEF Wait
    <3>2. MapsTyped' /\ UNCHANGED accountVars
      BY <1>0, <1>2, <3>1 DEF Wait, MapsTyped, Slot
    <3> HIDE DEF q, i
    <3>3. r \in FlowRecord /\ r.pc = "exchanging" /\ r.code = i
      BY <1>0, <2>1 DEF FlowRecord
    <3>4. i.kind = "url" => i.of = f
      BY <2>2 DEF isForFlow
    <3> HIDE DEF r
    <3> QED BY <3>1, <3>2, <3>3, <3>4, OneFlow
  <2>3. CASE ~(i # None /\ isForFlow(f, i))
    <3>1. flow' = [flow EXCEPT ![f] = w]
          /\ slot' = [slotOf EXCEPT !.expected = f, !.input = None, !.waiter = f]
      BY <1>2, <2>3 DEF Wait
    <3>2. MapsTyped' /\ UNCHANGED accountVars
      BY <1>0, <1>2, <3>1 DEF Wait, MapsTyped, Slot
    <3> HIDE DEF q
    <3>3. w \in FlowRecord /\ w.pc = "waiting" /\ w.code = q.code
      BY <1>0 DEF FlowRecord
    <3> HIDE DEF w
    <3> QED BY <1>0, <3>1, <3>2, <3>3, OneFlow
  <2> QED BY <2>2, <2>3
<1>3. CASE WaitAborted(f)
  <2> DEFINE r == [q EXCEPT !.pc = "spinning"]
  <2>1. flow' = [flow EXCEPT ![f] = r]
    BY <1>3 DEF WaitAborted
  <2>2. MapsTyped' /\ UNCHANGED accountVars
    BY <1>0, <1>3 DEF WaitAborted, MapsTyped
  <2> HIDE DEF q
  <2>3. r \in FlowRecord /\ r.pc = "spinning" /\ r.code = q.code
    BY <1>0 DEF FlowRecord
  <2> HIDE DEF r
  <2> QED BY <1>0, <2>1, <2>2, <2>3, OneFlow
<1>4. CASE Callback(f)
  <2> DEFINE i == [kind |-> "url", of |-> f]
             r == [q EXCEPT !.pc = "exchanging", !.code = i]
  <2>1. flow' = [flow EXCEPT ![f] = r]
    BY <1>4 DEF Callback
  <2>2. MapsTyped' /\ UNCHANGED accountVars
    BY <1>0, <1>4 DEF Callback, MapsTyped
  <2>3. i \in Inputs /\ i.of = f
    BY DEF Inputs
  <2> HIDE DEF q, i
  <2>4. r \in FlowRecord /\ r.pc = "exchanging" /\ r.code = i
    BY <1>0, <2>3 DEF FlowRecord
  <2> HIDE DEF r
  <2> QED BY <2>1, <2>2, <2>3, <2>4, OneFlow
<1>5. Over \in FlowRecord /\ Over.code = None /\ Over.pc = "over"
  BY DEF Over, Unstarted, FlowRecord
<1>6. CASE Verify(f)
  <2>1. CASE isSameAccount(f)
    <3> DEFINE r == [q EXCEPT !.pc = "saving"]
    <3>1. flow' = [flow EXCEPT ![f] = r]
      BY <1>6, <2>1 DEF Verify
    <3>2. MapsTyped' /\ UNCHANGED accountVars /\ q.pc = "verifying"
      BY <1>0, <1>6, <2>1 DEF Verify, MapsTyped, in
    <3>3. q.target # None => q.who = q.target
      <4>1. ASSUME q.target # None
            PROVE  q.target \in Accounts /\ row[q.target] # None
                   /\ q.who = issued[row[q.target].cred].owner
        BY <1>0, <2>1, <4>1 DEF isSameAccount, isStored, FlowRecord
      <4> QED BY <4>1 DEF Inv, isStored, isOf
    <3> HIDE DEF q
    <3>4. r \in FlowRecord /\ r.code = q.code /\ r.who = q.who /\ r.cred = q.cred
          /\ r.target = q.target
      BY <1>0 DEF FlowRecord
    <3> HIDE DEF r
    <3> QED BY <1>0, <3>1, <3>2, <3>3, <3>4, OneFlow DEF isPending, q
  <2>2. CASE ~isSameAccount(f)
    <3>1. flow' = [flow EXCEPT ![f] = Over] /\ MapsTyped' /\ UNCHANGED accountVars
      BY <1>6, <2>2 DEF Verify, over, finished, MapsTyped
    <3> QED BY <1>5, <3>1, OneFlow
  <2> QED BY <2>1, <2>2
<1>7. CASE FlowFails(f)
  <2>1. flow' = [flow EXCEPT ![f] = Over] /\ MapsTyped' /\ UNCHANGED accountVars
    BY <1>7 DEF FlowFails, over, finished, MapsTyped
  <2> QED BY <1>5, <2>1, OneFlow
<1> QED BY <1>1, <1>2, <1>3, <1>4, <1>6, <1>7

\* A record that only changes in fields that no property is about.
LEMMA UnchangedGoesOn ==
  ASSUME Inv, NEW f \in Flows, flow'[f] = flow[f]
  PROVE  FlowGoesOn(f)
BY DEF Inv, FlowGoesOn, FlowIsOwned, CodeIsOwn, isPending, in

LEMMA SubmitStep ==
  ASSUME Inv, NEW input \in Inputs, Submit(input)
  PROVE  Inv' /\ UNCHANGED cellVars
<1>0. flow \in [Flows -> FlowRecord] /\ MapsTyped /\ slotOf \in Slot
      /\ active \in Accounts \union {None}
  BY DEF Inv, TypeOK, AccountsTypeOK, MapsTyped, slotOf, Slot, EmptySlot
<1>1. /\ slot' \in {slot, [slotOf EXCEPT !.input = input], [slotOf EXCEPT !.waiter = None]}
      /\ loginState' = loginState /\ loginAbort' = loginAbort /\ UNCHANGED accountVars
  BY DEF Submit
<1>2. MapsTyped'
  BY <1>0, <1>1 DEF MapsTyped, Slot
<1>3. CASE flow' = flow
  <2>1. \A f \in Flows : FlowGoesOn(f)
    BY <1>3, UnchangedGoesOn
  <2> QED BY <1>0, <1>1, <1>2, <1>3, <2>1, FlowsOnly DEF accountVars, grantVars, past
<1>4. CASE flow' # flow
  <2> DEFINE f == slotOf.waiter
             r == [flow[f] EXCEPT !.pc = "exchanging", !.code = input]
  <2>1. f # None /\ isForFlow(f, input) /\ flow' = [flow EXCEPT ![f] = r]
    BY <1>4 DEF Submit
  <2>2. f \in Flows
    BY <1>0, <2>1 DEF Slot
  <2> HIDE DEF f
  <2>3. r \in FlowRecord /\ r.pc = "exchanging" /\ r.code = input
    BY <1>0, <2>2 DEF FlowRecord
  <2>4. input.kind = "url" => input.of = f
    BY <2>1 DEF isForFlow
  <2> HIDE DEF r
  <2> QED BY <1>1, <1>2, <2>1, <2>2, <2>3, <2>4, OneFlow
<1> QED BY <1>3, <1>4

LEMMA AbortingFlows ==
  ASSUME Inv, NEW state \in {None, "failed"}, aborting(state)
  PROVE  flow' \in [Flows -> FlowRecord] /\ MapsTyped' /\ \A f \in Flows : FlowGoesOn(f)
<1>0. flow \in [Flows -> FlowRecord] /\ loginAbort \in Flows \union {None}
  BY DEF Inv, TypeOK
<1>1. MapsTyped'
  BY DEF aborting, MapsTyped
<1>2. CASE loginAbort = None
  <2>1. flow' = flow
    BY <1>2 DEF aborting
  <2> QED BY <1>0, <1>1, <2>1, UnchangedGoesOn
<1>3. CASE loginAbort # None
  <2>1. PICK f \in Flows : f = loginAbort
    BY <1>0, <1>3
  <2> DEFINE s == [flow[f] EXCEPT !.aborted = TRUE]
             r == IF in(f, "waiting") THEN Over ELSE s
  <2>2. flow' = [flow EXCEPT ![f] = r]
    BY <1>3, <2>1 DEF aborting
  <2>3. Over \in FlowRecord /\ Over.code = None /\ Over.pc = "over"
    BY DEF Over, Unstarted, FlowRecord
  <2>4. s \in FlowRecord /\ s.pc = flow[f].pc /\ s.code = flow[f].code /\ s.who = flow[f].who
        /\ s.cred = flow[f].cred /\ s.target = flow[f].target
    BY <1>0 DEF FlowRecord
  <2> HIDE DEF s
  <2>5. r = Over \/ r = s
    OBVIOUS
  <2> HIDE DEF r
  <2>6. flow' \in [Flows -> FlowRecord] /\ flow'[f] = r
        /\ \A g \in Flows \ {f} : flow'[g] = flow[g]
    BY <1>0, <2>2, <2>3, <2>4, <2>5
  <2>7. FlowGoesOn(f)
    <3>1. FlowIsOwned(f) /\ CodeIsOwn(f)
      BY DEF Inv
    <3>2. CASE r = Over
      BY <2>3, <2>6, <3>2 DEF FlowGoesOn, CodeIsOwn, isPending
    <3>3. CASE r = s
      BY <2>4, <2>6, <3>1, <3>3 DEF FlowGoesOn, FlowIsOwned, CodeIsOwn, isPending, in
    <3> QED BY <2>5, <3>2, <3>3
  <2>8. ASSUME NEW g \in Flows PROVE FlowGoesOn(g)
    BY <2>6, <2>7, UnchangedGoesOn
  <2> QED BY <1>1, <2>6, <2>8
<1> QED BY <1>2, <1>3

LEMMA CancelStep ==
  ASSUME Inv, Cancel
  PROVE  Inv' /\ UNCHANGED cellVars
<1>1. aborting("failed") /\ UNCHANGED accountVars
  BY DEF Cancel
<1>2. active \in Accounts \union {None}
  BY DEF Inv, TypeOK, AccountsTypeOK
<1> QED BY <1>1, <1>2, AbortingFlows, FlowsOnly DEF accountVars, grantVars, past

LEMMA SetActiveStep ==
  ASSUME Inv, NEW a \in Accounts, SetActive(a)
  PROVE  Inv' /\ UNCHANGED cellVars
<1>1. flow' = flow /\ MapsTyped' /\ flow \in [Flows -> FlowRecord]
  BY DEF SetActive, flowVars, Inv, TypeOK, MapsTyped
<1>2. \A f \in Flows : FlowGoesOn(f)
  BY <1>1, UnchangedGoesOn
<1> QED BY <1>1, <1>2, FlowsOnly DEF SetActive, setActiveAccount

\* What a removal leaves of the accounts.
LEMMA RemovedRow ==
  ASSUME Inv, NEW a \in Accounts, removed(a),
         flow' \in [Flows -> FlowRecord], MapsTyped', \A f \in Flows : FlowGoesOn(f),
         UNCHANGED <<policy, grantVars, past, flight, verdicts, lock, mishaps>>
  PROVE  Inv' /\ [Cells!Next]_cellVars
<1>0. row \in [Accounts -> Row \union {None}] /\ active \in Accounts \union {None}
  BY DEF Inv, TypeOK, AccountsTypeOK
<1>1. row' = [row EXCEPT ![a] = None] /\ isStored(a)
  BY DEF removed
<1>2. row' \in [Accounts -> Row \union {None}]
  BY <1>0, <1>1
<1>3. active' \in Accounts \union {None}
  <2> DEFINE rest == {b \in Accounts \ {a} : isStored(b)}
  <2>1. active' \in IF active # a THEN {active} ELSE IF rest = {} THEN {None} ELSE rest
    BY DEF removed
  <2>2. rest \subseteq Accounts
    OBVIOUS
  <2> HIDE DEF rest
  <2> QED BY <1>0, <2>1, <2>2
<1>4. TypeOK'
  BY <1>2, <1>3 DEF Inv, TypeOK, AccountsTypeOK, MapsTyped, grantVars, past
<1>5. \A b \in Accounts : RowGoesOn(b)
  BY <1>0, <1>1 DEF RowGoesOn
<1>6. \A p \in Processes, b \in Accounts : FlightGoesOn(p, b)
  BY DEF FlightGoesOn, Inv, FlightIsSafe, past
<1>7. Inv'
  BY <1>4, <1>5, <1>6, Quiet DEF past
<1>8. Cells!Remove(a)
  <2>1. cells[a] # None
    BY <1>0, <1>1, AccountsAssumption DEF cells, isStored, Row, Ids
  <2>2. cells' = [cells EXCEPT ![a] = None]
    BY <1>0, <1>1 DEF cells, isStored
  <2> QED BY <2>1, <2>2 DEF Cells!Remove, cells
<1> QED BY <1>7, <1>8 DEF Cells!Next, isLocked

LEMMA RemovalSteps ==
  ASSUME Inv, Logout \/ \E a \in Accounts : RemoveAccount(a)
  PROVE  Inv' /\ [Cells!Next]_cellVars
<1>0. /\ flow \in [Flows -> FlowRecord] /\ MapsTyped /\ active \in Accounts \union {None}
  BY DEF Inv, TypeOK, AccountsTypeOK, MapsTyped
<1>1. CASE Logout
  BY <1>0, <1>1, AbortingFlows, RemovedRow DEF Logout
<1>2. ASSUME NEW a \in Accounts, RemoveAccount(a) PROVE Inv' /\ [Cells!Next]_cellVars
  <2>1. CASE aborting(None)
    BY <1>2, <2>1, AbortingFlows, RemovedRow DEF RemoveAccount
  <2>2. CASE UNCHANGED flowVars
    <3>1. flow' = flow /\ MapsTyped'
      BY <1>0, <2>2 DEF flowVars, MapsTyped
    <3>2. \A f \in Flows : FlowGoesOn(f)
      BY <3>1, UnchangedGoesOn
    <3> QED BY <1>0, <1>2, <3>1, <3>2, RemovedRow DEF RemoveAccount
  <2> QED BY <1>2, <2>1, <2>2 DEF RemoveAccount
<1> QED BY <1>1, <1>2

-----------------------------------------------------------------------------
(* Steps of a refresh, other than those that issue or store *)

LockMoves(p, a) ==
  /\ lock' \in [Accounts -> Processes \union {None, Left}]
  /\ \A b \in Accounts \ {a} : lock'[b] = lock[b]
  /\ \A q \in Processes \ {p} :
       /\ lock'[a] = q => lock[a] = q
       /\ isLocked /\ lock[a] = q => lock'[a] = q \/ flight[q][a].cred \in overtaken'

LEMMA OneFlight ==
  ASSUME Inv, NEW p \in Processes, NEW a \in Accounts, NEW x \in Flight,
         flight' = [flight EXCEPT ![p][a] = x],
         UNCHANGED <<policy, active, grantVars, flowVars>>, mishaps' \in Nat,
         row' \in [Accounts -> Row \union {None}],
         lost \subseteq lost', lost' \subseteq Ids,
         overtaken \subseteq overtaken', overtaken' \subseteq Ids,
         verdicts' \in [Processes -> SUBSET Ids], LockMoves(p, a),
         \A b \in Accounts : RowGoesOn(b), FlightGoesOn(p, a)
  PROVE  Inv'
<1>0. flight \in [Processes -> [Accounts -> Flight]]
  BY DEF Inv, TypeOK, AccountsTypeOK
<1>1. flight' \in [Processes -> [Accounts -> Flight]]
  BY <1>0
<1>2. TypeOK'
  BY <1>1 DEF Inv, TypeOK, AccountsTypeOK, grantVars, flowVars, LockMoves
<1>3. \A f \in Flows : FlowGoesOn(f)
  BY UnchangedGoesOn DEF flowVars
<1>4. ASSUME NEW q \in Processes, NEW b \in Accounts PROVE FlightGoesOn(q, b)
  <2>1. CASE q = p /\ b = a
    BY <2>1
  <2>2. CASE ~(q = p /\ b = a)
    <3>1. flight'[q][b] = flight[q][b]
      BY <1>0, <2>2
    <3>2. ASSUME isLocked, flight[q][b].pc \in {"exchanging", "saving", "marking"}
          PROVE  lock'[b] = q \/ flight[q][b].cred \in overtaken'
      <4>1. lock[b] = q \/ flight[q][b].cred \in overtaken
        BY <3>2 DEF Inv, FlightIsSafe
      <4> QED BY <2>2, <3>2, <4>1 DEF LockMoves
    <3>3. lock'[b] = q => lock[b] = q
      BY <2>2 DEF LockMoves
    <3> QED BY <3>1, <3>2, <3>3 DEF FlightGoesOn
  <2> QED BY <2>1, <2>2
<1> QED BY <1>2, <1>3, <1>4, Quiet

LEMMA CellsUnchanged ==
  ASSUME UNCHANGED <<policy, row, grantVars>>
  PROVE  UNCHANGED cellVars
BY DEF cellVars, cells, isLocked, isStored, grantVars

LEMMA IdleTyped ==
  Idle \in Flight /\ Idle.pc = "idle" /\ Idle.cred = 0
BY DEF Idle, Flight

\* A refresh that ends without a row in need of what it exchanged.
LEMMA EndGoesOn ==
  ASSUME Inv, NEW p \in Processes, NEW a \in Accounts, flight'[p][a] = Idle,
         lock'[a] # p,
         isLocked /\ at(p, a, "saving") /\ row'[a] # None /\ row'[a].cred = flight[p][a].cred
           => flight[p][a].cred \in lost'
  PROVE  FlightGoesOn(p, a)
BY IdleTyped DEF FlightGoesOn, FlightIsOwned, at

LEMMA ReleaseMoves ==
  ASSUME Inv, NEW p \in Processes, NEW a \in Accounts, released(p, a)
  PROVE  LockMoves(p, a) /\ lock'[a] # p
BY AccountsAssumption DEF Inv, TypeOK, AccountsTypeOK, released, LockMoves

\* The credentials issued are numbered from 1.
LEMMA IssuedAreIds ==
  ASSUME Inv
  PROVE  /\ Len(issued) \in Nat /\ DOMAIN issued = 1..Len(issued)
         /\ DOMAIN issued \subseteq Ids /\ next \notin DOMAIN issued
<1>1. issued \in Seq([owner : Accounts, from : Ids \union {0}]) /\ Len(issued) <= MaxIssued
  BY DEF Inv, TypeOK, AccountsTypeOK
<1>2. Len(issued) \in Nat /\ DOMAIN issued = 1..Len(issued)
  BY <1>1
<1> QED BY <1>1, <1>2, AccountsAssumption DEF Ids, next

LEMMA RefreshSteps ==
  ASSUME Inv, NEW p \in Processes, NEW a \in Accounts, UNCHANGED flowVars,
         \/ Start(p, a) \/ Lock(p, a) \/ LockTimesOut(p, a)
         \/ ExchangeFails(p, a) \/ ExchangeRefused(p, a) \/ SaveFails(p, a)
  PROVE  Inv' /\ UNCHANGED cellVars
<1> DEFINE q == flight[p][a]
<1>0. /\ q \in Flight /\ flight \in [Processes -> [Accounts -> Flight]]
      /\ row \in [Accounts -> Row \union {None}] /\ lost \subseteq Ids
      /\ overtaken \subseteq Ids /\ mishaps \in Nat
      /\ verdicts \in [Processes -> SUBSET Ids]
      /\ lock \in [Accounts -> Processes \union {None, Left}]
      /\ FlightIsOwned(p, a)
      /\ isLocked => FlightIsSafe(p, a) /\ RowIsSafe(a)
      /\ isStored(a) => isOf(row[a].cred, a) /\ row[a].cred \in Ids
  BY DEF Inv, TypeOK, AccountsTypeOK, isStored, Row
<1>1. CASE Start(p, a)
  <2> DEFINE x == [Idle EXCEPT !.pc = IF isLocked THEN "locking" ELSE "exchanging",
                               !.cred = row[a].cred]
  <2>1. flight' = [flight EXCEPT ![p][a] = x] /\ isStored(a)
    BY <1>1 DEF Start, becomes
  <2>2. x \in Flight /\ x.cred = row[a].cred /\ x.pc \in {"locking", "exchanging"}
        /\ (isLocked => x.pc = "locking")
    BY <1>0, <2>1 DEF Idle, Flight
  <2> HIDE DEF x
  <2>3. flight'[p][a] = x
    BY <1>0, <2>1
  <2>4. UNCHANGED <<policy, row, active, grantVars, lost, overtaken, verdicts, lock, mishaps>>
    BY <1>1 DEF Start, past
  <2>5. FlightGoesOn(p, a)
    <3>1. q.pc = "idle"
      BY <1>1 DEF Start, at
    <3>2. FlightIsOwned(p, a)'
      BY <1>0, <2>1, <2>2, <2>3, <2>4, <3>1 DEF FlightIsOwned, at, isOf, grantVars
    <3>3. isUsed(x.cred)
      BY <2>1, <2>2 DEF isUsed
    <3> QED BY <2>2, <2>3, <3>1, <3>2, <3>3 DEF FlightGoesOn, at
  <2>6. LockMoves(p, a) /\ \A b \in Accounts : RowGoesOn(b)
    BY <1>0, <2>4 DEF LockMoves, RowGoesOn
  <2> QED BY <1>0, <2>1, <2>2, <2>4, <2>5, <2>6, OneFlight, CellsUnchanged
<1>2. CASE Lock(p, a)
  <2>1. UNCHANGED <<policy, row, active, grantVars, lost, verdicts>>
    BY <1>2 DEF Lock
  <2>2. \A b \in Accounts : RowGoesOn(b)
    BY <2>1 DEF RowGoesOn
  <2>3. /\ overtaken \subseteq overtaken' /\ overtaken' \subseteq Ids /\ mishaps' \in Nat
        /\ \A r \in Processes : lock[a] = r => flight[r][a].cred \in overtaken'
    <3>1. CASE lock[a] \in {None, Left} /\ UNCHANGED <<overtaken, mishaps>>
      BY <1>0, <3>1, AccountsAssumption
    <3>2. CASE lock[a] \in Processes /\ mishap
               /\ overtaken' = overtaken \union {flight[lock[a]][a].cred}
      <4>1. FlightIsOwned(lock[a], a)
        BY <3>2 DEF Inv
      <4>2. isOf(flight[lock[a]][a].cred, a)
        BY <4>1 DEF FlightIsOwned, at
      <4>3. flight[lock[a]][a].cred \in Ids
        BY <4>2, IssuedAreIds DEF isOf
      <4> QED BY <1>0, <3>2, <4>3 DEF mishap
    <3> QED BY <1>2, <3>1, <3>2 DEF Lock, isOvertaken
  <2>4. CASE mustExchange(p, a)
    <3> DEFINE x == [Idle EXCEPT !.pc = "exchanging", !.cred = row[a].cred]
    <3>1. flight' = [flight EXCEPT ![p][a] = x] /\ isStored(a) /\ lock' = [lock EXCEPT ![a] = p]
          /\ q.pc = "locking"
      BY <1>2, <2>4 DEF Lock, becomes, mustExchange, currentCredential, at
    <3>2. x \in Flight /\ x.cred = row[a].cred /\ x.pc = "exchanging"
      BY <1>0, <3>1 DEF Idle, Flight
    <3> HIDE DEF x
    <3>3. flight'[p][a] = x /\ lock'[a] = p
      BY <1>0, <3>1
    <3>4. ASSUME isLocked PROVE row[a].cred \in alive \union lost \union overtaken'
      <4>1. ASSUME NEW r \in Processes, at(r, a, "saving") PROVE flight[r][a].cred \in overtaken'
        <5>1. lock[a] = r \/ flight[r][a].cred \in overtaken
          BY <3>4, <4>1 DEF Inv, FlightIsSafe, at
        <5> QED BY <2>3, <5>1
      <4> QED BY <1>0, <3>1, <3>4, <4>1 DEF RowIsSafe
    <3>5. FlightGoesOn(p, a)
      <4>1. FlightIsOwned(p, a)'
        BY <1>0, <2>1, <3>1, <3>2, <3>3 DEF FlightIsOwned, at, isOf, grantVars
      <4>2. isUsed(x.cred)
        BY <3>1, <3>2 DEF isUsed
      <4> QED BY <2>1, <3>1, <3>2, <3>3, <3>4, <4>1, <4>2 DEF FlightGoesOn, at
    <3>6. LockMoves(p, a)
      BY <1>0, <2>3, <3>1 DEF LockMoves
    <3> QED BY <1>0, <2>1, <2>2, <2>3, <3>1, <3>2, <3>5, <3>6, OneFlight, CellsUnchanged
  <2>5. CASE ~mustExchange(p, a)
    <3>1. flight' = [flight EXCEPT ![p][a] = Idle] /\ lock' = [lock EXCEPT ![a] = None]
          /\ q.pc = "locking"
      BY <1>2, <2>5 DEF Lock, becomes, at
    <3>2. flight'[p][a] = Idle /\ lock'[a] = None
      BY <1>0, <3>1
    <3>3. FlightGoesOn(p, a)
      BY <3>1, <3>2, EndGoesOn, AccountsAssumption DEF at
    <3>4. LockMoves(p, a)
      BY <1>0, <2>3, <3>1, AccountsAssumption DEF LockMoves
    <3> QED BY <1>0, <2>1, <2>2, <2>3, <3>1, <3>3, <3>4, IdleTyped, OneFlight, CellsUnchanged
  <2> QED BY <2>4, <2>5
<1>3. CASE LockTimesOut(p, a)
  <2>1. /\ UNCHANGED <<policy, row, active, grantVars, lost, overtaken, verdicts, lock, mishaps>>
        /\ flight' = [flight EXCEPT ![p][a] = Idle] /\ q.pc = "locking"
    BY <1>3 DEF LockTimesOut, becomes, at, past
  <2>2. flight'[p][a] = Idle /\ lock'[a] # p
    BY <1>0, <2>1 DEF FlightIsOwned
  <2>3. FlightGoesOn(p, a)
    BY <2>1, <2>2, EndGoesOn DEF at
  <2>4. LockMoves(p, a) /\ \A b \in Accounts : RowGoesOn(b)
    BY <1>0, <2>1 DEF LockMoves, RowGoesOn
  <2> QED BY <1>0, <2>1, <2>3, <2>4, IdleTyped, OneFlight, CellsUnchanged
<1>4. CASE ExchangeFails(p, a)
  <2>1. /\ UNCHANGED <<policy, row, active, grantVars, lost, overtaken, verdicts, mishaps>>
        /\ flight' = [flight EXCEPT ![p][a] = Idle] /\ released(p, a) /\ q.pc = "exchanging"
    BY <1>4 DEF ExchangeFails, ends, becomes, at, past
  <2>2. flight'[p][a] = Idle
    BY <1>0, <2>1
  <2>3. LockMoves(p, a) /\ lock'[a] # p
    BY <2>1, ReleaseMoves
  <2>4. FlightGoesOn(p, a)
    BY <2>1, <2>2, <2>3, EndGoesOn DEF at
  <2>5. \A b \in Accounts : RowGoesOn(b)
    BY <2>1 DEF RowGoesOn
  <2> QED BY <1>0, <2>1, <2>3, <2>4, <2>5, IdleTyped, OneFlight, CellsUnchanged
<1>5. CASE ExchangeRefused(p, a)
  <2> DEFINE x == [q EXCEPT !.pc = "marking"]
  <2>1. /\ UNCHANGED <<policy, row, active, grantVars, lost, overtaken, lock, mishaps>>
        /\ flight' = [flight EXCEPT ![p][a] = x] /\ q.pc = "exchanging" /\ q.cred \notin alive
        /\ verdicts' = IF isLocked THEN [verdicts EXCEPT ![p] = @ \union {q.cred}] ELSE verdicts
    BY <1>5 DEF ExchangeRefused, becomes, at, past
  <2>2. isOf(q.cred, a)
    BY <1>0, <2>1 DEF FlightIsOwned, at
  <2>3. q.cred \in Ids
    BY <2>2, IssuedAreIds DEF isOf
  <2>4. verdicts' \in [Processes -> SUBSET Ids]
    BY <1>0, <2>1, <2>3
  <2>5. isUsed(q.cred)
    BY DEF isUsed
  <2>6. isLocked => /\ lock[a] = p \/ q.cred \in overtaken
                    /\ q.cred \in lost \union overtaken
    BY <1>0, <2>1 DEF FlightIsSafe
  <2> HIDE DEF q
  <2>7. x \in Flight /\ x.pc = "marking" /\ x.cred = q.cred
    BY <1>0 DEF Flight
  <2> HIDE DEF x
  <2>8. flight'[p][a] = x
    BY <1>0, <2>1
  <2>9. FlightGoesOn(p, a)
    <3>1. FlightIsOwned(p, a)'
      BY <2>1, <2>2, <2>7, <2>8 DEF FlightIsOwned, at, isOf, grantVars
    <3> QED BY <2>1, <2>5, <2>6, <2>7, <2>8, <3>1 DEF FlightGoesOn, at, q
  <2>10. LockMoves(p, a) /\ \A b \in Accounts : RowGoesOn(b)
    BY <1>0, <2>1 DEF LockMoves, RowGoesOn
  <2> QED BY <1>0, <2>1, <2>4, <2>7, <2>9, <2>10, OneFlight, CellsUnchanged
<1>6. CASE SaveFails(p, a)
  <2>1. /\ UNCHANGED <<policy, row, active, grantVars, overtaken, verdicts, mishaps>>
        /\ flight' = [flight EXCEPT ![p][a] = Idle] /\ released(p, a) /\ q.pc = "saving"
        /\ lost' = lost \union {q.cred}
    BY <1>6 DEF SaveFails, ends, becomes, at
  <2>2. q.cred \in Ids
    BY <1>0, <2>1, IssuedAreIds DEF FlightIsOwned, at, isOf
  <2>3. flight'[p][a] = Idle
    BY <1>0, <2>1
  <2>4. LockMoves(p, a) /\ lock'[a] # p
    BY <2>1, ReleaseMoves
  <2>5. FlightGoesOn(p, a)
    BY <2>1, <2>3, <2>4, EndGoesOn
  <2>6. \A b \in Accounts : RowGoesOn(b)
    BY <2>1 DEF RowGoesOn
  <2> QED BY <1>0, <2>1, <2>2, <2>4, <2>5, <2>6, IdleTyped, OneFlight, CellsUnchanged
<1> QED BY <1>1, <1>2, <1>3, <1>4, <1>5, <1>6

LEMMA NoneIsNoRow == None \notin Row
<1>1. Row \subseteq [cred : Nat, fresh : BOOLEAN, reauth : BOOLEAN]
  BY DEF Row, Ids
<1> QED BY <1>1, AccountsAssumption

\* A verdict of the provider that is written into the row.
LEMMA MarkStep ==
  ASSUME Inv, NEW p \in Processes, NEW a \in Accounts, UNCHANGED flowVars, Mark(p, a)
  PROVE  Inv' /\ [Cells!Next]_cellVars
<1> DEFINE q == flight[p][a]
<1>0. /\ q \in Flight /\ flight \in [Processes -> [Accounts -> Flight]]
      /\ row \in [Accounts -> Row \union {None}] /\ lost \subseteq Ids
      /\ overtaken \subseteq Ids /\ mishaps \in Nat
      /\ verdicts \in [Processes -> SUBSET Ids]
      /\ FlightIsOwned(p, a) /\ (isLocked => FlightIsSafe(p, a))
  BY DEF Inv, TypeOK, AccountsTypeOK
<1>1. /\ UNCHANGED <<policy, active, grantVars, lost, overtaken, verdicts, mishaps>>
      /\ flight' = [flight EXCEPT ![p][a] = Idle] /\ released(p, a) /\ q.pc = "marking"
      /\ mark(a, q.cred)
  BY DEF Mark, ends, becomes, at, past
<1>2. q.cred \notin alive /\ (isLocked => q.cred \in lost \union overtaken)
  BY <1>0, <1>1 DEF FlightIsOwned, FlightIsSafe, at
<1>3. flight'[p][a] = Idle
  BY <1>0, <1>1
<1>4. LockMoves(p, a) /\ lock'[a] # p
  BY <1>1, ReleaseMoves
<1>5. FlightGoesOn(p, a)
  BY <1>1, <1>3, <1>4, EndGoesOn DEF at
<1> HIDE DEF q
<1>6. CASE isStored(a) /\ (isLocked => row[a].cred = q.cred)
  <2> DEFINE m == [row[a] EXCEPT !.reauth = TRUE]
  <2>1. row' = [row EXCEPT ![a] = m]
    BY <1>1, <1>6 DEF mark
  <2>2. row[a] \in Row
    BY <1>0, <1>6 DEF isStored
  <2>3. m \in Row /\ m.cred = row[a].cred /\ m.reauth = TRUE
    BY <2>2 DEF Row
  <2>4. m # None /\ row[a] # None
    BY <2>2, <2>3, NoneIsNoRow
  <2> HIDE DEF m
  <2>5. row'[a] = m /\ \A b \in Accounts \ {a} : row'[b] = row[b]
    BY <1>0, <2>1
  <2>6. row' \in [Accounts -> Row \union {None}]
    BY <1>0, <2>1, <2>3
  <2>7. RowGoesOn(a)
    BY <1>1, <1>2, <1>6, <2>3, <2>4, <2>5 DEF RowGoesOn
  <2>8. \A b \in Accounts : RowGoesOn(b)
    BY <2>5, <2>7 DEF RowGoesOn
  <2>9. Inv'
    BY <1>0, <1>1, <1>4, <1>5, <2>6, <2>8, IdleTyped, OneFlight
  <2>10. Cells!Condemn(a)
    <3>1. cells[a] = [cred |-> row[a].cred, condemned |-> row[a].reauth]
      BY <1>6 DEF cells
    <3>2. cells[a] # None
      BY <2>2, <3>1, AccountsAssumption DEF Row, Ids
    <3>3. cells[a].cred = row[a].cred /\ (isLocked => cells[a].cred \notin alive)
      BY <1>2, <1>6, <3>1
    <3>4. cells' = [cells EXCEPT ![a] = [cred |-> row[a].cred, condemned |-> TRUE]]
      BY <2>3, <2>4, <2>5 DEF cells, isStored
    <3> QED BY <3>2, <3>3, <3>4 DEF Cells!Condemn, cells
  <2> QED BY <1>1, <2>9, <2>10 DEF Cells!Next, isLocked
<1>7. CASE ~(isStored(a) /\ (isLocked => row[a].cred = q.cred))
  <2>1. row' = row
    BY <1>1, <1>7 DEF mark
  <2>2. \A b \in Accounts : RowGoesOn(b)
    BY <2>1 DEF RowGoesOn
  <2> QED BY <1>0, <1>1, <1>4, <1>5, <2>1, <2>2, IdleTyped, OneFlight, CellsUnchanged
<1> QED BY <1>6, <1>7

\* The steps of the clock, and a crash.
LEMMA ExpiresStep ==
  ASSUME Inv, NEW a \in Accounts, UNCHANGED flowVars, Expires(a)
  PROVE  Inv' /\ UNCHANGED cellVars
<1>0. row \in [Accounts -> Row \union {None}] /\ isStored(a)
  BY DEF Inv, TypeOK, AccountsTypeOK, Expires
<1> DEFINE m == [row[a] EXCEPT !.fresh = FALSE]
<1>1. /\ row' = [row EXCEPT ![a] = m]
      /\ UNCHANGED <<policy, active, grantVars, lost, overtaken, flight, verdicts, lock, mishaps>>
  BY DEF Expires, past
<1>2. row[a] \in Row
  BY <1>0 DEF isStored
<1>3. m \in Row /\ m.cred = row[a].cred /\ m.reauth = row[a].reauth
  BY <1>2 DEF Row
<1>4. m # None /\ row[a] # None
  BY <1>2, <1>3, NoneIsNoRow
<1> HIDE DEF m
<1>5. row'[a] = m /\ \A b \in Accounts \ {a} : row'[b] = row[b]
  BY <1>0, <1>1
<1>6. row' \in [Accounts -> Row \union {None}]
  BY <1>0, <1>1, <1>3
<1>7. RowGoesOn(a)
  BY <1>3, <1>4, <1>5 DEF RowGoesOn
<1>8. \A b \in Accounts : RowGoesOn(b)
  BY <1>5, <1>7 DEF RowGoesOn
<1>9. \A p \in Processes, b \in Accounts : FlightGoesOn(p, b)
  BY <1>1 DEF FlightGoesOn, Inv, FlightIsSafe
<1>10. \A f \in Flows : FlowGoesOn(f)
  BY UnchangedGoesOn DEF flowVars
<1>11. TypeOK'
  BY <1>1, <1>6 DEF Inv, TypeOK, AccountsTypeOK, grantVars, flowVars
<1>12. Inv'
  BY <1>1, <1>8, <1>9, <1>10, <1>11, Quiet
<1>13. cells' = cells
  BY <1>3, <1>4, <1>5 DEF cells, isStored
<1> QED BY <1>1, <1>12, <1>13 DEF cellVars, isLocked, grantVars

LEMMA ForgetStep ==
  ASSUME Inv, NEW p \in Processes, NEW c \in Ids, UNCHANGED flowVars, Forget(p, c)
  PROVE  Inv' /\ UNCHANGED cellVars
<1>1. UNCHANGED <<policy, row, active, grantVars, lost, overtaken, flight, lock, mishaps>>
  BY DEF Forget, past
<1>2. verdicts' \in [Processes -> SUBSET Ids]
  BY DEF Forget, Inv, TypeOK, AccountsTypeOK
<1>3. TypeOK'
  BY <1>1, <1>2 DEF Inv, TypeOK, AccountsTypeOK, grantVars, flowVars
<1>4. \A f \in Flows : FlowGoesOn(f)
  BY UnchangedGoesOn DEF flowVars
<1>5. /\ \A a \in Accounts : RowGoesOn(a)
      /\ \A q \in Processes, a \in Accounts : FlightGoesOn(q, a)
  BY <1>1 DEF RowGoesOn, FlightGoesOn, Inv, FlightIsSafe
<1> QED BY <1>1, <1>3, <1>4, <1>5, Quiet, CellsUnchanged

LEMMA CrashStep ==
  ASSUME Inv, NEW p \in Processes, Crash(p)
  PROVE  Inv' /\ UNCHANGED cellVars
<1>0. /\ flow \in [Flows -> FlowRecord] /\ MapsTyped
      /\ flight \in [Processes -> [Accounts -> Flight]]
      /\ lock \in [Accounts -> Processes \union {None, Left}]
      /\ verdicts \in [Processes -> SUBSET Ids] /\ lost \subseteq Ids /\ mishaps \in Nat
      /\ overtaken \subseteq Ids
  BY DEF Inv, TypeOK, AccountsTypeOK, MapsTyped
<1> DEFINE hand == {flight[p][a].cred : a \in {b \in Accounts : at(p, b, "saving")}}
<1>1. /\ UNCHANGED <<policy, row, active, grantVars, overtaken>>
      /\ lost' = lost \union hand
      /\ flight' = [flight EXCEPT ![p] = [a \in Accounts |-> Idle]]
      /\ verdicts' = [verdicts EXCEPT ![p] = {}]
      /\ lock' = [a \in Accounts |-> IF lock[a] = p THEN Left ELSE lock[a]]
      /\ mishaps' = mishaps + 1
  BY DEF Crash, crashed, mishap
<1>2. hand \subseteq Ids
  <2> SUFFICES ASSUME NEW a \in Accounts, at(p, a, "saving") PROVE flight[p][a].cred \in Ids
    OBVIOUS
  <2>1. isOf(flight[p][a].cred, a)
    BY DEF Inv, FlightIsOwned, at
  <2> QED BY <2>1, IssuedAreIds DEF isOf
<1>3. \A a \in Accounts : at(p, a, "saving") => flight[p][a].cred \in lost'
  BY <1>1
<1> HIDE DEF hand
<1>4. Over \in FlowRecord /\ Over.code = None /\ Over.pc = "over"
  BY DEF Over, Unstarted, FlowRecord
<1>5. flow' \in [Flows -> FlowRecord] /\ MapsTyped'
      /\ \A f \in Flows : flow'[f] = flow[f] \/ flow'[f] = Over
  <2>1. CASE p = Server
    <3>1. /\ flow' = [f \in Flows |-> IF in(f, "idle") THEN flow[f] ELSE Over]
          /\ loginState' = None /\ loginAbort' = None /\ slot' = None
      BY <2>1 DEF Crash
    <3>2. MapsTyped'
      BY <3>1 DEF MapsTyped
    <3> QED BY <1>0, <1>4, <3>1, <3>2
  <2>2. CASE p # Server
    BY <1>0, <2>2 DEF Crash, flowVars, MapsTyped
  <2> QED BY <2>1, <2>2
<1>6. ASSUME NEW f \in Flows PROVE FlowGoesOn(f)
  <2>1. CASE flow'[f] = flow[f]
    BY <2>1, UnchangedGoesOn
  <2>2. CASE flow'[f] = Over
    BY <1>4, <2>2 DEF FlowGoesOn, CodeIsOwn, isPending
  <2> QED BY <1>5, <2>1, <2>2
<1>7. ASSUME NEW q \in Processes, NEW a \in Accounts PROVE FlightGoesOn(q, a)
  <2>1. CASE q = p
    <3>1. flight'[q][a] = Idle /\ lock'[a] # q
      BY <1>0, <1>1, <2>1, AccountsAssumption
    <3> QED BY <1>3, <2>1, <3>1, EndGoesOn
  <2>2. CASE q # p
    <3>1. flight'[q][a] = flight[q][a]
      BY <1>0, <1>1, <2>2
    <3>2. lock[a] = q <=> lock'[a] = q
      BY <1>0, <1>1, <2>2, AccountsAssumption
    <3> QED BY <1>1, <3>1, <3>2 DEF FlightGoesOn, Inv, FlightIsSafe
  <2> QED BY <2>1, <2>2
<1>8. \A a \in Accounts : RowGoesOn(a)
  BY <1>1 DEF RowGoesOn
<1>9. TypeOK'
  <2>1. [a \in Accounts |-> Idle] \in [Accounts -> Flight]
    BY IdleTyped
  <2>2. flight' \in [Processes -> [Accounts -> Flight]]
    BY <1>0, <1>1, <2>1
  <2>3. lock' \in [Accounts -> Processes \union {None, Left}]
    BY <1>0, <1>1
  <2>4. verdicts' \in [Processes -> SUBSET Ids] /\ lost' \subseteq Ids /\ mishaps' \in Nat
    BY <1>0, <1>1, <1>2
  <2> QED BY <1>1, <1>5, <2>2, <2>3, <2>4
          DEF Inv, TypeOK, AccountsTypeOK, grantVars, MapsTyped
<1> QED BY <1>1, <1>6, <1>7, <1>8, <1>9, Quiet, CellsUnchanged

-----------------------------------------------------------------------------
(* Steps that store *)

\* Credential n of account a goes into its row.
StoredRow(a, n) == row' = [row EXCEPT ![a] = stored(n)]

LEMMA StoredGoesOn ==
  ASSUME Inv, NEW a \in Accounts, NEW n \in Ids, StoredRow(a, n), isOf(n, a),
         isLocked => n \in alive /\ isLeft(n)'
  PROVE  /\ row' \in [Accounts -> Row \union {None}]
         /\ \A b \in Accounts : RowGoesOn(b)
         /\ row'[a] # None /\ row'[a].cred = n
         /\ cells' = [cells EXCEPT ![a] = Cells!holds(n)]
<1>0. row \in [Accounts -> Row \union {None}]
  BY DEF Inv, TypeOK, AccountsTypeOK
<1>1. stored(n) \in Row /\ stored(n).cred = n /\ stored(n).reauth = FALSE
  BY DEF stored, Row
<1>2. stored(n) # None
  BY <1>1, NoneIsNoRow
<1>3. row'[a] = stored(n) /\ \A b \in Accounts \ {a} : row'[b] = row[b]
  BY <1>0 DEF StoredRow
<1>4. row' \in [Accounts -> Row \union {None}]
  BY <1>0, <1>1 DEF StoredRow
<1>5. RowGoesOn(a)
  BY <1>3 DEF RowGoesOn
<1>6. \A b \in Accounts : RowGoesOn(b)
  BY <1>3, <1>5 DEF RowGoesOn
<1>7. cells' = [cells EXCEPT ![a] = Cells!holds(n)]
  BY <1>1, <1>2, <1>3 DEF cells, isStored, Cells!holds
<1> QED BY <1>1, <1>2, <1>3, <1>4, <1>6, <1>7

LEMMA SaveStep ==
  ASSUME Inv, NEW p \in Processes, NEW a \in Accounts, UNCHANGED flowVars, Save(p, a)
  PROVE  Inv' /\ [Cells!Next]_cellVars
<1>0. /\ flight[p][a] \in Flight /\ flight \in [Processes -> [Accounts -> Flight]]
      /\ row \in [Accounts -> Row \union {None}] /\ lost \subseteq Ids
      /\ overtaken \subseteq Ids /\ mishaps \in Nat
      /\ verdicts \in [Processes -> SUBSET Ids] /\ flow \in [Flows -> FlowRecord]
      /\ FlightIsOwned(p, a) /\ (isLocked => FlightIsSafe(p, a))
  BY DEF Inv, TypeOK, AccountsTypeOK
<1>1. PICK c, n : c = flight[p][a].cred /\ n = flight[p][a].new
  OBVIOUS
<1>2. /\ UNCHANGED <<policy, active, grantVars, overtaken, verdicts, mishaps>>
      /\ flight' = [flight EXCEPT ![p][a] = Idle] /\ released(p, a) /\ at(p, a, "saving")
      /\ lost' = IF isStored(a) /\ row'[a].cred = n THEN lost ELSE lost \union {c}
  BY <1>1 DEF Save, ends, becomes
<1>3. /\ isOf(c, a) /\ isOf(n, a) /\ issued[n].from = c
      /\ isLocked => /\ n \in alive /\ ~isUsed(n)
                     /\ \A q \in Processes \ {p} : at(q, a, "saving") => flight[q][a].new # n
  BY <1>0, <1>1, <1>2 DEF FlightIsOwned, FlightIsSafe, at
<1>4. c \in Ids /\ n \in Ids /\ c # 0
  BY <1>3, IssuedAreIds DEF isOf, Ids
<1>5. lost \subseteq lost' /\ lost' \subseteq Ids
  BY <1>0, <1>2, <1>4
<1>6. flight'[p][a] = Idle
        /\ \A q \in Processes, b \in Accounts : ~(q = p /\ b = a) => flight'[q][b] = flight[q][b]
  BY <1>0, <1>2
<1>7. LockMoves(p, a) /\ lock'[a] # p
  BY <1>2, ReleaseMoves
<1>8. isLocked => n # c
  BY <1>1, <1>3 DEF isUsed
<1>9. CASE isStored(a) /\ (isLocked => row[a].cred = c)
  <2>1. StoredRow(a, n)
    BY <1>1, <1>9 DEF Save, mergeAccountCredential, StoredRow
  <2>2. ASSUME isLocked PROVE isLeft(n)'
    <3>1. ASSUME NEW q \in Processes, NEW b \in Accounts, (at(q, b, "saving"))'
          PROVE  flight'[q][b].new # n
      <4>1. flight'[q][b] = flight[q][b] /\ at(q, b, "saving") /\ ~(q = p /\ b = a)
        BY <1>6, <3>1, IdleTyped DEF at
      <4>2. isOf(flight[q][b].new, b)
        BY <4>1 DEF Inv, FlightIsOwned
      <4> QED BY <1>3, <2>2, <4>1, <4>2 DEF isOf
    <3>2. ASSUME NEW f \in Flows, isPending(f)' PROVE flow'[f].cred # n
      <4>0. flow' = flow /\ isPending(f)
        BY <3>2 DEF isPending, flowVars
      <4>i. FlowIsOwned(f)
        BY DEF Inv
      <4>1. issued[flow[f].cred].from = 0 /\ flow' = flow
        BY <4>0, <4>i DEF FlowIsOwned
      <4> QED BY <1>3, <1>4, <4>1
    <3> QED BY <3>1, <3>2 DEF isLeft
  <2>3. /\ row' \in [Accounts -> Row \union {None}] /\ \A b \in Accounts : RowGoesOn(b)
        /\ row'[a] # None /\ row'[a].cred = n
        /\ cells' = [cells EXCEPT ![a] = Cells!holds(n)]
    BY <1>3, <1>4, <2>1, <2>2, StoredGoesOn
  <2>4. FlightGoesOn(p, a)
    BY <1>1, <1>6, <1>7, <1>8, <2>3, EndGoesOn
  <2>5. Inv'
    BY <1>0, <1>2, <1>5, <1>7, <2>3, <2>4, IdleTyped, OneFlight
  <2>6. Cells!Rotate(a, n)
    <3>1. cells[a] = [cred |-> row[a].cred, condemned |-> row[a].reauth]
      BY <1>9 DEF cells
    <3>2. row[a] \in Row
      BY <1>0, <1>9 DEF isStored
    <3>3. cells[a] # None
      BY <3>1, <3>2, AccountsAssumption DEF Row, Ids
    <3>4. isLocked => issued[n].from = cells[a].cred
      BY <1>3, <1>9, <3>1
    <3>5. Cells!isOf(n, a)
      BY <1>3 DEF Cells!isOf, isOf
    <3> QED BY <2>3, <3>3, <3>4, <3>5 DEF Cells!Rotate, cells
  <2>7. n \in DOMAIN issued
    BY <1>3 DEF isOf
  <2> QED BY <1>2, <2>5, <2>6, <2>7 DEF Cells!Next, isLocked
<1>10. CASE ~(isStored(a) /\ (isLocked => row[a].cred = c))
  <2>1. row' = row
    BY <1>1, <1>10 DEF Save, mergeAccountCredential
  <2>2. \A b \in Accounts : RowGoesOn(b)
    BY <2>1 DEF RowGoesOn
  <2>3. ASSUME isLocked, row[a] # None, row[a].cred = c PROVE c \in lost'
    BY <1>10, <2>3 DEF isStored
  <2>4. FlightGoesOn(p, a)
    BY <1>1, <1>6, <1>7, <2>1, <2>3, EndGoesOn
  <2> QED BY <1>0, <1>2, <1>5, <1>7, <2>1, <2>2, <2>4, IdleTyped, OneFlight, CellsUnchanged
<1> QED BY <1>9, <1>10

LEMMA SaveLoginStep ==
  ASSUME Inv, NEW f \in Flows, SaveLogin(f)
  PROVE  Inv' /\ [Cells!Next]_cellVars
<1>0. /\ flow \in [Flows -> FlowRecord] /\ row \in [Accounts -> Row \union {None}]
      /\ active \in Accounts \union {None}
  BY DEF Inv, TypeOK, AccountsTypeOK
<1>1. PICK a, n : a = flow[f].who /\ n = flow[f].cred
  OBVIOUS
<1>2. /\ UNCHANGED <<policy, grantVars, lost, overtaken, flight, verdicts, lock, mishaps>>
      /\ flow' = [flow EXCEPT ![f] = Over] /\ MapsTyped' /\ isPending(f)
  BY DEF SaveLogin, over, finished, MapsTyped, isPending, in, past
<1>3. /\ a \in Accounts /\ n \in DOMAIN issued /\ issued[n] = [owner |-> a, from |-> 0]
      /\ flow[f].target # None => a = flow[f].target
      /\ isLocked => n \in alive
  BY <1>1, <1>2 DEF Inv, FlowIsOwned, FlowIsSafe, SaveLogin, in
<1>4. n \in Ids /\ isOf(n, a)
  BY <1>3, IssuedAreIds DEF isOf
<1>5. row' = row \/ StoredRow(a, n)
  BY <1>1, <1>3 DEF SaveLogin, saveCredential, saveAccountCredential, StoredRow
<1>6. active' \in Accounts \union {None}
  BY <1>0, <1>1, <1>3 DEF SaveLogin, saveCredential, saveAccountCredential
<1>7. Over \in FlowRecord /\ Over.code = None /\ Over.pc = "over"
  BY DEF Over, Unstarted, FlowRecord
<1>8. flow' \in [Flows -> FlowRecord] /\ flow'[f] = Over
      /\ \A g \in Flows \ {f} : flow'[g] = flow[g]
  BY <1>0, <1>2, <1>7
<1>9. ASSUME NEW g \in Flows PROVE FlowGoesOn(g)
  <2>1. CASE g = f
    BY <1>7, <1>8, <2>1 DEF FlowGoesOn, CodeIsOwn, isPending
  <2>2. CASE g # f
    BY <1>8, <2>2, UnchangedGoesOn
  <2> QED BY <2>1, <2>2
<1>10. ASSUME isLocked PROVE isLeft(n)'
  <2>1. ASSUME NEW p \in Processes, NEW b \in Accounts, (at(p, b, "saving"))'
        PROVE  flight'[p][b].new # n
    <3>1. /\ flight' = flight /\ isOf(flight[p][b].cred, b)
          /\ issued[flight[p][b].new].from = flight[p][b].cred
      BY <1>2, <2>1 DEF Inv, FlightIsOwned, at
    <3>2. flight[p][b].cred # 0
      BY <3>1, IssuedAreIds DEF isOf
    <3> QED BY <1>3, <3>1, <3>2
  <2>2. ASSUME NEW g \in Flows, isPending(g)' PROVE flow'[g].cred # n
    <3>1. g # f /\ flow'[g] = flow[g] /\ isPending(g)
      BY <1>7, <1>8, <2>2 DEF isPending
    <3> QED BY <1>1, <1>2, <1>10, <3>1 DEF Inv, FlowIsSafe
  <2> QED BY <2>1, <2>2 DEF isLeft
<1>11. \A p \in Processes, b \in Accounts : FlightGoesOn(p, b)
  BY <1>2 DEF FlightGoesOn, Inv, FlightIsSafe
<1>12. CASE row' = row
  <2>1. TypeOK'
    BY <1>2, <1>6, <1>8, <1>12 DEF Inv, TypeOK, AccountsTypeOK, MapsTyped, grantVars
  <2>2. \A b \in Accounts : RowGoesOn(b)
    BY <1>12 DEF RowGoesOn
  <2> QED BY <1>2, <1>9, <1>11, <1>12, <2>1, <2>2, Quiet, CellsUnchanged
<1>13. CASE StoredRow(a, n)
  <2>1. /\ row' \in [Accounts -> Row \union {None}] /\ \A b \in Accounts : RowGoesOn(b)
        /\ cells' = [cells EXCEPT ![a] = Cells!holds(n)]
    BY <1>3, <1>4, <1>10, <1>13, StoredGoesOn
  <2>2. TypeOK'
    BY <1>2, <1>6, <1>8, <2>1 DEF Inv, TypeOK, AccountsTypeOK, MapsTyped, grantVars
  <2>3. Inv'
    BY <1>2, <1>9, <1>11, <2>1, <2>2, Quiet
  <2>4. Cells!SignIn(a, n)
    BY <1>3, <2>1 DEF Cells!SignIn, Cells!isLogin, cells
  <2> QED BY <1>2, <1>3, <2>3, <2>4 DEF Cells!Next, isLocked
<1> QED BY <1>5, <1>12, <1>13

-----------------------------------------------------------------------------
(* Steps in which the provider issues a credential *)

LEMMA IssuedGrows ==
  ASSUME Inv, NEW o \in Accounts, NEW c \in Ids \union {0}, NEW n, n = next, issues(o, c)
  PROVE  /\ n \in Ids /\ n # 0 /\ n \notin DOMAIN issued
         /\ DOMAIN issued' = DOMAIN issued \union {n}
         /\ issued'[n] = [owner |-> o, from |-> c]
         /\ \A d \in DOMAIN issued : issued'[d] = issued[d]
         /\ issued' \in Seq([owner : Accounts, from : Ids \union {0}])
         /\ Len(issued') <= MaxIssued
         /\ alive' = (alive \ {c}) \union {n}
         /\ alive' \subseteq Ids /\ alive' \subseteq DOMAIN issued'
<1> DEFINE i == [owner |-> o, from |-> c]
<1>0. /\ issued \in Seq([owner : Accounts, from : Ids \union {0}]) /\ alive \subseteq Ids
      /\ alive \subseteq DOMAIN issued
  BY DEF Inv, TypeOK, AccountsTypeOK
<1>1. /\ Len(issued) \in Nat /\ DOMAIN issued = 1..Len(issued)
      /\ n = Len(issued) + 1 /\ n <= MaxIssued
      /\ issued' = Append(issued, i) /\ alive' = (alive \ {c}) \union {n}
  BY IssuedAreIds DEF issues, next
<1>2. i \in [owner : Accounts, from : Ids \union {0}]
  OBVIOUS
<1> HIDE DEF i
<1>3. /\ issued' \in Seq([owner : Accounts, from : Ids \union {0}])
      /\ Len(issued') = Len(issued) + 1 /\ issued'[Len(issued) + 1] = i
      /\ \A d \in 1..Len(issued) : issued'[d] = issued[d]
  BY <1>0, <1>1, <1>2, AppendProperties
<1>4. DOMAIN issued' = 1..Len(issued')
  BY <1>3
<1>5. n \in Ids /\ n # 0 /\ n \notin DOMAIN issued /\ DOMAIN issued' = DOMAIN issued \union {n}
  BY <1>1, <1>3, <1>4, AccountsAssumption DEF Ids
<1> QED BY <1>0, <1>1, <1>3, <1>5 DEF i

\* What was owned is owned still.
LEMMA OwnedStill ==
  ASSUME Inv, NEW o \in Accounts, NEW c \in Ids \union {0}, NEW n, n = next, issues(o, c)
  PROVE  /\ \A d, a : isOf(d, a) => isOf(d, a)' /\ d # n
         /\ \A f \in Flows : isPending(f) =>
              flow[f].cred \in DOMAIN issued' /\ flow[f].cred # n
              /\ issued'[flow[f].cred] = [owner |-> flow[f].who, from |-> 0]
<1>1. \A d, a : isOf(d, a) => isOf(d, a)' /\ d # n
  BY IssuedGrows DEF isOf
<1>2. ASSUME NEW f \in Flows, isPending(f)
      PROVE  flow[f].cred \in DOMAIN issued' /\ flow[f].cred # n
             /\ issued'[flow[f].cred] = [owner |-> flow[f].who, from |-> 0]
  <2>1. flow[f].cred \in DOMAIN issued
        /\ issued[flow[f].cred] = [owner |-> flow[f].who, from |-> 0]
    BY <1>2 DEF Inv, FlowIsOwned
  <2>2. /\ issued'[flow[f].cred] = issued[flow[f].cred]
        /\ DOMAIN issued \subseteq DOMAIN issued' /\ n \notin DOMAIN issued
    BY <2>1, IssuedGrows
  <2> QED BY <2>1, <2>2
<1> QED BY <1>1, <1>2

LEMMA ExchangeStep ==
  ASSUME Inv, NEW p \in Processes, NEW a \in Accounts, UNCHANGED flowVars, Exchange(p, a)
  PROVE  Inv' /\ [Cells!Next]_cellVars
<1>0. /\ flight[p][a] \in Flight /\ flight \in [Processes -> [Accounts -> Flight]]
      /\ lost \subseteq Ids /\ overtaken \subseteq Ids
      /\ lock \in [Accounts -> Processes \union {None, Left}]
      /\ FlightIsOwned(p, a) /\ (isLocked => FlightIsSafe(p, a))
  BY DEF Inv, TypeOK, AccountsTypeOK
<1>1. PICK c, n : c = flight[p][a].cred /\ n = next
  OBVIOUS
<1> DEFINE s == [flight[p][a] EXCEPT !.pc = "saving", !.new = n]
<1>2. /\ UNCHANGED <<policy, row, active, overtaken, verdicts, mishaps>> /\ issues(a, c) /\ c \in alive
      /\ flight[p][a].pc = "exchanging"
      /\ \/ flight' = [flight EXCEPT ![p][a] = s] /\ UNCHANGED <<lost, lock>>
         \/ flight' = [flight EXCEPT ![p][a] = Idle] /\ released(p, a) /\ lost' = lost \union {c}
         \/ /\ flight' = [flight EXCEPT ![p][a] = flight[p][a]]
            /\ UNCHANGED lock /\ lost' = lost \union {c}
  BY <1>1 DEF Exchange, ends, becomes, at
<1>3. isOf(c, a) /\ c \in Ids /\ c # 0
  BY <1>0, <1>1, <1>2, IssuedAreIds DEF FlightIsOwned, at, isOf, Ids
<1>4. /\ n \in Ids /\ n # 0 /\ n \notin DOMAIN issued
      /\ DOMAIN issued' = DOMAIN issued \union {n} /\ issued'[n] = [owner |-> a, from |-> c]
      /\ issued' \in Seq([owner : Accounts, from : Ids \union {0}]) /\ Len(issued') <= MaxIssued
      /\ alive' = (alive \ {c}) \union {n} /\ alive' \subseteq Ids /\ alive' \subseteq DOMAIN issued'
  <2>1. n = next /\ issues(a, c) /\ c \in Ids \union {0}
    BY <1>1, <1>2, <1>3
  <2> QED BY <2>1, IssuedGrows
<1>5. /\ \A d, b : isOf(d, b) => isOf(d, b)' /\ d # n
      /\ \A f \in Flows : isPending(f) =>
           flow[f].cred \in DOMAIN issued' /\ flow[f].cred # n
           /\ issued'[flow[f].cred] = [owner |-> flow[f].who, from |-> 0]
  <2>1. n = next /\ issues(a, c) /\ c \in Ids \union {0}
    BY <1>1, <1>2, <1>3
  <2> QED BY <2>1, OwnedStill
<1>6. s \in Flight /\ s.pc = "saving" /\ s.cred = c /\ s.new = n
  BY <1>0, <1>1, <1>4 DEF Flight
<1> HIDE DEF s
<1>7. \A q \in Processes, b \in Accounts : ~(q = p /\ b = a) => flight'[q][b] = flight[q][b]
  BY <1>0, <1>2
<1>8. \/ flight'[p][a] = s /\ UNCHANGED <<lost, lock>>
      \/ flight'[p][a] = Idle /\ lock'[a] # p /\ lost' = lost \union {c}
      \/ flight'[p][a] = flight[p][a] /\ UNCHANGED lock /\ lost' = lost \union {c}
  BY <1>0, <1>2, ReleaseMoves
<1>9. LockMoves(p, a)
  BY <1>0, <1>2, ReleaseMoves DEF LockMoves
<1>10. TypeOK'
  <2>1. flight' \in [Processes -> [Accounts -> Flight]]
    BY <1>0, <1>2, <1>6, IdleTyped
  <2>2. lost' \subseteq Ids
    BY <1>0, <1>2, <1>3
  <2> QED BY <1>2, <1>4, <1>9, <2>1, <2>2
          DEF Inv, TypeOK, AccountsTypeOK, flowVars, LockMoves
<1>11. \A b \in Accounts : isStored(b)' => isOf(row[b].cred, b)'
  <2>1. \A b \in Accounts : isStored(b) => isOf(row[b].cred, b)
    BY DEF Inv
  <2> QED BY <1>2, <1>5, <2>1 DEF isStored, isOf
<1>12. ASSUME NEW q \in Processes, NEW b \in Accounts PROVE FlightIsOwned(q, b)'
  <2>1. CASE flight'[q][b] = flight[q][b]
    <3>1. FlightIsOwned(q, b)
      BY DEF Inv
    <3>2. at(q, b, "saving") =>
            issued'[flight[q][b].new] = issued[flight[q][b].new]
      BY <1>1, <1>2, <1>3, <3>1, IssuedGrows DEF FlightIsOwned, isOf
    <3>3. lock'[b] = q => lock[b] = q
      BY <1>2, <1>8, <1>9 DEF LockMoves
    <3> QED BY <1>4, <1>5, <2>1, <3>1, <3>2, <3>3 DEF FlightIsOwned, at
  <2>2. CASE flight'[q][b] = s /\ b = a
    BY <1>3, <1>4, <1>5, <1>6, <2>2 DEF FlightIsOwned, at, isOf
  <2>3. CASE flight'[q][b] = Idle /\ lock'[b] # q
    BY <2>3, IdleTyped DEF FlightIsOwned, at
  <2> QED BY <1>7, <1>8, <2>1, <2>2, <2>3
<1>13. ASSUME NEW f \in Flows PROVE FlowIsOwned(f)' /\ CodeIsOwn(f)'
  <2>1. flow' = flow
    BY DEF flowVars
  <2> QED BY <1>5, <2>1 DEF Inv, FlowIsOwned, CodeIsOwn, isPending, in
<1>14. ASSUME isLocked
       PROVE  /\ \A q \in Processes, b \in Accounts : FlightIsSafe(q, b)'
              /\ \A b \in Accounts : RowIsSafe(b)'
              /\ \A f \in Flows : FlowIsSafe(f)'
  <2>1. ASSUME NEW d, isUsed(d)', d # 0, d # c PROVE isUsed(d)
    <3>1. CASE \E b \in Accounts : row'[b] # None /\ row'[b].cred = d
      BY <1>2, <3>1 DEF isUsed, isStored
    <3>2. ASSUME NEW q \in Processes, NEW b \in Accounts, flight'[q][b].cred = d PROVE isUsed(d)
      <4>1. flight'[q][b] = flight[q][b]
        BY <1>6, <1>7, <1>8, <2>1, <3>2, IdleTyped
      <4> QED BY <3>2, <4>1 DEF isUsed
    <3> QED BY <2>1, <3>1, <3>2 DEF isUsed, isStored
  <2>2. isUsed(c)
    BY <1>1 DEF isUsed
  <2>3. ~isUsed(n)'
    <3>1. ~isUsed(n)
      <4>1. \A b \in Accounts : isStored(b) => row[b].cred # n
        BY <1>5 DEF Inv
      <4>2. \A q \in Processes, b \in Accounts : flight[q][b].cred # n
        BY <1>4, <1>5 DEF Inv, FlightIsOwned
      <4> QED BY <4>1, <4>2 DEF isUsed
    <3> QED BY <1>3, <1>4, <1>5, <2>1, <3>1
  <2>4. ASSUME NEW q \in Processes, NEW b \in Accounts PROVE FlightIsSafe(q, b)'
    <3>0. FlightIsSafe(q, b) /\ FlightIsOwned(q, b)
      BY <1>14 DEF Inv
    <3>1. CASE q = p /\ b = a
      <4>1. lock[a] = p \/ c \in overtaken
        BY <1>0, <1>1, <1>2, <1>14 DEF FlightIsSafe
      <4>2. CASE flight'[p][a] = s /\ UNCHANGED <<lost, lock>>
        <5>1. ASSUME NEW r \in Processes \ {p}, (at(r, a, "saving"))'
              PROVE  flight'[r][a].new # n
          <6>1. flight'[r][a] = flight[r][a] /\ at(r, a, "saving")
            BY <1>7, <5>1 DEF at
          <6> QED BY <1>5, <6>1 DEF Inv, FlightIsOwned
        <5> QED BY <1>2, <1>4, <1>6, <2>3, <3>1, <4>1, <4>2, <5>1 DEF FlightIsSafe, at
      <4>3. CASE flight'[p][a] = Idle
        BY <3>1, <4>3, IdleTyped DEF FlightIsSafe, at
      <4>4. CASE flight'[p][a] = flight[p][a] /\ UNCHANGED lock /\ lost' = lost \union {c}
        BY <1>1, <1>2, <3>1, <4>1, <4>4 DEF FlightIsSafe, at
      <4> QED BY <1>8, <4>2, <4>3, <4>4
    <3>2. CASE ~(q = p /\ b = a)
      <4>1. flight'[q][b] = flight[q][b] /\ lost \subseteq lost' /\ overtaken' = overtaken
        BY <1>2, <1>7, <3>2
      <4>2. CASE flight[q][b].pc \notin {"exchanging", "saving", "marking"}
        BY <4>1, <4>2 DEF FlightIsSafe, at
      <4>3. CASE flight[q][b].pc \in {"exchanging", "saving", "marking"}
        <5>1. lock[b] = q \/ flight[q][b].cred \in overtaken
          BY <3>0, <4>3 DEF FlightIsSafe
        <5>2. lock'[b] = q \/ flight[q][b].cred \in overtaken
          BY <1>2, <1>9, <1>14, <3>2, <5>1 DEF LockMoves
        \* Of two refreshes with one grant, one has had its lock taken over.
        <5>3. flight[q][b].cred = c => c \in overtaken
          <6>1. ASSUME flight[q][b].cred = c PROVE c \in overtaken
            <7>1. b = a /\ q # p
              BY <1>3, <3>0, <3>2, <4>3, <6>1 DEF FlightIsOwned, at, isOf
            <7>2. lock[a] = p \/ c \in overtaken
              BY <1>0, <1>1, <1>2, <1>14 DEF FlightIsSafe
            <7> QED BY <5>1, <6>1, <7>1, <7>2
          <6> QED BY <6>1
        <5>4. at(q, b, "saving") => flight[q][b].new # c /\ flight[q][b].new # 0
                                    /\ ~isUsed(flight[q][b].new)
          BY <2>2, <3>0, IssuedAreIds DEF FlightIsSafe, FlightIsOwned, isOf
        <5>5. at(q, b, "saving") => ~isUsed(flight[q][b].new)'
          BY <2>1, <4>1, <5>4
        <5>6. flight[q][b].pc \in {"exchanging", "marking"} /\ flight[q][b].cred \notin alive'
                => flight[q][b].cred \in lost' \union overtaken
          BY <1>4, <3>0, <4>1, <5>3 DEF FlightIsSafe
        <5>7. ASSUME at(q, b, "saving"), NEW r \in Processes \ {q}, (at(r, b, "saving"))'
              PROVE  flight'[r][b].new # flight[q][b].new
          <6>1. CASE r = p /\ b = a
            <7>1. flight[q][b].new # n
              BY <1>5, <3>0, <5>7 DEF FlightIsOwned
            <7>2. flight'[r][b].new = n \/ flight'[r][b] = Idle \/ flight'[r][b] = flight[p][a]
              BY <1>6, <1>8, <6>1
            <7> QED BY <1>2, <5>7, <6>1, <7>1, <7>2, IdleTyped DEF at
          <6>2. CASE ~(r = p /\ b = a)
            <7>1. flight'[r][b] = flight[r][b]
              BY <1>7, <6>2
            <7> QED BY <3>0, <5>7, <7>1 DEF FlightIsSafe, at
          <6> QED BY <6>1, <6>2
        <5> QED BY <1>4, <3>0, <4>1, <5>2, <5>4, <5>5, <5>6, <5>7 DEF FlightIsSafe, at
      <4> QED BY <4>2, <4>3
    <3> QED BY <3>1, <3>2
  <2>5. ASSUME NEW b \in Accounts PROVE RowIsSafe(b)'
    <3> SUFFICES ASSUME row[b] # None PROVE RowIsSafe(b)'
      BY <1>2 DEF RowIsSafe, isStored
    <3>1. RowIsSafe(b) /\ isStored(b) /\ row'[b] = row[b] /\ lost \subseteq lost'
          /\ overtaken' = overtaken /\ row[b].cred # n
      BY <1>2, <1>5, <1>14 DEF Inv, isStored
    <3>2. row'[b].reauth => row'[b].cred \in (lost' \union overtaken') \ alive'
      BY <1>4, <3>1 DEF RowIsSafe
    <3>3. \/ row'[b].cred \in alive' \union lost'
          \/ \E q \in Processes : (at(q, b, "saving") /\ flight[q][b].cred = row[b].cred)'
      <4>1. CASE row[b].cred \in alive /\ row[b].cred # c
        BY <1>4, <3>1, <4>1
      <4>2. CASE row[b].cred = c
        <5>1. b = a
          BY <1>3, <3>1, <4>2 DEF Inv, isOf
        <5> QED BY <1>6, <1>8, <3>1, <4>2, <5>1 DEF at
      <4>3. CASE row[b].cred \in lost
        BY <3>1, <4>3
      <4>4. ASSUME NEW q \in Processes, at(q, b, "saving"), flight[q][b].cred = row[b].cred
            PROVE  (at(q, b, "saving") /\ flight[q][b].cred = row[b].cred)'
        BY <1>2, <1>7, <3>1, <4>4 DEF at
      <4> QED BY <3>1, <4>1, <4>2, <4>3, <4>4 DEF RowIsSafe
    <3> QED BY <3>2, <3>3 DEF RowIsSafe
  <2>6. ASSUME NEW f \in Flows PROVE FlowIsSafe(f)'
    <3>1. flow' = flow /\ FlowIsSafe(f) /\ FlowIsOwned(f)
      BY <1>14 DEF Inv, flowVars
    <3>2. isPending(f) => flow[f].cred # c /\ flow[f].cred # 0 /\ ~isUsed(flow[f].cred)
      BY <2>2, <3>1, IssuedAreIds DEF FlowIsSafe, FlowIsOwned
    <3>3. isPending(f) => ~isUsed(flow[f].cred)'
      BY <2>1, <3>1, <3>2
    <3> QED BY <1>4, <3>1, <3>2, <3>3 DEF FlowIsSafe, isPending
  <2> QED BY <2>4, <2>5, <2>6
<1>15. isLocked' = isLocked
  BY <1>2 DEF isLocked
<1>16. Inv'
  BY <1>4, <1>10, <1>11, <1>12, <1>13, <1>14, <1>15 DEF Inv
<1>17. Cells!Next
  BY <1>2 DEF Cells!Next, Cells!Provider, isStored, isLocked
<1> QED BY <1>16, <1>17

LEMMA ExchangeCodeStep ==
  ASSUME Inv, NEW f \in Flows, NEW a \in Accounts, ExchangeCode(f, a)
  PROVE  Inv' /\ [Cells!Next]_cellVars
<1>0. flow \in [Flows -> FlowRecord] /\ flow[f] \in FlowRecord
  BY DEF Inv, TypeOK
<1>1. PICK n : n = next
  OBVIOUS
<1> DEFINE r == [flow[f] EXCEPT
                   !.pc = IF flow[f].target # None THEN "verifying" ELSE "saving",
                   !.who = a, !.cred = n]
<1>2. /\ flow' = [flow EXCEPT ![f] = r] /\ issues(a, 0)
      /\ UNCHANGED <<loginState, loginAbort, slot, policy, row, active, lost, overtaken, flight,
                     verdicts, lock, mishaps>>
  BY <1>1 DEF ExchangeCode, past
<1>3. /\ n \in Ids /\ n # 0 /\ n \notin DOMAIN issued
      /\ DOMAIN issued' = DOMAIN issued \union {n} /\ issued'[n] = [owner |-> a, from |-> 0]
      /\ \A d \in DOMAIN issued : issued'[d] = issued[d]
      /\ issued' \in Seq([owner : Accounts, from : Ids \union {0}]) /\ Len(issued') <= MaxIssued
      /\ alive' = (alive \ {0}) \union {n} /\ alive' \subseteq Ids /\ alive' \subseteq DOMAIN issued'
  BY <1>1, <1>2, IssuedGrows
<1>4. /\ \A d, b : isOf(d, b) => isOf(d, b)' /\ d # n
      /\ \A g \in Flows : isPending(g) =>
           flow[g].cred \in DOMAIN issued' /\ flow[g].cred # n
           /\ issued'[flow[g].cred] = [owner |-> flow[g].who, from |-> 0]
  BY <1>1, <1>2, OwnedStill
<1>5. r \in FlowRecord /\ r.who = a /\ r.cred = n /\ r.code = flow[f].code
      /\ r.target = flow[f].target
      /\ r.pc = IF flow[f].target # None THEN "verifying" ELSE "saving"
  BY <1>0, <1>3 DEF FlowRecord
<1> HIDE DEF r
<1>6. flow' \in [Flows -> FlowRecord] /\ flow'[f] = r
      /\ \A g \in Flows \ {f} : flow'[g] = flow[g]
  BY <1>0, <1>2, <1>5
<1>7. TypeOK'
  BY <1>2, <1>3, <1>6 DEF Inv, TypeOK, AccountsTypeOK
<1>8. \A b \in Accounts : isStored(b)' => isOf(row[b].cred, b)'
  <2>1. \A b \in Accounts : isStored(b) => isOf(row[b].cred, b)
    BY DEF Inv
  <2> QED BY <1>2, <1>4, <2>1 DEF isStored, isOf
<1>9. 0 \notin DOMAIN issued /\ alive \subseteq DOMAIN issued
  BY IssuedAreIds DEF Inv, Ids
<1>10. alive' = alive \union {n}
  BY <1>3, <1>9
<1>11. ASSUME NEW q \in Processes, NEW b \in Accounts PROVE FlightIsOwned(q, b)'
  <2>1. FlightIsOwned(q, b) /\ flight' = flight
    BY <1>2 DEF Inv
  <2>2. at(q, b, "saving") => issued'[flight[q][b].new] = issued[flight[q][b].new]
    BY <1>3, <2>1 DEF FlightIsOwned, isOf
  <2> QED BY <1>2, <1>4, <1>10, <2>1, <2>2 DEF FlightIsOwned, at
<1>12. ASSUME NEW g \in Flows PROVE FlowIsOwned(g)' /\ CodeIsOwn(g)'
  <2>1. FlowIsOwned(g) /\ CodeIsOwn(g)
    BY DEF Inv
  <2>2. CASE g = f
    <3>1. FlowIsOwned(f)'
      BY <1>3, <1>5, <1>6 DEF FlowIsOwned, in
    <3> QED BY <1>5, <1>6, <2>1, <2>2, <3>1 DEF CodeIsOwn
  <2>3. CASE g # f
    <3>1. flow'[g] = flow[g]
      BY <1>6, <2>3
    <3> QED BY <1>4, <2>1, <3>1 DEF FlowIsOwned, CodeIsOwn, isPending, in
  <2> QED BY <2>2, <2>3
<1>13. ASSUME isLocked
       PROVE  /\ \A q \in Processes, b \in Accounts : FlightIsSafe(q, b)'
              /\ \A b \in Accounts : RowIsSafe(b)'
              /\ \A g \in Flows : FlowIsSafe(g)'
  <2>1. \A d : isUsed(d)' <=> isUsed(d)
    BY <1>2 DEF isUsed, isStored
  <2>2. ~isUsed(n)
    <3>1. \A b \in Accounts : isStored(b) => row[b].cred # n
      BY <1>4 DEF Inv
    <3>2. \A q \in Processes, b \in Accounts : flight[q][b].cred # n
      BY <1>3, <1>4 DEF Inv, FlightIsOwned
    <3> QED BY <3>1, <3>2 DEF isUsed
  <2>3. ASSUME NEW q \in Processes, NEW b \in Accounts PROVE FlightIsSafe(q, b)'
    <3>1. FlightIsSafe(q, b)
      BY <1>13 DEF Inv
    <3> QED BY <1>2, <1>10, <2>1, <3>1 DEF FlightIsSafe, at
  <2>4. ASSUME NEW b \in Accounts PROVE RowIsSafe(b)'
    <3>1. RowIsSafe(b) /\ (isStored(b) => row[b].cred # n)
      BY <1>4, <1>13 DEF Inv
    <3> QED BY <1>2, <1>10, <3>1 DEF RowIsSafe, isStored, at
  <2>5. ASSUME NEW g \in Flows PROVE FlowIsSafe(g)'
    <3>1. \A h \in Flows \ {f} : flow'[h] = flow[h] /\ FlowIsSafe(h)
      BY <1>6, <1>13 DEF Inv
    <3>2. CASE g = f
      <4>1. \A h \in Flows \ {f} : isPending(h)' => flow'[h].cred # n
        BY <1>4, <3>1 DEF isPending
      <4> QED BY <1>5, <1>6, <1>10, <2>1, <2>2, <3>2, <4>1 DEF FlowIsSafe
    <3>3. CASE g # f
      <4> SUFFICES ASSUME isPending(g)' PROVE FlowIsSafe(g)'
        BY DEF FlowIsSafe
      <4>1. flow'[g] = flow[g] /\ isPending(g) /\ FlowIsSafe(g) /\ flow[g].cred # n
        BY <1>4, <3>1, <3>3 DEF isPending
      <4>2. \A h \in Flows \ {g} : isPending(h)' => flow'[h].cred # flow'[g].cred
        BY <1>5, <1>6, <3>1, <4>1 DEF FlowIsSafe, isPending
      <4> QED BY <1>10, <2>1, <4>1, <4>2 DEF FlowIsSafe
    <3> QED BY <3>2, <3>3
  <2> QED BY <2>3, <2>4, <2>5
<1>14. isLocked' = isLocked
  BY <1>2 DEF isLocked
<1>15. Inv'
  BY <1>3, <1>7, <1>8, <1>11, <1>12, <1>13, <1>14 DEF Inv
<1>16. Cells!Next
  BY <1>2 DEF Cells!Next, Cells!Provider, isStored, isLocked
<1> QED BY <1>15, <1>16

-----------------------------------------------------------------------------
(* Theorems *)

LEMMA Initially == Init => Inv /\ Cells!Init
<1> SUFFICES ASSUME Init PROVE Inv /\ Cells!Init
  OBVIOUS
<1>1. /\ row = [a \in Accounts |-> None] /\ issued = <<>> /\ alive = {} /\ lost = {}
      /\ overtaken = {} /\ lock = [a \in Accounts |-> None]
      /\ flight = [p \in Processes |-> [a \in Accounts |-> Idle]]
      /\ flow = [f \in Flows |-> Unstarted] /\ policy \in {"locked", "plain"}
  BY DEF Init, AccountsInit
<1>2. Unstarted \in FlowRecord /\ Unstarted.pc = "idle" /\ Unstarted.code = None
  BY DEF Unstarted, FlowRecord
<1>3. issued \in Seq([owner : Accounts, from : Ids \union {0}]) /\ Len(issued) <= MaxIssued
  BY <1>1, AccountsAssumption
<1>4. flight \in [Processes -> [Accounts -> Flight]]
      /\ \A p \in Processes, a \in Accounts : flight[p][a] = Idle
  BY <1>1, IdleTyped
<1>5. TypeOK
  BY <1>1, <1>2, <1>3, <1>4 DEF Init, AccountsInit, TypeOK, AccountsTypeOK
<1>6. \A p \in Processes, a \in Accounts : FlightIsOwned(p, a) /\ FlightIsSafe(p, a)
  BY <1>1, <1>4, IdleTyped, AccountsAssumption DEF FlightIsOwned, FlightIsSafe, at
<1>7. \A f \in Flows : FlowIsOwned(f) /\ CodeIsOwn(f) /\ FlowIsSafe(f)
  BY <1>1, <1>2 DEF FlowIsOwned, CodeIsOwn, FlowIsSafe, isPending
<1>8. \A a \in Accounts : ~isStored(a)
  BY <1>1 DEF isStored
<1>9. \A a \in Accounts : RowIsSafe(a)
  BY <1>8 DEF RowIsSafe
<1>10. Cells!Init
  BY <1>1, <1>8 DEF Cells!Init, isLocked
<1> QED BY <1>1, <1>5, <1>6, <1>7, <1>8, <1>9, <1>10 DEF Inv

LEMMA Step == Inv /\ [Next]_vars => Inv' /\ [Cells!Next]_cellVars
<1> SUFFICES ASSUME Inv, [Next]_vars PROVE Inv' /\ [Cells!Next]_cellVars
  OBVIOUS
<1>1. ASSUME NEW f \in Flows, FlowStep(f) PROVE Inv' /\ [Cells!Next]_cellVars
  BY <1>1, FlowSteps, ExchangeCodeStep, SaveLoginStep DEF FlowStep
<1>2. ASSUME NEW input \in Inputs, Submit(input) PROVE Inv' /\ [Cells!Next]_cellVars
  BY <1>2, SubmitStep
<1>3. CASE Cancel
  BY <1>3, CancelStep
<1>4. ASSUME NEW a \in Accounts, RemoveAccount(a) \/ SetActive(a) \/ (Expires(a) /\ UNCHANGED flowVars)
      PROVE  Inv' /\ [Cells!Next]_cellVars
  BY <1>4, RemovalSteps, SetActiveStep, ExpiresStep
<1>5. ASSUME NEW p \in Processes, NEW a \in Accounts, Refresh(p, a)
      PROVE  Inv' /\ [Cells!Next]_cellVars
  BY <1>5, RefreshSteps, ExchangeStep, SaveStep, MarkStep DEF Refresh, RefreshStep
<1>6. ASSUME NEW p \in Processes, Crash(p) PROVE Inv' /\ [Cells!Next]_cellVars
  BY <1>6, CrashStep
<1>7. ASSUME NEW p \in Processes, NEW c \in Ids, Forget(p, c), UNCHANGED flowVars
      PROVE  Inv' /\ [Cells!Next]_cellVars
  BY <1>7, ForgetStep
<1>8. CASE Logout
  BY <1>8, RemovalSteps
<1>9. CASE UNCHANGED vars
  <2>1. UNCHANGED flowVars /\ UNCHANGED accountVars
    BY <1>9 DEF vars
  <2>2. \A f \in Flows : FlowGoesOn(f)
    BY <2>1, UnchangedGoesOn DEF flowVars
  <2>3. flow' \in [Flows -> FlowRecord] /\ MapsTyped' /\ active' \in Accounts \union {None}
    BY <2>1 DEF Inv, TypeOK, AccountsTypeOK, MapsTyped, flowVars, accountVars
  <2> QED BY <2>1, <2>2, <2>3, FlowsOnly DEF accountVars, grantVars, past
<1> QED BY <1>1, <1>2, <1>3, <1>4, <1>5, <1>6, <1>7, <1>8, <1>9 DEF Next

LEMMA Invariance == Spec => []Inv
<1>1. Init => Inv
  BY Initially
<1>2. Inv /\ [Next]_vars => Inv'
  BY Step
<1> QED BY <1>1, <1>2, PTL DEF Spec

\* The store, the refreshes and the flows keep their types.
THEOREM TypeCorrect == Spec => []TypeOK
<1>1. Inv => TypeOK
  BY DEF Inv
<1> QED BY <1>1, Invariance, PTL

\* RowsAreOwned (src/src/oauth/store.ts): no row ever has the credential of
\* another account, for either policy.
THEOREM RowsOwned == Spec => []RowsAreOwned
<1>1. Inv => RowsAreOwned
  BY DEF Inv, RowsAreOwned, isOf
<1> QED BY <1>1, Invariance, PTL

\* GrantsAreNotReplayed (src/src/oauth/index.ts, refreshXaiAccountWithLock): a
\* used up grant is exchanged again only if what it brought is lost, or if the
\* lock of a process that had it in hand was taken over.
THEOREM GrantsNotReplayed == Spec => []GrantsAreNotReplayed
<1>1. Inv => GrantsAreNotReplayed
  BY DEF Inv, FlightIsSafe, GrantsAreNotReplayed, at
<1> QED BY <1>1, Invariance, PTL

\* ReauthIsDeserved (markAccountNeedsReauthIfGeneration): an account that asks
\* for a login holds a dead grant, which died for one of these reasons.
THEOREM ReauthDeserved == Spec => []ReauthIsDeserved
<1>1. Inv => ReauthIsDeserved
  BY DEF Inv, RowIsSafe, ReauthIsDeserved
<1> QED BY <1>1, Invariance, PTL

\* PastesStayInTheirLogin (callback-server.ts): a pasted redirect URL is
\* exchanged by the flow that it is of.
THEOREM PastesStay == Spec => []PastesStayInTheirLogin
<1>1. Inv => PastesStayInTheirLogin
  BY DEF Inv, CodeIsOwn, PastesStayInTheirLogin
<1> QED BY <1>1, Invariance, PTL

\* CellsSpec (src/src/oauth/store.ts): the flows, the refreshes and the store
\* implement the cells of the accounts, for either policy.
THEOREM AccountsAreCells == Spec => CellsSpec
<1>1. Init => Cells!Init
  BY Initially
<1>2. Inv /\ [Next]_vars
        => [Cells!Next]_<<isLocked, [a \in Accounts |-> IF isStored(a)
                                     THEN [cred |-> row[a].cred, condemned |-> row[a].reauth]
                                     ELSE None], issued, alive>>
  BY Step DEF cellVars, cells
<1> QED BY <1>1, <1>2, Invariance, PTL DEF Spec, CellsSpec, Cells!Spec, Cells!vars

=============================================================================
