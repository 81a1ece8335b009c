---------------------------- MODULE ResponseState ----------------------------
(***************************************************************************)
(* The continuation store of src/src/responses/state.ts: the responses by  *)
(* their id, each with the conversation that it ends, so that a turn that  *)
(* names its previous response can be sent upstream with all of it.        *)
(*                                                                         *)
(* The store is a Map in memory, loaded lazily from a snapshot on disk and *)
(* saved to it after a delay; a crash loses what was not saved.            *)
(*                                                                         *)
(* A response is named by its turn.  An item of a conversation is a turn,  *)
(* which stands for its input and its output; each is one unit of the size *)
(* that the caps of the snapshot bound.  order is the place of an entry in *)
(* the insertion order of the Map, which the snapshot keeps.  A request    *)
(* whose store is false is not recorded unless forced: it is left out.     *)
(***************************************************************************)
EXTENDS Naturals, Sequences, FiniteSets, FiniteSetsExt

CONSTANTS
  Turns,       \* the turns, by number: a response is recorded once
  None,        \* no record
  MaxStored,   \* MAX_STORED_RESPONSES
  TTL,         \* RESPONSE_TTL_MS
  EntryMax,    \* SNAPSHOT_ENTRY_MAX_BYTES
  TotalMax     \* SNAPSHOT_TOTAL_MAX_BYTES

ASSUME StoreAssumption ==
  /\ Turns \subseteq Nat \ {0}
  /\ MaxStored \in Nat \ {0} /\ TTL \in Nat /\ EntryMax \in Nat /\ TotalMax \in Nat
  /\ None \notin [items : Seq(Turns), createdAt : Nat]

VARIABLES
  states,    \* the entries in memory
  loaded,    \* the snapshot has been read by this process
  timer,     \* persistTimer is set
  failed,    \* history: the last save failed
  snapshot,  \* the entries on disk
  recorded,  \* history: what rememberResponseState was given for a turn
  now        \* the clock

storeVars == <<states, loaded, timer, failed, snapshot, recorded, now>>

Entry == [id : Turns, items : Seq(Turns), createdAt : Nat, order : Nat]

StoreTypeOK ==
  /\ states \subseteq Entry /\ snapshot \subseteq Entry
  /\ loaded \in BOOLEAN /\ timer \in BOOLEAN /\ failed \in BOOLEAN
  /\ recorded \in [Turns -> [items : Seq(Turns), createdAt : Nat] \union {None}]
  /\ now \in Nat

StoreInit ==
  /\ states = {} /\ snapshot = {}
  /\ loaded = FALSE /\ timer = FALSE /\ failed = FALSE
  /\ recorded = [t \in Turns |-> None]
  /\ now = 0

-----------------------------------------------------------------------------
(* Pruning, loading and saving *)

newest(entries) ==
  {e \in entries : Cardinality({f \in entries : f.order > e.order}) < MaxStored}

\* Fault: an entry never gets too old.
prunedByNumber(entries) == newest(entries)

\* First those that are too old, then the oldest of those left.
pruned(entries) == newest({e \in entries : now - e.createdAt <= TTL})

\* ensureLoaded, then pruneResponses: what any use of the store finds.
current == pruned(IF loaded THEN states ELSE snapshot)

size(entries) == MapThenSumSet(LAMBDA e : Len(e.items), entries)

\* The entries of a snapshot: newest first, leaving out each that is too
\* large, up to the one with which they would be too large together.
saved(entries) ==
  LET small == {e \in entries : Len(e.items) <= EntryMax} IN
  {e \in small : size({f \in small : f.order >= e.order}) <= TotalMax}

-----------------------------------------------------------------------------
(* The operations *)

isStored(p) == \E e \in current : e.id = p

\* expandPreviousResponseInput: what comes before the input of a turn that
\* names response p.
conversation(p) ==
  IF isStored(p) THEN (CHOOSE e \in current : e.id = p).items ELSE <<>>

expand ==
  /\ states' = current
  /\ loaded' = TRUE
  /\ UNCHANGED <<timer, failed, snapshot, recorded, now>>

\* rememberResponseState: turn t has completed the conversation items.
rememberResponseState(t, items) ==
  LET known == {u \in Turns : recorded[u] # None}
      entry == [id |-> t, items |-> items, createdAt |-> now, order |-> Cardinality(known)] IN
  /\ states' = pruned(current \union {entry})
  /\ loaded' = TRUE
  /\ timer' = TRUE
  /\ recorded' = [recorded EXCEPT ![t] = [items |-> items, createdAt |-> now]]
  /\ UNCHANGED <<failed, snapshot, now>>

\* persistNow, when the timer fires or for flushResponseState: a save that
\* fails is not tried again.
persistNow ==
  /\ timer' = FALSE
  /\ \/ snapshot' = saved(states) /\ failed' = FALSE
     \/ snapshot' = snapshot /\ failed' = TRUE
  /\ UNCHANGED <<states, loaded, recorded, now>>

\* Fault: the flush only cancels the timer.
flushNothing ==
  /\ timer' = FALSE
  /\ UNCHANGED <<states, loaded, failed, snapshot, recorded, now>>

flushResponseState == IF timer THEN persistNow ELSE UNCHANGED storeVars

\* Another process: it has the snapshot, and has not read it.
restart ==
  /\ states' = {} /\ loaded' = FALSE /\ timer' = FALSE /\ failed' = FALSE
  /\ UNCHANGED <<snapshot, recorded, now>>

pass ==
  /\ now' = now + 1
  /\ UNCHANGED <<states, loaded, timer, failed, snapshot, recorded>>

-----------------------------------------------------------------------------
(* Properties *)

\* Unless a save is due or has failed, the snapshot has every entry that a
\* save would keep: the timer, the flush and the lazy load leave none behind.
SnapshotIsCurrent == loaded /\ ~timer /\ ~failed => saved(states) \subseteq snapshot

=============================================================================
