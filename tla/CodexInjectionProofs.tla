------------------------ MODULE CodexInjectionProofs ------------------------
(***************************************************************************)
(* Proofs about CodexInjection, for any processes, texts and arguments.    *)
(*                                                                         *)
(* While a restore is under way no injection begins and nobody edits.  The *)
(* file that every pending write of config.toml would make is then fixed   *)
(* by the files themselves (target), and it stays the same whoever writes  *)
(* first, removes the journal or writes another: this is why restores of   *)
(* several processes may interleave.                                       *)
(***************************************************************************)
EXTENDS CodexInjection, FiniteSetTheorems, SequenceTheorems, TLAPS

-----------------------------------------------------------------------------
(* The invariant *)

\* A configuration without anything of ours.
Bare(c) == c.ours = None /\ ~c.routed

injectionOf(c, a) ==
  [c EXCEPT !.overrides = FALSE, !.ours = a, !.routed = c.text \notin OwnUrls]

\* What a restore that begins now would make of config.toml.
target == IF journal # None /\ configUnchanged THEN journal.config ELSE stripped

\* A restore that begins now would leave config.toml as it is.
Calm == Bare(config) /\ (journal # None /\ journal.marked = None => journal.config = config)

isUnmarked == journal = None \/ journal.marked = None

\* The configuration without a journal is the user's; a journal is that of
\* a bare configuration, and once it is marked, of an injected one.
FilesOK ==
  /\ config.routed => config.ours # None
  /\ journal = None =>
       /\ Bare(config) /\ profile \notin Args
       /\ config = native /\ ~touched /\ used = {} /\ seen = None
  /\ journal # None =>
       /\ Bare(journal.config) /\ journal.profile \notin Args
       /\ journal.marked # None => journal.marked.ours # None
       /\ seen = IF journal.marked = None THEN None ELSE journal.marked.text
  /\ IsFiniteSet(used)

\* With a journal, and as long as nothing but one injection happened, the
\* configuration is the one journaled or its injection, and so is the mark.
IsInjection(c) == \E a \in Args : used = {a} /\ c = injectionOf(journal.config, a)
CleanOK ==
  journal # None /\ isClean =>
    /\ native = journal.config
    /\ config = journal.config \/ IsInjection(config)
    /\ journal.marked = None \/ IsInjection(journal.marked)

\* The writes left to a call that does not inject: the configuration becomes
\* the target, a journal is removed after that or when that would not change
\* anything, and one that is written is of the files as they are.
precedes(ws, i, file) == \E j \in 1..(i - 1) : ws[j].file = file
Restores(kind, ws) ==
  /\ \A i \in 1..Len(ws) :
       /\ ws[i].file = "config" => ws[i].to = target
       /\ ws[i].file = "profile" => ws[i].to \notin Args
       /\ ws[i].file = "journal" /\ ws[i].to = None =>
            /\ Calm \/ precedes(ws, i, "config")
            /\ profile \notin Args \/ precedes(ws, i, "profile")
       /\ ws[i].file = "journal" /\ ws[i].to # None =>
            /\ ws[i].to.config = config /\ ws[i].to.marked = None
            /\ ws[i].to.profile \notin Args /\ profile \notin Args
            /\ Calm /\ isUnmarked
  /\ kind = "restore" => Bare(config) \/ precedes(ws, Len(ws) + 1, "config")
RestoreOK(p) ==
  section[p] # None /\ section[p].kind # "inject" =>
    Restores(section[p].kind, section[p].writes)

\* An injection is alone.  Its writes are those of one that begins now, or
\* what is left of them when the configuration, or the profile, is written.
InjectOK(p) ==
  section[p] # None /\ section[p].kind = "inject" =>
    /\ \A q \in Pids \ {p} : section[q] = None
    /\ \E a \in Args :
         LET ws == section[p].writes IN
         \/ ws = injectWrites(p, a)
         \/ journal # None /\ config = injected(a) /\ ws = toProfile(a) \o marking(journal, a)
         \/ journal # None /\ config = injected(a) /\ ws = marking(journal, a)
         \/ ws = <<>>

SectionsOK == \A p \in Pids : RestoreOK(p) /\ InjectOK(p)

Inv == TypeOK /\ FilesOK /\ CleanOK /\ SectionsOK

-----------------------------------------------------------------------------
(* Lists of writes *)

LEMMA PairOf ==
  ASSUME NEW x, NEW y
  PROVE  <<x>> \o <<y>> = <<x, y>>
<1> DEFINE S == {x, y}
           s == <<x>> \o <<y>>
           t == <<x, y>>
<1>0. x \in S /\ y \in S
  OBVIOUS
<1> HIDE DEF S
<1>1. s \in Seq(S) /\ Len(s) = 2 /\ s[1] = x /\ s[2] = y
  BY <1>0, ConcatProperties
<1>2. t \in Seq(S) /\ Len(t) = 2 /\ t[1] = x /\ t[2] = y
  BY <1>0
<1> HIDE DEF s, t
<1>3. \A i \in 1..2 : s[i] = t[i]
  BY <1>1, <1>2
<1>4. s = t
  BY <1>1, <1>2, <1>3, SeqEqual
<1> QED BY <1>4 DEF s, t

LEMMA TripleOf ==
  ASSUME NEW x, NEW y, NEW z
  PROVE  <<x, y>> \o <<z>> = <<x, y, z>>
<1> DEFINE S == {x, y, z}
           s == <<x, y>> \o <<z>>
           t == <<x, y, z>>
<1>0. x \in S /\ y \in S /\ z \in S
  OBVIOUS
<1> HIDE DEF S
<1>1. s \in Seq(S) /\ Len(s) = 3 /\ s[1] = x /\ s[2] = y /\ s[3] = z
  BY <1>0, ConcatProperties
<1>2. t \in Seq(S) /\ Len(t) = 3 /\ t[1] = x /\ t[2] = y /\ t[3] = z
  BY <1>0
<1> HIDE DEF s, t
<1>3. \A i \in 1..3 : s[i] = t[i]
  BY <1>1, <1>2
<1>4. s = t
  BY <1>1, <1>2, <1>3, SeqEqual
<1> QED BY <1>4 DEF s, t

LEMMA QuadrupleOf ==
  ASSUME NEW u, NEW x, NEW y, NEW z
  PROVE  <<u, x, y>> \o <<z>> = <<u, x, y, z>>
<1> DEFINE S == {u, x, y, z}
           s == <<u, x, y>> \o <<z>>
           t == <<u, x, y, z>>
<1>0. u \in S /\ x \in S /\ y \in S /\ z \in S
  OBVIOUS
<1> HIDE DEF S
<1>1. s \in Seq(S) /\ Len(s) = 4 /\ s[1] = u /\ s[2] = x /\ s[3] = y /\ s[4] = z
  BY <1>0, ConcatProperties
<1>2. t \in Seq(S) /\ Len(t) = 4 /\ t[1] = u /\ t[2] = x /\ t[3] = y /\ t[4] = z
  BY <1>0
<1> HIDE DEF s, t
<1>3. \A i \in 1..4 : s[i] = t[i]
  BY <1>1, <1>2
<1>4. s = t
  BY <1>1, <1>2, <1>3, SeqEqual
<1> QED BY <1>4 DEF s, t

\* Single writes.
ofConfig(c) == [file |-> "config", to |-> c]
ofProfile(f) == [file |-> "profile", to |-> f]
ofJournal(j) == [file |-> "journal", to |-> j]

LEMMA Lists ==
  /\ \A c : toConfig(c) = <<ofConfig(c)>>
  /\ \A f : toProfile(f) = <<ofProfile(f)>>
  /\ \A j : toJournal(j) = <<ofJournal(j)>>
BY DEF toConfig, toProfile, toJournal, ofConfig, ofProfile, ofJournal

\* The writes of a restore from the journal.
LEMMA JournalRestores ==
  ASSUME journal # None
  PROVE  restoreJournalState =
           IF configUnchanged
             THEN IF profileUnchanged
                    THEN <<ofConfig(journal.config), ofProfile(journal.profile), ofJournal(None)>>
                    ELSE <<ofConfig(journal.config)>>
             ELSE IF profileUnchanged THEN <<ofProfile(journal.profile)>> ELSE <<>>
<1> DEFINE C == ofConfig(journal.config)
           P == ofProfile(journal.profile)
           N == ofJournal(None)
<1>1. restoreJournalState =
        (when(configUnchanged, <<C>>) \o when(profileUnchanged, <<P>>))
          \o when(configUnchanged /\ profileUnchanged, <<N>>)
  BY Lists DEF restoreJournalState, when
<1> HIDE DEF C, P, N
<1>2. CASE configUnchanged /\ profileUnchanged
  <2>1. restoreJournalState = (<<C>> \o <<P>>) \o <<N>>
    BY <1>1, <1>2 DEF when
  <2>2. <<C>> \o <<P>> = <<C, P>>
    BY PairOf
  <2>3. <<C, P>> \o <<N>> = <<C, P, N>>
    BY TripleOf
  <2>4. restoreJournalState = <<C, P, N>>
    BY <2>1, <2>2, <2>3
  <2> QED BY <1>2, <2>4 DEF C, P, N
<1>3. CASE configUnchanged /\ ~profileUnchanged
  <2>1. restoreJournalState = (<<C>> \o <<>>) \o <<>>
    BY <1>1, <1>3 DEF when
  <2>2. restoreJournalState = <<C>>
    BY <2>1
  <2> QED BY <1>3, <2>2 DEF C
<1>4. CASE ~configUnchanged /\ profileUnchanged
  <2>1. restoreJournalState = (<<>> \o <<P>>) \o <<>>
    BY <1>1, <1>4 DEF when
  <2>2. restoreJournalState = <<P>>
    BY <2>1
  <2> QED BY <1>4, <2>2 DEF P
<1>5. CASE ~configUnchanged /\ ~profileUnchanged
  <2>1. restoreJournalState = (<<>> \o <<>>) \o <<>>
    BY <1>1, <1>5 DEF when
  <2>2. restoreJournalState = <<>>
    BY <2>1
  <2> QED BY <1>5, <2>2
<1> QED BY <1>2, <1>3, <1>4, <1>5

\* Those of restoreNativeCodex.
LEMMA NativeRestores ==
  restoreNativeCodex =
    IF journal = None
      THEN IF stripped # config THEN <<ofConfig(stripped), ofProfile("absent")>>
                                ELSE <<ofProfile("absent")>>
    ELSE IF configUnchanged THEN restoreJournalState
    ELSE IF stripped # config
      THEN IF profileUnchanged THEN <<ofProfile(journal.profile), ofConfig(stripped)>>
                               ELSE <<ofConfig(stripped)>>
    ELSE IF profileUnchanged THEN <<ofProfile(journal.profile)>> ELSE <<>>
<1> DEFINE C == ofConfig(stripped)
           A == ofProfile("absent")
           P == ofProfile(journal.profile)
<1>1. \A preserve \in BOOLEAN : removeCodexConfig(preserve) =
        (IF stripped # config THEN <<C>> ELSE <<>>) \o (IF preserve THEN <<>> ELSE <<A>>)
  BY Lists DEF removeCodexConfig, when
<1> HIDE DEF C, A, P
<1>2. removeCodexConfig(FALSE) = IF stripped # config THEN <<C, A>> ELSE <<A>>
  <2>1. <<C>> \o <<A>> = <<C, A>> /\ <<>> \o <<A>> = <<A>>
    BY PairOf
  <2> QED BY <1>1, <2>1
<1>3. removeCodexConfig(TRUE) = IF stripped # config THEN <<C>> ELSE <<>>
  <2>1. <<C>> \o <<>> = <<C>> /\ <<>> \o <<>> = <<>>
    OBVIOUS
  <2> QED BY <1>1, <2>1
<1>4. CASE journal = None
  <2>1. restoreNativeCodex = <<>> \o removeCodexConfig(FALSE)
    BY <1>4 DEF restoreNativeCodex, restoreJournalState
  <2>2. <<>> \o <<C, A>> = <<C, A>> /\ <<>> \o <<A>> = <<A>>
    OBVIOUS
  <2>3. restoreNativeCodex = IF stripped # config THEN <<C, A>> ELSE <<A>>
    BY <1>2, <2>1, <2>2
  <2> QED BY <1>4, <2>3 DEF C, A
<1>5. CASE journal # None /\ configUnchanged
  <2>1. restoreNativeCodex = restoreJournalState \o <<>>
    BY <1>5 DEF restoreNativeCodex
  <2>2. restoreNativeCodex = restoreJournalState
    BY <1>5, <2>1, JournalRestores
  <2> QED BY <1>5, <2>2
<1>6. CASE journal # None /\ ~configUnchanged
  <2>1. restoreNativeCodex =
          (IF profileUnchanged THEN <<P>> ELSE <<>>) \o (IF stripped # config THEN <<C>> ELSE <<>>)
    <3>1. restoreJournalState = IF profileUnchanged THEN <<P>> ELSE <<>>
      BY <1>6, JournalRestores DEF P
    <3>2. restoreNativeCodex = restoreJournalState \o removeCodexConfig(TRUE)
      BY <1>6 DEF restoreNativeCodex
    <3> QED BY <1>3, <3>1, <3>2
  <2>2. <<P>> \o <<C>> = <<P, C>> /\ <<P>> \o <<>> = <<P>>
        /\ <<>> \o <<C>> = <<C>> /\ <<>> \o <<>> = <<>>
    BY PairOf
  <2>3. restoreNativeCodex =
          IF stripped # config THEN IF profileUnchanged THEN <<P, C>> ELSE <<C>>
                               ELSE IF profileUnchanged THEN <<P>> ELSE <<>>
    BY <2>1, <2>2
  <2> QED BY <1>6, <2>3 DEF P, C
<1> QED BY <1>4, <1>5, <1>6

-----------------------------------------------------------------------------
(* What restores aim at *)

LEMMA Strip ==
  ASSUME TypeOK
  PROVE  stripped \in Config /\ Bare(stripped) /\ stripped.text = config.text
           /\ (Bare(config) => stripped = config)
BY DEF TypeOK, Config, stripped, Bare

LEMMA TargetIsBare ==
  ASSUME TypeOK, FilesOK
  PROVE  target \in Config /\ Bare(target) /\ (Calm => target = config)
<1>1. CASE journal # None /\ configUnchanged
  <2>1. journal.config \in Config /\ Bare(journal.config)
    BY <1>1 DEF TypeOK, FilesOK
  <2>2. Calm => journal.config = config
    BY <1>1 DEF Calm, configUnchanged, FilesOK, Bare
  <2> QED BY <1>1, <2>1, <2>2 DEF target
<1>2. CASE ~(journal # None /\ configUnchanged)
  BY <1>2, Strip DEF target, Calm
<1> QED BY <1>1, <1>2

\* A journal that is written is one.
LEMMA SnapshotTyped ==
  ASSUME TypeOK, FilesOK, journal = None, NEW p \in Pids
  PROVE  snapshot(p) \in Journal
BY DEF TypeOK, FilesOK, snapshot, Journal, Profile

LEMMA WritesTyped ==
  /\ \A c \in Config : ofConfig(c) \in Write
  /\ \A f \in Profile : ofProfile(f) \in Write
  /\ \A j \in Journal \union {None} : ofJournal(j) \in Write
BY DEF Write, ofConfig, ofProfile, ofJournal

\* Every kind of restore leaves only writes that fit.
LEMMA JournalRestoresFit ==
  ASSUME TypeOK, FilesOK
  PROVE  /\ restoreJournalState \in Seq(Write)
         /\ Restores("reconcile", restoreJournalState)
         /\ journal # None /\ configUnchanged => Restores("restore", restoreJournalState)
<1>1. CASE journal = None
  <2>1. restoreJournalState = <<>>
    BY <1>1 DEF restoreJournalState
  <2> QED BY <1>1, <2>1 DEF Restores
<1>2. CASE journal # None
  <2> DEFINE C == ofConfig(journal.config)
             P == ofProfile(journal.profile)
             N == ofJournal(None)
  <2>1. C \in Write /\ P \in Write /\ N \in Write
    BY <1>2, WritesTyped DEF TypeOK
  <2>2. /\ C.file = "config" /\ C.to = journal.config
        /\ P.file = "profile" /\ P.to = journal.profile
        /\ N.file = "journal" /\ N.to = None
    BY DEF ofConfig, ofProfile, ofJournal
  <2>3. journal.profile \notin Args
    BY <1>2 DEF FilesOK
  <2>4. restoreJournalState =
          IF configUnchanged THEN IF profileUnchanged THEN <<C, P, N>> ELSE <<C>>
          ELSE IF profileUnchanged THEN <<P>> ELSE <<>>
    BY <1>2, JournalRestores
  <2>5. configUnchanged => C.to = target
    BY <1>2, <2>2 DEF target
  <2> HIDE DEF C, P, N
  <2>6. CASE configUnchanged /\ profileUnchanged
    <3>1. restoreJournalState = <<C, P, N>>
      BY <2>4, <2>6
    <3>2. Restores("reconcile", <<C, P, N>>) /\ Restores("restore", <<C, P, N>>)
      BY <2>2, <2>3, <2>5, <2>6 DEF Restores, precedes
    <3> QED BY <2>1, <3>1, <3>2
  <2>7. CASE configUnchanged /\ ~profileUnchanged
    <3>1. restoreJournalState = <<C>>
      BY <2>4, <2>7
    <3>2. Restores("reconcile", <<C>>) /\ Restores("restore", <<C>>)
      BY <2>2, <2>5, <2>7 DEF Restores, precedes
    <3> QED BY <2>1, <3>1, <3>2
  <2>8. CASE ~configUnchanged /\ profileUnchanged
    <3>1. restoreJournalState = <<P>>
      BY <2>4, <2>8
    <3>2. Restores("reconcile", <<P>>)
      BY <2>2, <2>3 DEF Restores, precedes
    <3> QED BY <2>1, <2>8, <3>1, <3>2
  <2>9. CASE ~configUnchanged /\ ~profileUnchanged
    <3>1. restoreJournalState = <<>>
      BY <2>4, <2>9
    <3> QED BY <2>9, <3>1 DEF Restores
  <2> QED BY <2>6, <2>7, <2>8, <2>9
<1> QED BY <1>1, <1>2

LEMMA NativeRestoresFit ==
  ASSUME TypeOK, FilesOK
  PROVE  restoreNativeCodex \in Seq(Write) /\ Restores("restore", restoreNativeCodex)
<1> DEFINE C == ofConfig(stripped)
           A == ofProfile("absent")
           P == ofProfile(journal.profile)
<1>1. C \in Write /\ A \in Write /\ (journal # None => P \in Write)
  BY Strip, WritesTyped DEF TypeOK, Profile
<1>2. /\ C.file = "config" /\ C.to = stripped
      /\ A.file = "profile" /\ A.to \notin Args
      /\ P.file = "profile" /\ (journal # None => P.to \notin Args)
  BY ArgsAssumption DEF ofConfig, ofProfile, FilesOK
<1>3. ~(journal # None /\ configUnchanged) => C.to = target
  BY <1>2 DEF target
<1>4. stripped = config => Bare(config)
  BY Strip
<1>5. restoreNativeCodex =
        IF journal = None THEN IF stripped # config THEN <<C, A>> ELSE <<A>>
        ELSE IF configUnchanged THEN restoreJournalState
        ELSE IF stripped # config THEN IF profileUnchanged THEN <<P, C>> ELSE <<C>>
        ELSE IF profileUnchanged THEN <<P>> ELSE <<>>
  BY NativeRestores
<1> HIDE DEF C, A, P
<1>6. CASE journal = None
  <2>1. C.to = target
    BY <1>3, <1>6
  <2>2. stripped # config => Restores("restore", <<C, A>>)
    BY <1>2, <2>1 DEF Restores, precedes
  <2>3. stripped = config => Restores("restore", <<A>>)
    BY <1>2, <1>4 DEF Restores, precedes
  <2> QED BY <1>1, <1>5, <1>6, <2>2, <2>3
<1>7. CASE journal # None /\ configUnchanged
  BY <1>5, <1>7, JournalRestoresFit
<1>8. CASE journal # None /\ ~configUnchanged
  <2>1. C.to = target
    BY <1>3, <1>8
  <2>2. Restores("restore", <<P, C>>)
    BY <1>2, <1>8, <2>1 DEF Restores, precedes
  <2>3. Restores("restore", <<C>>)
    BY <1>2, <2>1 DEF Restores, precedes
  <2>4. stripped = config => Restores("restore", <<P>>) /\ Restores("restore", <<>>)
    BY <1>2, <1>4, <1>8 DEF Restores, precedes
  <2> QED BY <1>1, <1>5, <1>8, <2>2, <2>3, <2>4
<1> QED BY <1>6, <1>7, <1>8

\* So does the write of a journal at the start of a session.
LEMMA JournalWritesFit ==
  ASSUME TypeOK, FilesOK, NEW p \in Pids
  PROVE  journalWrites(p) \in Seq(Write) /\ Restores("journal", journalWrites(p))
<1>1. CASE journal = None
  <2> DEFINE S == ofJournal(snapshot(p))
  <2>1. journalWrites(p) = <<S>>
    BY <1>1, Lists DEF journalWrites, when
  <2>2. S \in Write
    BY <1>1, SnapshotTyped, WritesTyped
  <2>3. /\ S.file = "journal" /\ S.to # None
        /\ S.to.config = config /\ S.to.marked = None /\ S.to.profile = profile
    BY <1>1, SnapshotTyped, NoneAssumption DEF ofJournal, snapshot
  <2>4. Calm /\ isUnmarked /\ profile \notin Args
    BY <1>1 DEF Calm, isUnmarked, FilesOK
  <2> HIDE DEF S
  <2>5. Restores("journal", <<S>>)
    BY <2>3, <2>4 DEF Restores
  <2> QED BY <2>1, <2>2, <2>5
<1>2. CASE journal # None
  <2>1. journalWrites(p) = <<>>
    BY <1>2 DEF journalWrites, when
  <2> QED BY <2>1 DEF Restores
<1> QED BY <1>1, <1>2

-----------------------------------------------------------------------------
(* The writes of an injection *)

marked(j, a) == [j EXCEPT !.marked = injected(a), !.markedProfile = a]

LEMMA Injected ==
  ASSUME TypeOK, NEW a \in Args
  PROVE  /\ injected(a) \in Config /\ injected(a) = injectionOf(config, a)
         /\ injected(a).text = config.text /\ injected(a).ours = a /\ a # None
BY ArgsAssumption DEF TypeOK, injected, injectionOf, Config

\* Injecting what was injected changes nothing.
LEMMA InjectedTwice ==
  ASSUME NEW c \in Config, NEW a \in Args
  PROVE  injectionOf(injectionOf(c, a), a) = injectionOf(c, a)
BY DEF injectionOf, Config

LEMMA MarkedTyped ==
  ASSUME TypeOK, NEW a \in Args,
         NEW j \in [config : Config, profile : Profile \ Args, pid : Pids,
                    marked : Config \union {None}, markedProfile : Profile]
  PROVE  /\ marked(j, a) \in Journal
         /\ marked(j, a).config = j.config /\ marked(j, a).profile = j.profile
         /\ marked(j, a).marked = injected(a)
BY Injected DEF marked, Journal, Profile

LEMMA MarkingIs ==
  ASSUME NEW a \in Args, NEW j
  PROVE  marking(j, a) = IF j.marked = None THEN <<ofJournal(marked(j, a))>> ELSE <<>>
BY Lists DEF marking, when, marked

LEMMA InjectWritesAre ==
  ASSUME NEW p, NEW a \in Args
  PROVE  injectWrites(p, a) =
           IF journal = None
             THEN <<ofJournal(snapshot(p)), ofConfig(injected(a)), ofProfile(a),
                    ofJournal(marked(snapshot(p), a))>>
           ELSE IF journal.marked = None
             THEN <<ofConfig(injected(a)), ofProfile(a), ofJournal(marked(journal, a))>>
             ELSE <<ofConfig(injected(a)), ofProfile(a)>>
<1> DEFINE J == ofJournal(snapshot(p))
           C == ofConfig(injected(a))
           P == ofProfile(a)
           M == marking(IF journal = None THEN snapshot(p) ELSE journal, a)
<1>1. injectWrites(p, a) =
        (((IF journal = None THEN <<J>> ELSE <<>>) \o <<C>>) \o <<P>>) \o M
  BY Lists DEF injectWrites, journalWrites, when
<1>2. CASE journal = None
  <2> DEFINE N == ofJournal(marked(snapshot(p), a))
  <2>1. M = <<N>>
    <3>1. snapshot(p).marked = None
      BY DEF snapshot
    <3> QED BY <1>2, <3>1, MarkingIs
  <2> HIDE DEF J, C, P, M, N
  <2>2. <<J>> \o <<C>> = <<J, C>>
    BY PairOf
  <2>3. <<J, C>> \o <<P>> = <<J, C, P>>
    BY TripleOf
  <2>4. <<J, C, P>> \o <<N>> = <<J, C, P, N>>
    BY QuadrupleOf
  <2>5. injectWrites(p, a) = <<J, C, P, N>>
    BY <1>1, <1>2, <2>1, <2>2, <2>3, <2>4
  <2> QED BY <1>2, <2>5 DEF J, C, P, N
<1>3. CASE journal # None
  <2> DEFINE N == ofJournal(marked(journal, a))
  <2>1. M = IF journal.marked = None THEN <<N>> ELSE <<>>
    BY <1>3, MarkingIs
  <2> HIDE DEF J, C, P, M, N
  <2>2. <<>> \o <<C>> = <<C>>
    OBVIOUS
  <2>3. <<C>> \o <<P>> = <<C, P>>
    BY PairOf
  <2>4. <<C, P>> \o <<N>> = <<C, P, N>>
    BY TripleOf
  <2>5. <<C, P>> \o <<>> = <<C, P>>
    OBVIOUS
  <2>6. injectWrites(p, a) = IF journal.marked = None THEN <<C, P, N>> ELSE <<C, P>>
    BY <1>1, <1>3, <2>1, <2>2, <2>3, <2>4, <2>5
  <2> QED BY <1>3, <2>6 DEF C, P, N
<1> QED BY <1>2, <1>3

LEMMA ProfileAndMarking ==
  ASSUME NEW a \in Args, NEW j
  PROVE  toProfile(a) \o marking(j, a) =
           IF j.marked = None THEN <<ofProfile(a), ofJournal(marked(j, a))>>
                              ELSE <<ofProfile(a)>>
<1> DEFINE P == ofProfile(a)
           N == ofJournal(marked(j, a))
<1>1. toProfile(a) \o marking(j, a) = <<P>> \o (IF j.marked = None THEN <<N>> ELSE <<>>)
  BY Lists, MarkingIs
<1> HIDE DEF P, N
<1>2. <<P>> \o <<N>> = <<P, N>> /\ <<P>> \o <<>> = <<P>>
  BY PairOf
<1>3. toProfile(a) \o marking(j, a) = IF j.marked = None THEN <<P, N>> ELSE <<P>>
  BY <1>1, <1>2
<1> QED BY <1>3 DEF P, N

LEMMA InjectWritesTyped ==
  ASSUME TypeOK, FilesOK, NEW p \in Pids, NEW a \in Args
  PROVE  injectWrites(p, a) \in Seq(Write)
<1> DEFINE J == ofJournal(snapshot(p))
           C == ofConfig(injected(a))
           P == ofProfile(a)
           M == ofJournal(marked(snapshot(p), a))
           N == ofJournal(marked(journal, a))
<1>1. C \in Write /\ P \in Write
  BY Injected, WritesTyped DEF Profile
<1>2. journal = None => J \in Write /\ M \in Write
  <2> SUFFICES ASSUME journal = None PROVE J \in Write /\ M \in Write
    OBVIOUS
  <2>1. snapshot(p) \in Journal
    BY SnapshotTyped
  <2>2. marked(snapshot(p), a) \in Journal
    BY <2>1, MarkedTyped DEF Journal
  <2> QED BY <2>1, <2>2, WritesTyped
<1>3. journal # None => N \in Write
  <2> SUFFICES ASSUME journal # None PROVE N \in Write
    OBVIOUS
  <2>1. journal \in [config : Config, profile : Profile \ Args, pid : Pids,
                     marked : Config \union {None}, markedProfile : Profile]
    BY DEF TypeOK, FilesOK
  <2>2. marked(journal, a) \in Journal
    BY <2>1, MarkedTyped
  <2> QED BY <2>2, WritesTyped
<1>4. injectWrites(p, a) = IF journal = None THEN <<J, C, P, M>>
                           ELSE IF journal.marked = None THEN <<C, P, N>> ELSE <<C, P>>
  BY InjectWritesAre
<1> HIDE DEF J, C, P, M, N
<1> QED BY <1>1, <1>2, <1>3, <1>4

-----------------------------------------------------------------------------
(* Steps that leave the files alone *)

LEMMA FilesStay ==
  ASSUME Inv, UNCHANGED <<files, ghosts>>
  PROVE  FilesOK' /\ CleanOK'
<1> USE DEF files, ghosts
<1>1. FilesOK'
  BY DEF Inv, FilesOK, Bare
<1>2. CleanOK'
  BY DEF Inv, CleanOK, isClean, IsInjection, injectionOf
<1> QED BY <1>1, <1>2

\* What fits the files, and what an injection has left, depends on them only.
LEMMA ListsStay ==
  ASSUME UNCHANGED <<files, ghosts>>
  PROVE  /\ \A kind, ws : Restores(kind, ws) => Restores(kind, ws)'
         /\ \A a : injected(a)' = injected(a) /\ marking(journal, a)' = marking(journal, a)
         /\ \A p, a : injectWrites(p, a)' = injectWrites(p, a)
<1> USE DEF files, ghosts
<1>1. target' = target /\ Calm' = Calm /\ isUnmarked' = isUnmarked
      /\ Bare(config)' = Bare(config)
  BY DEF target, configUnchanged, stripped, Calm, isUnmarked, Bare
<1>2. ASSUME NEW kind, NEW ws, Restores(kind, ws) PROVE Restores(kind, ws)'
  BY <1>1, <1>2 DEF Restores, precedes
<1>3. \A a : injected(a)' = injected(a)
  BY DEF injected
<1>4. \A a : marking(journal, a)' = marking(journal, a)
  BY <1>3 DEF marking
<1>5. \A p, a : injectWrites(p, a)' = injectWrites(p, a)
  BY <1>3 DEF injectWrites, journalWrites, snapshot, marking
<1> QED BY <1>2, <1>3, <1>4, <1>5

LEMMA InjectStays ==
  ASSUME UNCHANGED <<files, ghosts>>, NEW p \in Pids, InjectOK(p), section'[p] = section[p],
         \A q \in Pids \ {p} : section[q] = None => section'[q] = None
  PROVE  InjectOK(p)'
<1> SUFFICES ASSUME section'[p] # None, section'[p].kind = "inject"
             PROVE  InjectOK(p)'
  BY DEF InjectOK
<1>1. PICK a \in Args :
        LET ws == section[p].writes IN
        \/ ws = injectWrites(p, a)
        \/ journal # None /\ config = injected(a) /\ ws = toProfile(a) \o marking(journal, a)
        \/ journal # None /\ config = injected(a) /\ ws = marking(journal, a)
        \/ ws = <<>>
  BY DEF InjectOK
<1>2. /\ injected(a)' = injected(a) /\ marking(journal, a)' = marking(journal, a)
      /\ injectWrites(p, a)' = injectWrites(p, a) /\ journal' = journal /\ config' = config
  BY ListsStay DEF files
<1>3. toProfile(a)' = toProfile(a)
  BY DEF toProfile
<1> QED BY <1>1, <1>2, <1>3 DEF InjectOK

\* Some calls end, and no other begins.
LEMMA SectionsEnd ==
  ASSUME Inv, UNCHANGED <<files, ghosts>>,
         section' \in [Pids -> Section \union {None}], proc' \in [Pids -> Stages],
         \A p \in Pids : section'[p] \in {section[p], None}
  PROVE  Inv'
<1>1. TypeOK'
  BY DEF Inv, TypeOK, files, ghosts
<1>2. ASSUME NEW p \in Pids PROVE RestoreOK(p)'
  <2>1. CASE section'[p] = None
    BY <2>1 DEF RestoreOK
  <2>2. CASE section'[p] = section[p]
    BY <2>2, ListsStay DEF Inv, SectionsOK, RestoreOK
  <2> QED BY <2>1, <2>2
<1>3. ASSUME NEW p \in Pids PROVE InjectOK(p)'
  <2>1. CASE section'[p] = None
    BY <2>1 DEF InjectOK
  <2>2. CASE section'[p] = section[p]
    BY <2>2, InjectStays DEF Inv, SectionsOK
  <2> QED BY <2>1, <2>2
<1> QED BY <1>1, <1>2, <1>3, FilesStay DEF Inv, SectionsOK

\* A call begins.
LEMMA CallBegins ==
  ASSUME Inv, NEW p \in Pids, NEW at, NEW to \in Stages,
         NEW kind \in {"journal", "inject", "reconcile", "restore"},
         NEW ws \in Seq(Write), calls(p, at, to, kind, ws),
         kind # "inject" => Restores(kind, ws),
         kind = "inject" => \E a \in Args : ws = injectWrites(p, a)
  PROVE  Inv'
<1> DEFINE s == [kind |-> kind, writes |-> ws]
<1>1. /\ section[p] = None /\ mayBegin(kind) /\ UNCHANGED <<files, ghosts>>
      /\ section \in [Pids -> Section \union {None}] /\ proc \in [Pids -> Stages]
      /\ section' = [section EXCEPT ![p] = s] /\ proc' = [proc EXCEPT ![p] = to]
  BY DEF calls, in, Inv, TypeOK
<1>2. s \in Section /\ s # None /\ s.kind = kind /\ s.writes = ws
  BY NoneAssumption DEF Section
<1> HIDE DEF s
<1>3. section'[p] = s /\ \A q \in Pids \ {p} : section'[q] = section[q]
  BY <1>1
<1>4. TypeOK'
  BY <1>1, <1>2 DEF Inv, TypeOK, files, ghosts
<1>5. ASSUME NEW q \in Pids PROVE RestoreOK(q)'
  <2>1. CASE q = p
    BY <1>1, <1>2, <1>3, <2>1, ListsStay DEF RestoreOK
  <2>2. CASE q # p
    BY <1>1, <1>3, <2>2, ListsStay DEF Inv, SectionsOK, RestoreOK
  <2> QED BY <2>1, <2>2
<1>6. ASSUME NEW q \in Pids PROVE InjectOK(q)'
  <2>1. CASE q = p /\ kind = "inject"
    <3>1. \A o \in Pids \ {p} : section'[o] = None
      BY <1>1, <1>3, <2>1 DEF mayBegin
    <3>2. PICK a \in Args : ws = injectWrites(p, a)
      BY <2>1
    <3>3. ws = injectWrites(p, a)'
      BY <1>1, <3>2, ListsStay
    <3> QED BY <1>2, <1>3, <2>1, <3>1, <3>3 DEF InjectOK
  <2>2. CASE q = p /\ kind # "inject"
    BY <1>2, <1>3, <2>2 DEF InjectOK
  <2>3. CASE q # p
    BY <1>1, <1>3, <2>3 DEF InjectOK, mayBegin
  <2> QED BY <2>1, <2>2, <2>3
<1> QED BY <1>1, <1>4, <1>5, <1>6, FilesStay DEF Inv, SectionsOK

-----------------------------------------------------------------------------
(* A write of a call that does not inject *)

LEMMA StepIs ==
  ASSUME Inv, NEW p \in Pids, Step(p)
  PROVE  /\ section[p] \in Section /\ section[p].writes \in Seq(Write)
         /\ section[p].writes # <<>>
         /\ Head(section[p].writes) \in Write /\ Tail(section[p].writes) \in Seq(Write)
         /\ section'[p] = [kind |-> section[p].kind, writes |-> Tail(section[p].writes)]
         /\ section'[p].kind = section[p].kind
         /\ section'[p].writes = Tail(section[p].writes)
         /\ section'[p] # None
         /\ \A q \in Pids \ {p} : section'[q] = section[q]
<1>1. /\ section[p] \in Section /\ section[p].writes # <<>> /\ section[p] # None
      /\ section \in [Pids -> Section \union {None}]
      /\ section' = [section EXCEPT ![p].writes = Tail(@)]
  BY DEF Step, Inv, TypeOK
<1>2. section[p].writes \in Seq(Write)
  BY <1>1 DEF Section
<1>3. Head(section[p].writes) \in Write /\ Tail(section[p].writes) \in Seq(Write)
  BY <1>1, <1>2
<1>4. section'[p] = [kind |-> section[p].kind, writes |-> Tail(section[p].writes)]
  BY <1>1 DEF Section
<1>5. section'[p] \in Section
  BY <1>1, <1>3, <1>4 DEF Section
<1>6. section'[p].kind = section[p].kind /\ section'[p].writes = Tail(section[p].writes)
  BY <1>4
<1> QED BY <1>1, <1>2, <1>3, <1>4, <1>5, <1>6, NoneAssumption

LEMMA StepTyped ==
  ASSUME Inv, NEW p \in Pids, Step(p)
  PROVE  TypeOK'
<1> DEFINE w == Head(section[p].writes)
<1>1. w \in Write
  BY StepIs
<1>2. /\ config' = IF w.file = "config" THEN w.to ELSE config
      /\ profile' = IF w.file = "profile" THEN w.to ELSE profile
      /\ journal' = IF w.file = "journal" THEN w.to ELSE journal
      /\ observed(w) /\ proc' = proc
  BY DEF Step
<1>3. section' \in [Pids -> Section \union {None}]
  <2>1. section' = [section EXCEPT ![p] = [section[p] EXCEPT !.writes = Tail(@)]]
    BY DEF Step
  <2>2. [section[p] EXCEPT !.writes = Tail(@)] \in Section
    BY StepIs DEF Section
  <2> QED BY <2>1, <2>2 DEF Inv, TypeOK
<1> HIDE DEF w
<1>4. config' \in Config /\ profile' \in Profile
      /\ (journal' = None \/ journal' \in
            [config : Config, profile : Profile, pid : Pids,
             marked : Config \union {None}, markedProfile : Profile])
  BY <1>1, <1>2 DEF Inv, TypeOK, Write, Journal
<1>5. native' \in Config /\ touched' \in BOOLEAN
  BY <1>2 DEF Inv, TypeOK, observed
<1>6. used' \subseteq Args
  BY <1>1, <1>2 DEF Inv, TypeOK, observed, Write, Config
<1>7. seen' \in Texts \union {None}
  BY <1>2 DEF Inv, TypeOK, observed, Config
<1>8. restored' \in BOOLEAN
  BY <1>2 DEF Inv, TypeOK, observed
<1> QED BY <1>2, <1>3, <1>4, <1>5, <1>6, <1>7, <1>8 DEF Inv, TypeOK

\* What a restoring write leaves to the other calls, and to its own.
Settles ==
  /\ target' = target
  /\ Calm => Calm' /\ config' = config
  /\ Bare(config) => Bare(config)'
  /\ profile \notin Args => profile' \notin Args
  /\ Calm /\ isUnmarked => isUnmarked'

LEMMA RestoresStay ==
  ASSUME Settles, NEW kind, NEW ws, Restores(kind, ws)
  PROVE  Restores(kind, ws)'
BY DEF Settles, Restores, precedes

LEMMA RestoresGoOn ==
  ASSUME Settles, NEW kind, NEW ws \in Seq(Write), ws # <<>>, Restores(kind, ws),
         Head(ws).file = "config" => Calm' /\ Bare(config)',
         Head(ws).file = "profile" => profile' \notin Args
  PROVE  Restores(kind, Tail(ws))'
<1> DEFINE t == Tail(ws)
           n == Len(ws)
<1>1. n \in Nat \ {0} /\ Len(t) = n - 1 /\ \A i \in 1..(n - 1) : t[i] = ws[i + 1]
  BY HeadTailProperties
<1>2. ASSUME NEW i \in 1..n, NEW file, precedes(ws, i + 1, file), Head(ws).file # file
      PROVE  precedes(t, i, file)
  <2>1. PICK j \in 1..i : ws[j].file = file
    BY <1>1, <1>2 DEF precedes
  <2>2. j # 1
    BY <1>2, <2>1
  <2>3. j - 1 \in 1..(i - 1) /\ t[j - 1].file = file
    BY <1>1, <2>1, <2>2
  <2> QED BY <2>3 DEF precedes
<1> HIDE DEF t, n
<1>3. ASSUME NEW i \in 1..Len(t)
      PROVE  /\ t[i].file = "config" => t[i].to = target'
             /\ t[i].file = "profile" => t[i].to \notin Args
             /\ t[i].file = "journal" /\ t[i].to = None =>
                  /\ Calm' \/ precedes(t, i, "config")
                  /\ profile' \notin Args \/ precedes(t, i, "profile")
             /\ t[i].file = "journal" /\ t[i].to # None =>
                  /\ t[i].to.config = config' /\ t[i].to.marked = None
                  /\ t[i].to.profile \notin Args /\ profile' \notin Args
                  /\ Calm' /\ isUnmarked'
  <2>1. i \in 1..n /\ i + 1 \in 1..Len(ws) /\ t[i] = ws[i + 1]
    BY <1>1, <1>3 DEF n
  <2> DEFINE w == ws[i + 1]
  <2>2. /\ w.file = "config" => w.to = target
        /\ w.file = "profile" => w.to \notin Args
        /\ w.file = "journal" /\ w.to = None =>
             /\ Calm \/ precedes(ws, i + 1, "config")
             /\ profile \notin Args \/ precedes(ws, i + 1, "profile")
        /\ w.file = "journal" /\ w.to # None =>
             /\ w.to.config = config /\ w.to.marked = None
             /\ w.to.profile \notin Args /\ profile \notin Args
             /\ Calm /\ isUnmarked
    BY <2>1 DEF Restores
  <2> HIDE DEF w
  <2>3. Calm \/ precedes(ws, i + 1, "config") => Calm' \/ precedes(t, i, "config")
    BY <1>2, <2>1 DEF Settles
  <2>4. profile \notin Args \/ precedes(ws, i + 1, "profile")
          => profile' \notin Args \/ precedes(t, i, "profile")
    BY <1>2, <2>1 DEF Settles
  <2> QED BY <2>1, <2>2, <2>3, <2>4 DEF Settles, w
<1>4. kind = "restore" => Bare(config)' \/ precedes(t, Len(t) + 1, "config")
  <2>1. Len(t) + 1 = n /\ n \in 1..n
    BY <1>1
  <2>2. kind = "restore" => Bare(config) \/ precedes(ws, n + 1, "config")
    BY DEF Restores, n
  <2> QED BY <1>2, <2>1, <2>2 DEF Settles
<1>5. Restores(kind, t)'
  BY <1>3, <1>4 DEF Restores, precedes, t
<1> QED BY <1>5 DEF t

\* A restore's write keeps the files as they should be, and settles nothing
\* that was open: one lemma for each of the four kinds of write.
LEMMA WriteOf ==
  ASSUME Inv, NEW p \in Pids, Step(p), section[p].kind # "inject"
  PROVE  LET w == Head(section[p].writes) IN
         /\ w \in Write
         /\ w.file = "config" => w.to = target
         /\ w.file = "profile" => w.to \notin Args
         /\ w.file = "journal" /\ w.to = None => Calm /\ profile \notin Args
         /\ w.file = "journal" /\ w.to # None =>
              /\ w.to.config = config /\ w.to.marked = None
              /\ w.to.profile \notin Args /\ profile \notin Args /\ Calm /\ isUnmarked
<1> DEFINE ws == section[p].writes
<1>1. ws \in Seq(Write) /\ ws # <<>> /\ Head(ws) \in Write
  BY StepIs
<1>2. Restores(section[p].kind, ws)
  BY DEF Inv, SectionsOK, RestoreOK, Step
<1> HIDE DEF ws
<1>3. 1 \in 1..Len(ws) /\ Head(ws) = ws[1]
  BY <1>1
<1>4. \A file : ~precedes(ws, 1, file)
  BY DEF precedes
<1> QED BY <1>1, <1>2, <1>3, <1>4 DEF Restores, ws

LEMMA ConfigRestored ==
  ASSUME Inv, NEW p \in Pids, Step(p), section[p].kind # "inject",
         Head(section[p].writes).file = "config"
  PROVE  FilesOK' /\ CleanOK' /\ Settles /\ Calm' /\ Bare(config)'
<1>1. /\ config' = target /\ UNCHANGED <<profile, journal, native, touched, seen>>
      /\ used' = used
  <2>1. target.ours = None
    BY TargetIsBare DEF Inv, Bare
  <2> QED BY <2>1, WriteOf DEF Step, observed
<1>2. target \in Config /\ Bare(target) /\ (Calm => target = config) /\ TypeOK'
  BY TargetIsBare, StepTyped DEF Inv
<1>3. FilesOK'
  <2>1. journal = None => target = config
    BY <1>2 DEF Inv, FilesOK, Calm
  <2> QED BY <1>1, <1>2, <2>1 DEF Inv, FilesOK, Bare
<1>4. CleanOK'
  <2> SUFFICES ASSUME journal # None, isClean
               PROVE  config' = journal.config
    BY <1>1 DEF Inv, CleanOK, isClean, IsInjection, injectionOf
  <2>1. CASE configUnchanged
    BY <1>1, <2>1 DEF target
  <2>2. CASE ~configUnchanged
    <3>1. config' = stripped
      BY <1>1, <2>2 DEF target
    <3>2. config = journal.config
      <4>1. IsInjection(journal.marked) /\ journal.marked # config
        BY <2>2 DEF configUnchanged, Inv, CleanOK
      <4>2. ~IsInjection(config)
        BY <4>1 DEF IsInjection
      <4> QED BY <4>2 DEF Inv, CleanOK
    <3>3. stripped = config
      BY <3>2, Strip DEF Inv, FilesOK
    <3> QED BY <3>1, <3>2, <3>3
  <2> QED BY <2>1, <2>2
<1>5. target' = target
  <2>1. stripped' = target
    BY <1>1, <1>2 DEF stripped, Config, Bare
  <2>2. CASE journal # None /\ configUnchanged
    <3>1. target = journal.config /\ journal' = journal
      BY <1>1, <2>2 DEF target
    <3> QED BY <1>1, <2>1, <3>1 DEF target
  <2>3. CASE journal # None /\ ~configUnchanged
    <3>1. journal.marked # None /\ journal.marked.ours # None
      BY <2>3 DEF configUnchanged, Inv, FilesOK
    <3>2. ~configUnchanged'
      BY <1>1, <1>2, <3>1 DEF configUnchanged, Bare
    <3> QED BY <2>1, <3>2 DEF target
  <2>4. CASE journal = None
    BY <1>1, <2>1, <2>4 DEF target
  <2> QED BY <2>2, <2>3, <2>4
<1>6. Calm' /\ Bare(config)'
  <2>1. journal # None /\ journal.marked = None => target = journal.config
    BY DEF target, configUnchanged
  <2> QED BY <1>1, <1>2, <2>1 DEF Calm, Bare
<1>7. Settles
  BY <1>1, <1>2, <1>5, <1>6 DEF Settles, isUnmarked
<1> QED BY <1>3, <1>4, <1>6, <1>7

LEMMA ProfileRestored ==
  ASSUME Inv, NEW p \in Pids, Step(p), section[p].kind # "inject",
         Head(section[p].writes).file = "profile"
  PROVE  FilesOK' /\ CleanOK' /\ Settles /\ profile' \notin Args
<1>1. profile' \notin Args /\ UNCHANGED <<config, journal, native, touched, seen, used>>
  BY WriteOf DEF Step, observed
<1>2. FilesOK'
  BY <1>1 DEF Inv, FilesOK, Bare
<1>3. CleanOK'
  BY <1>1 DEF Inv, CleanOK, isClean, IsInjection, injectionOf
<1>4. target' = target /\ Calm' = Calm /\ isUnmarked' = isUnmarked
      /\ Bare(config)' = Bare(config)
  BY <1>1 DEF target, configUnchanged, stripped, Calm, isUnmarked, Bare
<1> QED BY <1>1, <1>2, <1>3, <1>4 DEF Settles

LEMMA JournalRemoved ==
  ASSUME Inv, NEW p \in Pids, Step(p), section[p].kind # "inject",
         Head(section[p].writes).file = "journal", Head(section[p].writes).to = None
  PROVE  FilesOK' /\ CleanOK' /\ Settles
<1>1. /\ journal' = None /\ UNCHANGED <<config, profile>>
      /\ native' = IF isClean THEN native ELSE config
      /\ touched' = FALSE /\ used' = {} /\ seen' = None
  BY DEF Step, observed
<1>2. Calm /\ profile \notin Args /\ Bare(config)
  BY WriteOf DEF Calm
<1>3. native' = config
  <2>1. CASE journal = None
    BY <1>1, <2>1 DEF Inv, FilesOK
  <2>2. CASE journal # None /\ isClean
    <3>1. ~IsInjection(config)
      BY <1>2, ArgsAssumption DEF IsInjection, injectionOf, Bare, Inv, TypeOK, Config
    <3> QED BY <1>1, <2>2, <3>1 DEF Inv, CleanOK
  <2>3. CASE ~isClean
    BY <1>1, <2>3
  <2> QED BY <2>1, <2>2, <2>3
<1>4. FilesOK'
  BY <1>1, <1>2, <1>3, FS_EmptySet DEF FilesOK, Bare
<1>5. CleanOK'
  BY <1>1 DEF CleanOK
<1>6. target' = config /\ target = config
  <2>1. stripped' = stripped
    BY <1>1 DEF stripped
  <2> QED BY <1>1, <1>2, <2>1, Strip, TargetIsBare DEF target, Inv
<1>7. Settles
  BY <1>1, <1>2, <1>6 DEF Settles, Calm, isUnmarked, Bare
<1> QED BY <1>4, <1>5, <1>7

LEMMA JournalRewritten ==
  ASSUME Inv, NEW p \in Pids, Step(p), section[p].kind # "inject",
         Head(section[p].writes).file = "journal", Head(section[p].writes).to # None
  PROVE  FilesOK' /\ CleanOK' /\ Settles
<1>1. /\ journal' # None /\ journal'.config = config /\ journal'.marked = None
      /\ journal'.profile \notin Args /\ profile \notin Args /\ Calm /\ isUnmarked
      /\ UNCHANGED <<config, profile, native, touched, used, seen>>
  BY WriteOf DEF Step, observed
<1>2. Bare(config) /\ seen = None
  BY <1>1 DEF Calm, isUnmarked, Inv, FilesOK
<1>3. FilesOK'
  BY <1>1, <1>2 DEF Inv, FilesOK, Bare
<1>4. CleanOK'
  <2>1. isClean => native = config
    BY <1>1 DEF Inv, CleanOK, FilesOK, Calm, isUnmarked
  <2> QED BY <1>1, <2>1 DEF CleanOK, isClean
<1>5. target' = config /\ target = config
  BY <1>1, TargetIsBare DEF target, configUnchanged, Inv
<1>6. Settles
  BY <1>1, <1>2, <1>5 DEF Settles, Calm, isUnmarked, Bare
<1> QED BY <1>3, <1>4, <1>6

LEMMA RestoreStep ==
  ASSUME Inv, NEW p \in Pids, Step(p), section[p].kind # "inject"
  PROVE  Inv'
<1>0. PICK kind, ws : kind = section[p].kind /\ ws = section[p].writes
  OBVIOUS
<1>1. /\ FilesOK' /\ CleanOK' /\ Settles
      /\ Head(ws).file = "config" => Calm' /\ Bare(config)'
      /\ Head(ws).file = "profile" => profile' \notin Args
  <2>1. Head(ws).file \in {"config", "profile", "journal"}
    BY <1>0, StepIs DEF Write
  <2> QED BY <1>0, <2>1, ConfigRestored, ProfileRestored, JournalRemoved, JournalRewritten
<1>2. /\ ws \in Seq(Write) /\ ws # <<>>
      /\ section'[p] = [kind |-> kind, writes |-> Tail(ws)]
      /\ \A q \in Pids \ {p} : section'[q] = section[q]
  BY <1>0, StepIs
<1>3. Restores(kind, ws)
  BY <1>0 DEF Inv, SectionsOK, RestoreOK, Step
<1>4. Restores(kind, Tail(ws))'
  BY <1>1, <1>2, <1>3, RestoresGoOn
<1>5. ASSUME NEW q \in Pids PROVE RestoreOK(q)'
  <2>1. CASE q = p
    <3>1. section'[p].kind = kind /\ section'[p].writes = Tail(ws)
      BY <1>2
    <3> QED BY <1>4, <2>1, <3>1 DEF RestoreOK
  <2>2. CASE q # p
    BY <1>1, <1>2, <2>2, RestoresStay DEF RestoreOK, Inv, SectionsOK
  <2> QED BY <2>1, <2>2
<1>6. ASSUME NEW q \in Pids PROVE InjectOK(q)'
  <2>1. section[p] # None
    BY DEF Step
  <2>2. CASE q = p
    BY <1>0, <1>2, <2>2 DEF InjectOK
  <2>3. CASE q # p
    BY <1>2, <2>1, <2>3 DEF InjectOK, Inv, SectionsOK
  <2> QED BY <2>2, <2>3
<1> QED BY <1>1, <1>5, <1>6, StepTyped DEF Inv, SectionsOK

-----------------------------------------------------------------------------
(* A write of an injection *)

\* The lists of an injection, at any files.
ListsOfInjection ==
  \A p : \A a \in Args :
    /\ injectWrites(p, a) =
         IF journal = None
           THEN <<ofJournal(snapshot(p)), ofConfig(injected(a)), ofProfile(a),
                  ofJournal(marked(snapshot(p), a))>>
         ELSE IF journal.marked = None
           THEN <<ofConfig(injected(a)), ofProfile(a), ofJournal(marked(journal, a))>>
           ELSE <<ofConfig(injected(a)), ofProfile(a)>>
    /\ toProfile(a) \o marking(journal, a) =
         IF journal.marked = None THEN <<ofProfile(a), ofJournal(marked(journal, a))>>
                                  ELSE <<ofProfile(a)>>
    /\ marking(journal, a) =
         IF journal.marked = None THEN <<ofJournal(marked(journal, a))>> ELSE <<>>

LEMMA ListsNow == ListsOfInjection
BY InjectWritesAre, ProfileAndMarking, MarkingIs DEF ListsOfInjection

LEMMA ListsThen == ListsOfInjection'
BY ListsNow, PTL

\* Before: nothing is journaled, and the journal is written first.
LEMMA InjectionJournals ==
  ASSUME Inv, NEW p \in Pids, Step(p), NEW a \in Args, journal = None,
         section[p].writes = injectWrites(p, a)
  PROVE  /\ FilesOK' /\ CleanOK' /\ config' = config
         /\ section'[p].writes = injectWrites(p, a)'
<1> DEFINE J == ofJournal(snapshot(p))
           C == ofConfig(injected(a))
           P == ofProfile(a)
           M == ofJournal(marked(snapshot(p), a))
<1>1. section[p].writes = <<J, C, P, M>>
  BY ListsNow DEF ListsOfInjection
<1>2. J.file = "journal" /\ J.to = snapshot(p) /\ J.to # None /\ J.to.marked = None
  BY SnapshotTyped, NoneAssumption DEF ofJournal, snapshot, Inv
<1>3. Head(section[p].writes) = J /\ Tail(section[p].writes) = <<C, P, M>>
  <2> HIDE DEF J, C, P, M
  <2> QED BY <1>1
<1>4. /\ journal' = snapshot(p) /\ journal' # None /\ journal'.marked = None
      /\ UNCHANGED <<config, profile, native, touched, used, seen>>
  BY <1>2, <1>3 DEF Step, observed
<1>5. FilesOK' /\ CleanOK'
  BY <1>4 DEF Inv, FilesOK, CleanOK, snapshot, Bare, isClean
<1>6. section'[p].writes = <<C, P, M>>
  <2>1. section'[p].writes = Tail(section[p].writes)
    BY StepIs
  <2> QED BY <1>3, <2>1
<1>7. injected(a)' = injected(a) /\ marked(journal, a)' = marked(snapshot(p), a)
  BY <1>4 DEF injected, marked
<1>8. injectWrites(p, a)' = <<ofConfig(injected(a))', ofProfile(a), ofJournal(marked(journal, a))'>>
  BY <1>4, ListsThen DEF ListsOfInjection
<1> QED BY <1>4, <1>5, <1>6, <1>7, <1>8

\* The configuration is written: what it becomes is injected in turn to itself.
LEMMA InjectionConfigures ==
  ASSUME Inv, NEW p \in Pids, Step(p), NEW a \in Args, journal # None,
         section[p].writes = injectWrites(p, a)
  PROVE  /\ FilesOK' /\ CleanOK' /\ journal' # None
         /\ config' = injected(a)' /\ config' = injected(a)
         /\ section'[p].writes = (toProfile(a) \o marking(journal, a))'
<1> DEFINE C == ofConfig(injected(a))
           P == ofProfile(a)
           N == ofJournal(marked(journal, a))
<1>1. section[p].writes = IF journal.marked = None THEN <<C, P, N>> ELSE <<C, P>>
  BY ListsNow DEF ListsOfInjection
<1>2. C.file = "config" /\ C.to = injected(a)
  BY DEF ofConfig
<1>3. /\ Head(section[p].writes) = C
      /\ Tail(section[p].writes) = IF journal.marked = None THEN <<P, N>> ELSE <<P>>
  <2> HIDE DEF C, P, N
  <2> QED BY <1>1
<1>4. injected(a) = injectionOf(config, a) /\ injected(a).ours = a /\ a # None
  BY Injected DEF Inv
<1>5. /\ config' = injected(a) /\ used' = used \union {a}
      /\ UNCHANGED <<profile, journal, native, touched, seen>>
  BY <1>2, <1>3, <1>4 DEF Step, observed
<1>6. injected(a)' = injected(a)
  <2>1. injected(a)' = injectionOf(config', a)
    BY <1>5 DEF injected, injectionOf
  <2> QED BY <1>4, <1>5, <2>1, InjectedTwice DEF Inv, TypeOK
<1>7. FilesOK'
  <2>1. IsFiniteSet(used')
    BY <1>5, FS_AddElement DEF Inv, FilesOK
  <2> QED BY <1>4, <1>5, <2>1 DEF Inv, FilesOK, Bare
<1>8. CleanOK'
  <2> SUFFICES ASSUME isClean'
               PROVE  /\ native = journal.config /\ IsInjection(config)'
                      /\ journal.marked = None \/ IsInjection(journal.marked)'
    BY <1>5 DEF CleanOK
  <2>1. used' = {a}
    <3>1. IsFiniteSet(used') /\ a \in used' /\ Cardinality(used') <= 1
      BY <1>5, <1>7 DEF FilesOK, isClean
    <3>2. Cardinality({a}) = 1 /\ IsFiniteSet({a})
      BY FS_Singleton
    <3>3. Cardinality(used') \in Nat
      BY <3>1, FS_CardinalityType
    <3> QED BY <3>1, <3>2, <3>3, FS_Subset
  <2>2. used \subseteq {a} /\ isClean
    <3>1. used \subseteq {a}
      BY <1>5, <2>1
    <3>2. Cardinality({a}) = 1 /\ IsFiniteSet({a})
      BY FS_Singleton
    <3>3. Cardinality(used) <= 1
      BY <3>1, <3>2, FS_Subset
    <3> QED BY <1>5, <3>1, <3>3 DEF isClean
  <2>3. \A c : IsInjection(c) => c = injectionOf(journal.config, a)
    BY <2>2 DEF IsInjection
  <2>4. injected(a) = injectionOf(journal.config, a)
    <3>1. config = journal.config \/ IsInjection(config)
      BY <2>2 DEF Inv, CleanOK
    <3>2. journal.config \in Config
      BY DEF Inv, TypeOK
    <3> QED BY <1>4, <2>3, <3>1, <3>2, InjectedTwice
  <2>5. IsInjection(config)'
    BY <1>5, <2>1, <2>4 DEF IsInjection, injectionOf
  <2>6. journal.marked = None \/ IsInjection(journal.marked)'
    <3>1. journal.marked = None \/ journal.marked = injectionOf(journal.config, a)
      BY <2>2, <2>3 DEF Inv, CleanOK
    <3> QED BY <1>5, <2>1, <3>1 DEF IsInjection, injectionOf
  <2> QED BY <2>2, <2>5, <2>6 DEF Inv, CleanOK
<1>9. section'[p].writes = (toProfile(a) \o marking(journal, a))'
  <2>1. section'[p].writes = Tail(section[p].writes)
    BY StepIs
  <2>2. marked(journal, a)' = marked(journal, a)
    BY <1>5, <1>6 DEF marked
  <2>3. (toProfile(a) \o marking(journal, a))'
          = IF journal.marked = None THEN <<P, N>> ELSE <<P>>
    BY <1>5, <2>2, ListsThen DEF ListsOfInjection
  <2> QED BY <1>3, <2>1, <2>3
<1> QED BY <1>5, <1>6, <1>7, <1>8, <1>9

\* The profile is written.
LEMMA InjectionProfiles ==
  ASSUME Inv, NEW p \in Pids, Step(p), NEW a \in Args, journal # None,
         config = injected(a), section[p].writes = toProfile(a) \o marking(journal, a)
  PROVE  /\ FilesOK' /\ CleanOK' /\ journal' # None
         /\ config' = injected(a)' /\ config' = config
         /\ section'[p].writes = marking(journal, a)'
<1> DEFINE P == ofProfile(a)
           N == ofJournal(marked(journal, a))
<1>1. section[p].writes = IF journal.marked = None THEN <<P, N>> ELSE <<P>>
  BY ListsNow DEF ListsOfInjection
<1>2. P.file = "profile" /\ P.to = a
  BY DEF ofProfile
<1>3. /\ Head(section[p].writes) = P
      /\ Tail(section[p].writes) = IF journal.marked = None THEN <<N>> ELSE <<>>
  <2> HIDE DEF P, N
  <2> QED BY <1>1
<1>4. UNCHANGED <<config, journal, native, touched, used, seen>>
  BY <1>2, <1>3 DEF Step, observed
<1>5. FilesOK' /\ CleanOK'
  BY <1>4 DEF Inv, FilesOK, CleanOK, Bare, isClean, IsInjection, injectionOf
<1>6. injected(a)' = injected(a) /\ marked(journal, a)' = marked(journal, a)
  BY <1>4 DEF injected, marked
<1>7. section'[p].writes = marking(journal, a)'
  <2>1. section'[p].writes = Tail(section[p].writes)
    BY StepIs
  <2>2. marking(journal, a)' = IF journal.marked = None THEN <<N>> ELSE <<>>
    BY <1>4, <1>6, ListsThen DEF ListsOfInjection
  <2> QED BY <1>3, <2>1, <2>2
<1> QED BY <1>4, <1>5, <1>6, <1>7

\* The journal is marked with the configuration as it is now.
LEMMA InjectionMarks ==
  ASSUME Inv, NEW p \in Pids, Step(p), NEW a \in Args, journal # None,
         config = injected(a), section[p].writes = marking(journal, a)
  PROVE  FilesOK' /\ CleanOK' /\ config' = config /\ section'[p].writes = <<>>
<1> DEFINE N == ofJournal(marked(journal, a))
<1>1. section[p].writes = IF journal.marked = None THEN <<N>> ELSE <<>>
  BY ListsNow DEF ListsOfInjection
<1>2. journal.marked = None /\ section[p].writes = <<N>>
  BY <1>1, StepIs
<1>3. Head(section[p].writes) = N /\ Tail(section[p].writes) = <<>>
  <2> HIDE DEF N
  <2> QED BY <1>2
<1>4. /\ config.ours = a /\ config.text = injected(a).text /\ a # None
      /\ injected(a) \in Config
  BY Injected DEF Inv
<1>5. /\ marked(journal, a) \in Journal
      /\ marked(journal, a).config = journal.config
      /\ marked(journal, a).profile = journal.profile
      /\ marked(journal, a).marked = config
  <2>1. journal \in [config : Config, profile : Profile \ Args, pid : Pids,
                     marked : Config \union {None}, markedProfile : Profile]
    BY DEF Inv, TypeOK, FilesOK
  <2> QED BY <2>1, MarkedTyped DEF Inv
<1>6. N.file = "journal" /\ N.to = marked(journal, a) /\ N.to # None
  BY <1>5, NoneAssumption DEF ofJournal
<1>7. /\ journal' = marked(journal, a) /\ journal' # None
      /\ UNCHANGED <<config, profile, native, touched, used>>
      /\ seen' = IF seen = None THEN config.text ELSE seen
  <2>1. N.to.marked # None
    BY <1>4, <1>5, <1>6, NoneAssumption
  <2> QED BY <1>3, <1>6, <2>1 DEF Step, observed
<1>8. seen = None /\ seen' = config.text /\ journal'.marked = config /\ config # None
  BY <1>2, <1>4, <1>5, <1>7, NoneAssumption DEF Inv, FilesOK
<1>9. FilesOK'
  BY <1>4, <1>5, <1>7, <1>8 DEF Inv, FilesOK, Bare
<1>10. CleanOK'
  <2> SUFFICES ASSUME isClean
               PROVE  native = journal.config /\ IsInjection(config)
    BY <1>5, <1>7, <1>8 DEF CleanOK, isClean, IsInjection, injectionOf
  <2>1. native = journal.config /\ (config = journal.config \/ IsInjection(config))
    BY DEF Inv, CleanOK
  <2>2. config # journal.config
    BY <1>4 DEF Inv, FilesOK, Bare
  <2> QED BY <2>1, <2>2
<1>11. section'[p].writes = <<>>
  <2>1. section'[p].writes = Tail(section[p].writes)
    BY StepIs
  <2> QED BY <1>3, <2>1
<1> QED BY <1>7, <1>9, <1>10, <1>11

LEMMA InjectStep ==
  ASSUME Inv, NEW p \in Pids, Step(p), section[p].kind = "inject"
  PROVE  Inv'
<1>1. section[p] # None /\ InjectOK(p) /\ section[p].writes # <<>>
  BY DEF Step, Inv, SectionsOK
<1>2. PICK a \in Args :
        LET ws == section[p].writes IN
        \/ ws = injectWrites(p, a)
        \/ journal # None /\ config = injected(a) /\ ws = toProfile(a) \o marking(journal, a)
        \/ journal # None /\ config = injected(a) /\ ws = marking(journal, a)
  BY <1>1 DEF InjectOK
<1>3. /\ FilesOK' /\ CleanOK'
      /\ LET ws == section'[p].writes IN
         \/ ws = injectWrites(p, a)'
         \/ /\ journal' # None /\ config' = injected(a)'
            /\ ws = (toProfile(a) \o marking(journal, a))'
         \/ journal' # None /\ config' = injected(a)' /\ ws = marking(journal, a)'
         \/ ws = <<>>
  BY <1>2, InjectionJournals, InjectionConfigures, InjectionProfiles, InjectionMarks
<1>4. section'[p].kind = "inject" /\ \A q \in Pids \ {p} : section'[q] = None
  <2>1. \A q \in Pids \ {p} : section[q] = None
    BY <1>1 DEF InjectOK
  <2> QED BY <2>1, StepIs
<1>5. \A q \in Pids : RestoreOK(q)'
  BY <1>4 DEF RestoreOK
<1>6. InjectOK(p)'
  BY <1>3, <1>4 DEF InjectOK
<1>7. \A q \in Pids : InjectOK(q)'
  BY <1>4, <1>6 DEF InjectOK
<1> QED BY <1>3, <1>5, <1>7, StepTyped DEF Inv, SectionsOK

-----------------------------------------------------------------------------
(* The invariant *)

LEMMA InitInv ==
  ASSUME Init
  PROVE  Inv
<1>1. TypeOK
  BY DEF Init, TypeOK, Config, Profile, Stages
<1>2. FilesOK
  BY ArgsAssumption, FS_EmptySet DEF Init, FilesOK, Bare
<1>3. CleanOK /\ SectionsOK
  BY DEF Init, CleanOK, SectionsOK, RestoreOK, InjectOK
<1> QED BY <1>1, <1>2, <1>3 DEF Inv

\* The user edits: no call is under way.
LEMMA EditKeeps ==
  ASSUME Inv, NEW c \in Config, Edit(c)
  PROVE  Inv'
<1>1. /\ config' = c /\ c.ours = config.ours /\ c.routed = config.routed
      /\ UNCHANGED <<profile, journal, proc, section, used, seen>>
      /\ IF journal = None THEN native' = c /\ touched' = touched
                           ELSE touched' = TRUE /\ native' = native
      /\ restored' = FALSE
  BY DEF Edit
<1>2. TypeOK'
  BY <1>1 DEF Inv, TypeOK
<1>3. FilesOK'
  BY <1>1 DEF Inv, FilesOK, Bare
<1>4. CleanOK'
  BY <1>1 DEF CleanOK, isClean
<1>5. SectionsOK'
  <2>1. \A p \in Pids : section'[p] = None
    BY <1>1 DEF Edit
  <2> QED BY <2>1 DEF SectionsOK, RestoreOK, InjectOK
<1> QED BY <1>2, <1>3, <1>4, <1>5 DEF Inv

LEMMA CallsKeep ==
  ASSUME Inv, NEW p \in Pids,
         \/ Start(p) \/ WriteJournal(p) \/ StopByRequest(p) \/ Cleanup(p) \/ Ensure(p)
         \/ Restore(p) \/ \E a \in Args : Inject(p, a) \/ Sync(p, a)
  PROVE  Inv'
<1>1. reconcileJournal \in Seq(Write) /\ Restores("reconcile", reconcileJournal)
  <2>1. CASE reconcileJournal = <<>>
    BY <2>1 DEF Restores
  <2>2. CASE reconcileJournal = restoreJournalState
    BY <2>2, JournalRestoresFit DEF Inv
  <2> QED BY <2>1, <2>2 DEF reconcileJournal
<1>2. restoreNativeCodex \in Seq(Write) /\ Restores("restore", restoreNativeCodex)
  BY NativeRestoresFit DEF Inv
<1>3. journalWrites(p) \in Seq(Write) /\ Restores("journal", journalWrites(p))
  BY JournalWritesFit DEF Inv
<1>4. \A a \in Args : injectWrites(p, a) \in Seq(Write)
  BY InjectWritesTyped DEF Inv
<1>5. CASE Start(p)
  BY <1>1, <1>5, CallBegins DEF Start, Stages
<1>6. CASE WriteJournal(p)
  BY <1>3, <1>6, CallBegins DEF WriteJournal, Stages
<1>7. CASE StopByRequest(p)
  BY <1>2, <1>7, CallBegins DEF StopByRequest, Stages
<1>8. CASE Cleanup(p)
  BY <1>2, <1>8, CallBegins DEF Cleanup, Stages
<1>9. CASE Ensure(p)
  BY <1>1, <1>9, CallBegins DEF Ensure, Stages
<1>10. CASE Restore(p)
  BY <1>2, <1>10, CallBegins DEF Restore, Stages
<1>11. ASSUME NEW a \in Args, Inject(p, a) PROVE Inv'
  BY <1>4, <1>11, CallBegins DEF Inject, Stages
<1>12. ASSUME NEW a \in Args, Sync(p, a) PROVE Inv'
  BY <1>4, <1>12, CallBegins DEF Sync, Stages
<1> QED BY <1>5, <1>6, <1>7, <1>8, <1>9, <1>10, <1>11, <1>12

\* Calls that end, and steps outside of calls.
LEMMA OthersKeep ==
  ASSUME Inv, NEW p \in Pids,
         Return(p) \/ Crash(p) \/ Refuse(p) \/ Bind(p) \/ Find(p)
  PROVE  Inv'
<1>1. /\ UNCHANGED <<files, ghosts>>
      /\ \/ section' = section
         \/ section' = [section EXCEPT ![p] = None]
      /\ \/ proc' = proc
         \/ \E to \in Stages : proc' = [proc EXCEPT ![p] = to]
  BY DEF Return, Crash, Refuse, Bind, Find, becomes, Stages
<1>2. section' \in [Pids -> Section \union {None}] /\ proc' \in [Pids -> Stages]
  BY <1>1 DEF Inv, TypeOK
<1>3. \A q \in Pids : section'[q] \in {section[q], None}
  BY <1>1 DEF Inv, TypeOK
<1> QED BY <1>1, <1>2, <1>3, SectionsEnd

LEMMA NextInv ==
  ASSUME Inv, [Next]_vars
  PROVE  Inv'
<1>1. CASE UNCHANGED vars
  <2>1. UNCHANGED <<files, ghosts>> /\ section' = section /\ proc' = proc
    BY <1>1 DEF vars
  <2>2. section' \in [Pids -> Section \union {None}] /\ proc' \in [Pids -> Stages]
    BY <2>1 DEF Inv, TypeOK
  <2> QED BY <2>1, <2>2, SectionsEnd
<1>2. ASSUME NEW p \in Pids, Step(p) PROVE Inv'
  BY <1>2, RestoreStep, InjectStep
<1>3. CASE Next
  BY <1>2, <1>3, CallsKeep, OthersKeep, EditKeeps DEF Next
<1> QED BY <1>1, <1>3

LEMMA Invariance == Spec => []Inv
BY InitInv, NextInv, PTL DEF Spec

-----------------------------------------------------------------------------
(* Theorems *)

\* The files, the journal and the pending writes of every call keep their types.
THEOREM TypeCorrect == Spec => []TypeOK
<1>1. Inv => TypeOK
  BY DEF Inv
<1> QED BY <1>1, Invariance, PTL

\* What an injection wrote into config.toml is never there without a journal to
\* undo it, after any crash and with restores of any number of processes.
THEOREM Journaled == Spec => []InjectionsAreJournaled
<1>1. Inv => InjectionsAreJournaled
  BY DEF Inv, FilesOK, Bare, InjectionsAreJournaled
<1> QED BY <1>1, Invariance, PTL

\* The configuration that is free of anything of ours is the user's, unless the
\* user edited a routed one or two injections differed.
THEOREM NativeReturns == Spec => []NativeComesBack
<1>1. Inv => NativeComesBack
  <2> SUFFICES ASSUME Inv, config.ours = None, isClean PROVE config = native
    BY DEF NativeComesBack
  <2>1. CASE journal = None
    BY <2>1 DEF Inv, FilesOK
  <2>2. CASE journal # None
    <3>1. ~IsInjection(config)
      BY ArgsAssumption DEF IsInjection, injectionOf, Inv, TypeOK, Config
    <3> QED BY <2>2, <3>1 DEF Inv, CleanOK
  <2> QED BY <2>1, <2>2
<1> QED BY <1>1, Invariance, PTL

\* When restoreNativeCodex returns, config.toml has no route and no catalog of
\* ours, whatever other restores, starts and crashes did in between.
THEOREM Unrouted == Spec => RestoresUnroute
<1>1. Inv /\ [Next]_vars =>
        [\A p \in Pids :
           returns(p, "restore") => config.ours = None /\ ~config.routed]_vars
  <2> SUFFICES ASSUME Inv, NEW p \in Pids, returns(p, "restore")
               PROVE  config.ours = None /\ ~config.routed
    OBVIOUS
  <2>1. Restores("restore", <<>>)
    <3>1. section[p] # None /\ section[p].kind = "restore" /\ section[p].writes = <<>>
      BY DEF returns
    <3> QED BY <3>1 DEF Inv, SectionsOK, RestoreOK
  <2>2. ~precedes(<<>>, Len(<<>>) + 1, "config")
    BY DEF precedes
  <2> QED BY <2>1, <2>2 DEF Restores, Bare
<1> QED BY <1>1, Invariance, PTL DEF Spec, RestoresUnroute

\* A call changes the text of config.toml only to the one in its journal, and
\* only while it is still the one that the first marked injection found: what
\* the user wrote after that injection survives.
THEOREM EditsKept == Spec => EditsSurvive
<1>1. Inv /\ [Next]_vars =>
        [config'.text # config.text /\ section' # section =>
           /\ journal # None /\ config'.text = journal.config.text
           /\ seen # None => config.text = seen]_vars
  <2> SUFFICES ASSUME Inv, Next, config'.text # config.text, section' # section
               PROVE  /\ journal # None /\ config'.text = journal.config.text
                      /\ seen # None => config.text = seen
    BY DEF vars, files
  <2>1. PICK p \in Pids : Step(p)
    BY DEF Next, Return, Crash, Start, Refuse, Bind, WriteJournal, StopByRequest, Cleanup,
           Ensure, Find, Restore, Inject, Sync, Edit, calls, becomes, files
  <2>2. CASE section[p].kind # "inject"
    <3>1. config' = target
      BY <2>1, <2>2, WriteOf DEF Step
    <3>2. journal # None /\ configUnchanged
      BY <3>1, Strip DEF target, Inv
    <3>3. config' = journal.config
      BY <3>1, <3>2 DEF target
    <3> QED BY <3>2, <3>3 DEF configUnchanged, Inv, FilesOK
  <2>3. CASE section[p].kind = "inject"
    <3>1. section[p] # None /\ InjectOK(p) /\ section[p].writes # <<>>
      BY <2>1 DEF Step, Inv, SectionsOK
    <3>2. PICK a \in Args :
            LET ws == section[p].writes IN
            \/ ws = injectWrites(p, a)
            \/ journal # None /\ config = injected(a) /\ ws = toProfile(a) \o marking(journal, a)
            \/ journal # None /\ config = injected(a) /\ ws = marking(journal, a)
      BY <2>3, <3>1 DEF InjectOK
    <3>3. CASE journal # None /\ section[p].writes = injectWrites(p, a)
      <4>1. config' = injected(a)
        BY <2>1, <3>3, InjectionConfigures
      <4> QED BY <4>1, Injected DEF Inv
    <3>4. CASE journal = None
      BY <2>1, <3>2, <3>4, InjectionJournals
    <3>5. CASE journal # None /\ config = injected(a)
               /\ section[p].writes = toProfile(a) \o marking(journal, a)
      BY <2>1, <3>5, InjectionProfiles
    <3>6. CASE journal # None /\ config = injected(a) /\ section[p].writes = marking(journal, a)
      BY <2>1, <3>6, InjectionMarks
    <3> QED BY <3>2, <3>3, <3>4, <3>5, <3>6
  <2> QED BY <2>2, <2>3
<1> QED BY <1>1, Invariance, PTL DEF Spec, EditsSurvive

=============================================================================
