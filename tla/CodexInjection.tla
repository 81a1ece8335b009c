--------------------------- MODULE CodexInjection ---------------------------
(***************************************************************************)
(* How the proxy points Codex's own configuration at itself and gives it   *)
(* back: injectCodexConfig and restoreNativeCodex (codex/inject.ts), the   *)
(* recovery journal (codex/journal.ts), and the processes that call them   *)
(* (cli/index.ts, /api/sync and /api/stop of server/management-api.ts).    *)
(*                                                                         *)
(* A call of one of these is synchronous: it reads the files, decides, and *)
(* writes them one after the other.  It is a list of writes here, fixed    *)
(* when the call begins; a crash drops the rest of the list.  Restores of  *)
(* two processes interleave write by write.  An injection runs alone, and  *)
(* the user does not edit during a call: these are the two windows of a    *)
(* few milliseconds that the model leaves out.                             *)
(***************************************************************************)
EXTENDS Naturals, FiniteSets, Sequences

CONSTANTS
  Pids,      \* processes; an identifier is used once
  Texts,     \* what the user may write into config.toml and nobody else touches
  OwnUrls,   \* the texts with a root openai_base_url of the user
  Args,      \* what an injection writes: its port and catalog path
  None

ASSUME ArgsAssumption ==
  /\ OwnUrls \subseteq Texts
  /\ None \notin Args \union Texts \union Pids
  /\ {"absent", "users"} \intersect Args = {}

VARIABLES
  config,    \* config.toml
  profile,   \* opencodex.config.toml
  journal,   \* opencodex-journal.json, or None
  proc,      \* what each process is doing
  section,   \* the call each process is in: its kind and the writes left
  native,    \* ghost: the configuration as the user means it
  touched,   \* ghost: the user edited the configuration since it was journaled
  used,      \* ghost: what was injected since then
  seen,      \* ghost: the text that the first marked injection of the journal found
  restored   \* ghost: a journal was restored in full, and nothing else happened since

files == <<config, profile, journal>>
ghosts == <<native, touched, used, seen, restored>>
vars == <<files, proc, section, ghosts>>

\* overrides: the root model_provider and context window keys of the user; ours:
\* the catalog path of an injection; routed: its base URL or provider table.  (The
\* fast mode feature, which a strip leaves in place, is not represented.)
Config == [text : Texts, overrides : BOOLEAN, ours : Args \union {None}, routed : BOOLEAN]
Profile == {"absent", "users"} \union Args
Journal == [config : Config, profile : Profile \ Args, pid : Pids,
            marked : Config \union {None}, markedProfile : Profile]

Write == [file : {"config"}, to : Config] \union [file : {"profile"}, to : Profile]
           \union [file : {"journal"}, to : Journal \union {None}]
Section == [kind : {"journal", "inject", "reconcile", "restore"}, writes : Seq(Write)]

ASSUME NoneAssumption == None \notin Config \union Journal \union Section

\* A session of the proxy is at first "starting", then it is found by others
\* ("serving") until it ends; a tool is a command that injects or restores.
Stages == {"new", "starting", "bound", "serving", "draining", "ensuring", "syncing", "dead"}

TypeOK ==
  /\ config \in Config /\ profile \in Profile /\ native \in Config
  /\ journal = None \/ journal \in [config : Config, profile : Profile, pid : Pids,
                                     marked : Config \union {None}, markedProfile : Profile]
  /\ proc \in [Pids -> Stages]
  /\ section \in [Pids -> Section \union {None}]
  /\ touched \in BOOLEAN /\ used \subseteq Args /\ seen \in Texts \union {None}
  /\ restored \in BOOLEAN

Init ==
  /\ config \in [text : Texts, overrides : BOOLEAN, ours : {None}, routed : {FALSE}]
  /\ profile \in {"absent", "users"}
  /\ journal = None
  /\ proc = [p \in Pids |-> "new"]
  /\ section = [p \in Pids |-> None]
  /\ native = config /\ touched = FALSE /\ used = {} /\ seen = None /\ restored = FALSE

in(p, stage) == proc[p] = stage /\ section[p] = None
isLive == \E p \in Pids : proc[p] \in {"serving", "draining"}
isAlive(p) == proc[p] # "dead" \/ section[p] # None

-----------------------------------------------------------------------------
(* The writes of each call *)

toConfig(c) == <<[file |-> "config", to |-> c]>>
toProfile(f) == <<[file |-> "profile", to |-> f]>>
toJournal(j) == <<[file |-> "journal", to |-> j]>>
when(condition, writes) == IF condition THEN writes ELSE <<>>

snapshot(p) == [config |-> config, profile |-> profile, pid |-> p,
                marked |-> None, markedProfile |-> "absent"]

\* Fault: writeJournal replaces the journal of the session before.
journalsAnew(p) == toJournal(snapshot(p))

\* writeJournal keeps a journal that is there.
journalWrites(p) == when(journal = None, toJournal(snapshot(p)))

\* A text with the user's own base URL gets everything but the route.
injected(a) == [config EXCEPT !.overrides = FALSE, !.ours = a,
                              !.routed = config.text \notin OwnUrls]

\* Fault: every injection marks the journal.
marksAgain(j, a) == toJournal([j EXCEPT !.marked = injected(a), !.markedProfile = a])

\* Fault: the hash is that of the file before the injection.
marksTooEarly(j, a) == when(j.marked = None,
  toJournal([j EXCEPT !.marked = config, !.markedProfile = a]))

\* markJournalInjectedState: the hashes are set once.
marking(j, a) == when(j.marked = None,
  toJournal([j EXCEPT !.marked = injected(a), !.markedProfile = a]))

injectWrites(p, a) ==
  journalWrites(p) \o toConfig(injected(a)) \o toProfile(a)
    \o marking(IF journal = None THEN snapshot(p) ELSE journal, a)

\* A journal without hashes vouches for whatever it finds.
configUnchanged == journal.marked \in {None, config}
profileUnchanged == journal.marked = None \/ journal.markedProfile = profile

\* Fault: an incomplete restore removes the journal all the same.
restoresOnce ==
  IF journal = None THEN <<>>
  ELSE when(configUnchanged, toConfig(journal.config))
         \o when(profileUnchanged, toProfile(journal.profile)) \o toJournal(None)

restoreJournalState ==
  IF journal = None THEN <<>>
  ELSE when(configUnchanged, toConfig(journal.config))
         \o when(profileUnchanged, toProfile(journal.profile))
         \o when(configUnchanged /\ profileUnchanged, toJournal(None))

\* stripOpencodexConfig does not know what the injection took away.
stripped == [config EXCEPT !.ours = None, !.routed = FALSE]
removeCodexConfig(preserveProfile) ==
  when(stripped # config, toConfig(stripped)) \o when(~preserveProfile, toProfile("absent"))

restoreNativeCodex ==
  restoreJournalState
    \o (IF journal # None /\ configUnchanged THEN <<>> ELSE removeCodexConfig(journal # None))

reconcileJournal ==
  IF journal = None \/ isAlive(journal.pid) THEN <<>> ELSE restoreJournalState

-----------------------------------------------------------------------------
(* Calls *)

mayBegin(kind) == \A q \in Pids :
  section[q] # None => section[q].kind # "inject" /\ kind # "inject"

\* Process p, at stage "at", makes a call and is at stage "to" from then on.
calls(p, at, to, kind, writes) ==
  /\ in(p, at)
  /\ mayBegin(kind)
  /\ section' = [section EXCEPT ![p] = [kind |-> kind, writes |-> writes]]
  /\ proc' = [proc EXCEPT ![p] = to]
  /\ UNCHANGED <<files, ghosts>>

\* The ghosts follow the files: a journal's end makes what is there the user's,
\* if something besides one injection happened; its marking fixes what it saw.
isClean == ~touched /\ Cardinality(used) <= 1
observed(w) ==
  IF w.file = "journal" /\ w.to = None
  THEN /\ native' = IF isClean THEN native ELSE config
       /\ touched' = FALSE /\ used' = {} /\ seen' = None /\ restored' = TRUE
  ELSE /\ seen' = IF w.file = "journal" /\ w.to.marked # None /\ seen = None
                    THEN config.text ELSE seen
       /\ used' = IF w.file = "config" THEN used \union ({w.to.ours} \ {None}) ELSE used
       /\ restored' = (restored /\ journal = None /\ w.file # "journal")
       /\ UNCHANGED <<native, touched>>

Step(p) ==
  /\ section[p] # None /\ section[p].writes # <<>>
  /\ LET w == Head(section[p].writes)
     IN /\ config' = IF w.file = "config" THEN w.to ELSE config
        /\ profile' = IF w.file = "profile" THEN w.to ELSE profile
        /\ journal' = IF w.file = "journal" THEN w.to ELSE journal
        /\ observed(w)
  /\ section' = [section EXCEPT ![p].writes = Tail(@)]
  /\ UNCHANGED proc

Return(p) ==
  /\ section[p] # None /\ section[p].writes = <<>>
  /\ section' = [section EXCEPT ![p] = None]
  /\ UNCHANGED <<files, proc, ghosts>>

-----------------------------------------------------------------------------
(* ocx start, and the end of a session *)

Start(p) == calls(p, "new", "starting", "reconcile", reconcileJournal)

\* The check for a live proxy comes after the reconciliation.
becomes(p, at, to) ==
  /\ in(p, at)
  /\ proc' = [proc EXCEPT ![p] = to]
  /\ UNCHANGED <<files, section, ghosts>>
Refuse(p) == isLive /\ becomes(p, "starting", "dead")
Bind(p) == ~isLive /\ becomes(p, "starting", "bound")

WriteJournal(p) == calls(p, "bound", "serving", "journal", journalWrites(p))

\* The injection of the start, after prompts and the models have been fetched,
\* or that of /api/sync, at any time.
Inject(p, a) == calls(p, "serving", "serving", "inject", injectWrites(p, a))

\* /api/stop restores, and the session goes on while it drains.
StopByRequest(p) == calls(p, "serving", "draining", "restore", restoreNativeCodex)

\* syncCleanup, after a signal or at the exit of a drained session.
Cleanup(p) == \E at \in {"serving", "draining"} :
  calls(p, at, "dead", "restore", restoreNativeCodex)

\* A crash between any two writes; also the end of a session that a service
\* manager runs, which restores nothing.
Crash(p) ==
  /\ proc[p] \notin {"new", "dead"} \/ section[p] # None
  /\ proc' = [proc EXCEPT ![p] = "dead"]
  /\ section' = [section EXCEPT ![p] = None]
  /\ UNCHANGED <<files, ghosts>>

-----------------------------------------------------------------------------
(* Commands of other processes, and the user *)

\* ocx ensure, which Codex's launcher runs, reconciles before it waits for a
\* proxy.  ocx restore back needs one, ocx sync does not: it injects the
\* configured port when it finds none.
Ensure(p) == calls(p, "new", "ensuring", "reconcile", reconcileJournal)
Find(p) == becomes(p, "new", "syncing") \/ (isLive /\ becomes(p, "ensuring", "syncing"))
Sync(p, a) == calls(p, "syncing", "dead", "inject", injectWrites(p, a))

\* ocx restore, and the last act of ocx stop.
Restore(p) == calls(p, "new", "dead", "restore", restoreNativeCodex)

Edit(c) ==
  /\ \A p \in Pids : section[p] = None
  /\ c.ours = config.ours /\ c.routed = config.routed /\ c # config
  /\ config' = c
  /\ IF journal = None THEN native' = c /\ UNCHANGED touched
                       ELSE touched' = TRUE /\ UNCHANGED native
  /\ restored' = FALSE
  /\ UNCHANGED <<profile, journal, proc, section, used, seen>>

Next ==
  \/ \E p \in Pids :
       \/ Step(p) \/ Return(p) \/ Crash(p)
       \/ Start(p) \/ Refuse(p) \/ Bind(p) \/ WriteJournal(p)
       \/ StopByRequest(p) \/ Cleanup(p)
       \/ Ensure(p) \/ Find(p) \/ Restore(p)
       \/ \E a \in Args : Inject(p, a) \/ Sync(p, a)
  \/ \E c \in Config : Edit(c)

Spec == Init /\ [][Next]_vars

-----------------------------------------------------------------------------
(* Properties *)

\* What an injection wrote into Codex's configuration is never there without a
\* journal to undo it, whatever crashed and whoever restored: the next start,
\* ocx ensure or ocx stop can always clean up (writeJournal comes first in
\* injectCodexConfig, removeJournal last in restoreJournalState).
InjectionsAreJournaled == config.ours # None => journal # None

\* A restore that returns leaves nothing of ours in config.toml, even when two
\* processes restore at once: what the journal calls original is never an
\* injected file (restoreNativeCodex; structure/00_overview.md:63).
returns(p, kind) == section[p] # None /\ section[p].kind = kind /\ section'[p] = None
                      /\ section[p].writes = <<>> /\ proc'[p] = proc[p]
RestoresUnroute == [][\A p \in Pids :
  returns(p, "restore") => config.ours = None /\ ~config.routed]_vars

\* A call changes the text of config.toml in one way only: from what the first
\* marked injection of the journal found there, to what was there when the
\* journal was written.  So a text that the user wrote after that injection
\* survives re-injections, restores and recoveries.  One written between the
\* journal of ocx start (cli/index.ts:151) and its injection (217) does not: a
\* restore puts the older text back; nor is one safe while the journal has no mark.
EditsSurvive == [][
  config'.text # config.text /\ section' # section =>
    /\ journal # None /\ config'.text = journal.config.text
    /\ seen # None => config.text = seen]_vars

\* A configuration without anything of ours is the user's, with the overrides that
\* the injection took out, provided that the user did not edit it since it was
\* journaled and every injection wrote the same.
NativeComesBack ==
  config.ours = None /\ isClean => config = native

\* restoreNativeCodex is "Idempotent + atomic" (src/src/codex/inject.ts:543): once
\* a journal was restored in full, restoring again changes nothing.
RestoreIsIdempotent == [][restored /\ restored' => UNCHANGED files]_vars

=============================================================================
