----------------------------- MODULE DiscoveryWatch -----------------------------
(***************************************************************************)
(* Server discovery in shed-host-agent: the watch loop of watcher.go, the  *)
(* read of the discovery source (discovery.go, main.go) and, by extension, *)
(* the Supervisor it drives.  One goroutine does it all: it reads and      *)
(* reconciles once, then again whenever the watch mode says so, and shuts  *)
(* the supervisor down when the context is cancelled.                      *)
(*                                                                         *)
(* The environment rewrites the source, by an atomic rename or in place:   *)
(* the file is truncated and written entry by entry, and a read in between *)
(* finds a part of it.  `file` is what a read gives: the entries, or Torn  *)
(* when there is an error (it does not parse, or cannot be read).  A       *)
(* missing or an empty file lists no servers.  The configuration selects   *)
(* the names that are brokered for (config.go).                            *)
(*                                                                         *)
(* A handler of a group may be blocked in what has no deadline and does    *)
(* not look at its context: the Touch ID sheet (touchid_darwin.go) or a    *)
(* request to the host's SSH agent (ssh_backend_agent.go).  Until it is    *)
(* through its group does not exit.                                        *)
(***************************************************************************)
EXTENDS Supervisor

CONSTANTS
    Watcher,    \* the goroutine that runs runWatchLoop
    Modes,      \* values of discovery.watch
    Versions,   \* contents the source is given
    Torn,       \* a source that cannot be read or does not parse
    Cut,        \* what a target reads as when the file ends inside its entry, host and all
    NoHost,     \* an entry of the source with an empty host
    Selection,  \* discovery.servers: the names given, or Omitted, which is also "all"
    Omitted,
    NotWriting, \* no write in place is under way
    Overflows,  \* whether the watch may lose events (its errors are only logged)
    MaxWrites,  \* bound: rewrites of the source, and parts of it written
    MaxBlocks   \* bound: times a handler enters what has no deadline

ASSUME WatcherAssumption == Watcher \in Callers
ASSUME TornAssumption == Torn \notin [Names -> Targets \cup {None, NoHost}]
ASSUME OverflowsAssumption == Overflows \in BOOLEAN
ASSUME LoopAssumption == Modes \subseteq {"off", "poll", "fsnotify"} /\ MaxWrites \in Nat
ASSUME HostAssumption == NoHost \notin Targets
ASSUME BlocksAssumption == MaxBlocks \in Nat
ASSUME VersionsAssumption == Versions \subseteq [Names -> Targets \cup {None, NoHost}]
ASSUME CutAssumption == Cut \in [Targets -> SUBSET Targets]
ASSUME SelectionAssumption == Selection = Omitted \/ Selection \subseteq Names

VARIABLES
    file,     \* what a read of the source gives
    writing,  \* the contents a write in place will leave
    writes,   \* rewrites so far
    mode,     \* the watch mode, after any fallback
    watching, \* the fsnotify watch is in place
    event,    \* the watch has events for the loop
    timer,    \* the debounce timer runs
    wpc,      \* where the watch goroutine is
    snap,     \* what it has read
    blocked,  \* groups with a handler in what has no deadline
    blocks,   \* times a handler has entered it
    written,  \* history: every version the source was given
    inplace,  \* history: those that were written in place
    listed,   \* history: what the source has listed a server as whenever it parsed
    missed    \* history: the source has changed with the loop told nothing of it

fileVars == <<file, writing, writes, written, inplace, listed>>
loopVars == <<mode, watching, event, timer, wpc, snap>>
groupVars == <<blocked, blocks>>
vars == <<supVars, fileVars, loopVars, groupVars, missed>>

Content == [Names -> Targets \cup {None, NoHost}]

NoServers == [n \in Names |-> None]

\* What an entry e may read as when the file ends inside it: before its host, or after.
CutOf(e) == IF e \in Targets THEN Cut[e] \cup {NoHost} ELSE {e}

Whole(v, p, n) == p[n] \in {v[n], None}

\* What a read of a half-written v may find: some entries, the last of them cut short.
Partial(v) ==
    {p \in Content :
        /\ \A n \in Names : Whole(v, p, n) \/ p[n] \in CutOf(v[n])
        /\ \A m, n \in Names : ~Whole(v, p, m) /\ ~Whole(v, p, n) => m = n}

\* An entry without a host is skipped; api_url goes before host and port.
LoadDiscoveredServers(v) == [n \in Names |-> IF v[n] = NoHost THEN None ELSE v[n]]

\* `servers: []` selects none, a selector left out all.
Selected(n) == Selection = Omitted \/ n \in Selection

\* Config.ResolveTargets.  (Without discovery the one server is a source that never
\* changes, and the mode is off.)
ResolveTargets(v) == [n \in Names |-> IF Selected(n) THEN LoadDiscoveredServers(v)[n] ELSE None]

Init ==
    /\ SupInit
    /\ file \in Versions
    /\ writing = NotWriting /\ writes = 0
    /\ mode \in Modes
    /\ watching = FALSE /\ event = FALSE /\ timer = FALSE
    /\ wpc = "reading" /\ snap = NoServers
    /\ blocked = {} /\ blocks = 0
    /\ written = {file} /\ inplace = {} /\ missed = FALSE
    /\ listed = [n \in Names |-> {ResolveTargets(file)[n]}]

-----------------------------------------------------------------------------
(* The source *)

\* The source holds f from now on.  The watch has an event for the loop, unless it is lost.
Hold(f) ==
    /\ file' = f
    /\ listed' = IF f = Torn THEN listed
                  ELSE [n \in Names |-> listed[n] \cup {ResolveTargets(f)[n]}]
    /\ event' \in {event \/ watching} \cup (IF Overflows THEN {event} ELSE {})
    /\ missed' = (mode = "fsnotify" /\ wpc # "reading" /\ ~event' /\ ~timer)
    /\ UNCHANGED <<supVars, mode, watching, timer, wpc, snap, groupVars>>

\* A rename puts a version in place, or an edit that does not parse.
Rename(v) ==
    /\ writing = NotWriting
    /\ writes < MaxWrites
    /\ writes' = writes + 1
    /\ written' = written \cup ({v} \ {Torn})
    /\ Hold(v)
    /\ UNCHANGED <<writing, inplace>>

BeginWrite(v) ==
    /\ writing = NotWriting
    /\ writes < MaxWrites
    /\ writes' = writes + 1
    /\ writing' = v
    /\ written' = written \cup {v}
    /\ inplace' = inplace \cup {v}
    /\ \E p \in Partial(v) \cup {Torn} : Hold(p)

WriteOn ==
    /\ writing # NotWriting
    /\ writes < MaxWrites
    /\ writes' = writes + 1
    /\ \E p \in Partial(writing) \cup {Torn} : Hold(p)
    /\ UNCHANGED <<writing, written, inplace>>

EndWrite ==
    /\ writing # NotWriting
    /\ writing' = NotWriting
    /\ Hold(writing)
    /\ UNCHANGED <<writes, written, inplace>>

-----------------------------------------------------------------------------
(* One reconcile: computeDesired, then Supervisor.Reconcile *)

\* Where the goroutine goes on after a reconcile.
Resume == IF mode = "fsnotify" /\ ~watching THEN "adding" ELSE "loop"

\* Mutant: a source that cannot be read counts as one without servers.
Read_ErrorIsEmpty ==
    /\ wpc = "reading"
    /\ snap' = IF file = Torn THEN NoServers ELSE ResolveTargets(file)
    /\ wpc' = "applying"
    /\ UNCHANGED <<supVars, fileVars, groupVars, mode, watching, event, timer, missed>>

\* Mutant: the selector is not applied.
Read_Unfiltered ==
    /\ wpc = "reading"
    /\ IF file = Torn
         THEN wpc' = Resume /\ UNCHANGED snap
         ELSE wpc' = "applying" /\ snap' = LoadDiscoveredServers(file)
    /\ UNCHANGED <<supVars, fileVars, groupVars, mode, watching, event, timer, missed>>

\* A source that cannot be read leaves the servers as they are.
Read ==
    /\ wpc = "reading"
    /\ IF file = Torn
         THEN wpc' = Resume /\ UNCHANGED snap
         ELSE wpc' = "applying" /\ snap' = ResolveTargets(file)
    /\ UNCHANGED <<supVars, fileVars, groupVars, mode, watching, event, timer, missed>>

Apply ==
    /\ wpc = "applying"
    /\ Reconcile(Watcher, snap)
    /\ wpc' = "draining"
    /\ UNCHANGED <<fileVars, groupVars, mode, watching, event, timer, snap, missed>>

Applied ==
    /\ wpc = "draining"
    /\ Reconciled(Watcher)
    /\ wpc' = Resume
    /\ UNCHANGED <<fileVars, groupVars, mode, watching, event, timer, snap, missed>>

-----------------------------------------------------------------------------
(* runFsnotifyLoop and runPollLoop *)

\* The watch is in place, or the loop falls back to polling.
AddWatch ==
    /\ wpc = "adding"
    /\ \/ watching' = TRUE /\ UNCHANGED <<mode, missed>>
       \/ mode' = "poll" /\ missed' = FALSE /\ UNCHANGED watching
    /\ wpc' = "loop"
    /\ UNCHANGED <<supVars, fileVars, groupVars, event, timer, snap>>

\* Arm the debounce timer, or set it back.
TakeEvent ==
    /\ wpc = "loop" /\ event
    /\ event' = FALSE
    /\ timer' = TRUE
    /\ UNCHANGED <<supVars, fileVars, groupVars, mode, watching, wpc, snap, missed>>

\* Mutant: the timer runs out with nothing done.
Fire_Idle ==
    /\ wpc = "loop" /\ timer
    /\ timer' = FALSE
    /\ UNCHANGED <<supVars, fileVars, groupVars, mode, watching, event, wpc, snap, missed>>

\* The timer fires: reconcile.
Fire ==
    /\ wpc = "loop" /\ timer
    /\ timer' = FALSE
    /\ wpc' = "reading"
    /\ UNCHANGED <<supVars, fileVars, groupVars, mode, watching, event, snap, missed>>

Tick ==
    /\ wpc = "loop" /\ mode = "poll"
    /\ wpc' = "reading"
    /\ UNCHANGED <<supVars, fileVars, groupVars, mode, watching, event, timer, snap, missed>>

\* Mutant: the poll loop does not look at the context.
Stop_NotPolling ==
    /\ wpc = "loop" /\ parentDone /\ mode # "poll"
    /\ Shutdown(Watcher)
    /\ wpc' = "stopping"
    /\ UNCHANGED <<fileVars, groupVars, mode, watching, event, timer, snap, missed>>

\* The context is cancelled: the loop returns and main shuts the supervisor down.
Stop ==
    /\ wpc = "loop" /\ parentDone
    /\ Shutdown(Watcher)
    /\ wpc' = "stopping"
    /\ UNCHANGED <<fileVars, groupVars, mode, watching, event, timer, snap, missed>>

Stopped ==
    /\ wpc = "stopping"
    /\ ShutDown(Watcher)
    /\ wpc' = "stopped"
    /\ UNCHANGED <<fileVars, groupVars, mode, watching, event, timer, snap, missed>>

-----------------------------------------------------------------------------
Writer ==
    \/ \E v \in Versions \cup {Torn} : Rename(v)
    \/ \E v \in Versions : BeginWrite(v)
    \/ WriteOn \/ EndWrite

WatchLoop ==
    \/ Read \/ Apply \/ Applied \/ AddWatch \/ TakeEvent \/ Fire \/ Tick
    \/ Stop \/ Stopped

Outside ==
    /\ Cancel \/ \E g \in Group \ blocked : GroupExits(g)
    /\ UNCHANGED <<fileVars, loopVars, groupVars, missed>>

\* A handler of the group enters what has no deadline, also when its group was just cancelled.
Block(g) ==
    /\ gstate[g] \in {"running", "cancelled"} /\ g \notin blocked
    /\ blocks < MaxBlocks
    /\ blocks' = blocks + 1
    /\ blocked' = blocked \cup {g}
    /\ UNCHANGED <<supVars, fileVars, loopVars, missed>>

\* The user, or the SSH agent, answers.
Unblock(g) ==
    /\ g \in blocked
    /\ blocked' = blocked \ {g}
    /\ UNCHANGED <<supVars, fileVars, loopVars, blocks, missed>>

Handlers == \E g \in Group : Block(g) \/ Unblock(g)

Next == Writer \/ WatchLoop \/ Outside \/ Handlers

Spec == Init /\ [][Next]_vars

(***************************************************************************)
(* Fairness.  The goroutine runs, its timers fire, and a select that finds *)
(* the context cancelled again and again takes that case (select picks at  *)
(* random).  The goroutines of a cancelled group exit unless one is in     *)
(* what has no deadline: everything else they wait in, an approval on the  *)
(* desktop or a request over HTTP, has one or ends with the context.       *)
(* Nothing is assumed of the user or the SSH agent (Unblock), nor of who   *)
(* writes the source, not even that a write in place is ever finished.     *)
(***************************************************************************)
Exits(g) ==
    g \notin blocked /\ GroupExits(g) /\ UNCHANGED <<fileVars, loopVars, groupVars, missed>>

FairSpec ==
    /\ Spec
    /\ WF_vars(WatchLoop) /\ SF_vars(Stop)
    /\ \A g \in Group : WF_vars(Exits(g))

-----------------------------------------------------------------------------
\* Every variable has its type.
TypeOK ==
    /\ SupTypeOK
    /\ file \in Content \cup {Torn}
    /\ writing \in Versions \cup {NotWriting}
    /\ writes \in 0..MaxWrites
    /\ mode \in {"off", "poll", "fsnotify"}
    /\ watching \in BOOLEAN /\ event \in BOOLEAN /\ timer \in BOOLEAN
    /\ wpc \in {"reading", "applying", "draining", "adding", "loop", "stopping", "stopped"}
    /\ snap \in [Names -> Targets \cup {None}]
    /\ blocked \subseteq Group /\ blocks \in 0..MaxBlocks
    /\ inplace \subseteq written /\ written \subseteq Versions
    /\ listed \in [Names -> SUBSET (Targets \cup {None})]
    /\ missed \in BOOLEAN

\* The servers brokered for, each with the target its group was started with.
Watched == [n \in Names |-> IF groups[n] = 0 THEN None ELSE gtarget[Current(n)]]

\* The target t is what the version v gives the server n, or what is left of it when v was
\* written in place and the file ended inside that entry.
Gives(v, n, t) == v[n] \in Targets /\ (t = v[n] \/ (v \in inplace /\ t \in Cut[v[n]]))

\* The agent only ever brokers for servers the selector names, and for a target that one
\* version gave the server of that name, whole or cut short in the middle of that very
\* write: no read, however it falls between writes and reconciles, mixes servers or versions
\* up.  (It takes the types along.)
OnlyListed ==
    /\ TypeOK
    /\ \A n \in Names : groups[n] # 0 =>
          Selected(n) /\ \E v \in written : Gives(v, n, Watched[n])

\* The group that was started first for the server runs on: no stop and no restart.
Undisturbed(n) == groups[n] = gen[n] /\ gen[n] <= 1

\* A server that the source has listed alike whenever it parsed is never stopped and never
\* restarted, whatever happens to the others and however many reads end in an error
\* (main.go's computeDesired: "keeps the current servers ...").
ErrorsKeepServers ==
    \A n \in Names : (\E t \in Targets : listed[n] = {t}) /\ ~closed => Undisturbed(n)

\* What that comment goes on to say, of a "transient/partial-write read": a server that
\* every version lists alike is not torn down by a read in the middle of a write.
NeverDropped ==
    \A n \in Names :
        (\E t \in Targets : \A v \in written : ResolveTargets(v)[n] = t) /\ ~closed
            => Undisturbed(n)

\* The loop waits for a group that has a handler in what has no deadline.
HeldUp == drain[Watcher] \cap blocked # {}

\* The agent brokers for exactly the selected servers the source lists, with the targets it
\* gives them, or the source has nothing to say.
UpToDate == file = Torn \/ Watched = ResolveTargets(file) \/ parentDone

\* "We watch the directory ... so atomic rewrites are still observed": once the source is left
\* alone the agent ends up with what it lists, unless a handler holds the loop up.
Converges == mode = "off" \/ <>[](UpToDate \/ HeldUp)

\* It does when polling, and with fsnotify whatever the debounce and the reconciles overlap
\* with, unless the loop was told nothing of the last change: it fell between the first read
\* and the start of the watch, or its event was lost.  And it does not while the loop waits
\* for a group that was stopped with a handler in a Touch ID sheet or the SSH agent.
ConvergesOnceWatched == mode = "off" \/ <>[](UpToDate \/ missed \/ HeldUp)

\* When main is through with Shutdown no goroutine of any group is left.
NothingLeft == wpc = "stopped" => \A g \in Group : gstate[g] \in {"none", "done"}

\* After a signal the loop ends, whatever it was doing, unless it waits for ever for a handler
\* in a Touch ID sheet or the SSH agent; and it leaves nothing behind.
StopsClean ==
    /\ (parentDone ~> wpc = "stopped") \/ <>[]HeldUp
    /\ []NothingLeft

=============================================================================
