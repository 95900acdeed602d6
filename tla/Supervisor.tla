------------------------------- MODULE Supervisor -------------------------------
(***************************************************************************)
(* The Supervisor of shed-host-agent (supervisor.go): the table of running *)
(* watcher groups, one per server, and the two operations on it, Reconcile *)
(* and Shutdown.  Both change the table and cancel groups in one critical  *)
(* section and wait for the cancelled groups after the unlock.             *)
(*                                                                         *)
(* A group is a server's name and a generation; the handlers that run in   *)
(* it appear only as the fact that they have not all exited.  The warning  *)
(* about an empty set is left out.                                         *)
(***************************************************************************)
EXTENDS Naturals

CONSTANTS
    Names,    \* names of servers
    Targets,  \* values of ServerTarget, the name apart
    None,     \* no target: the server is not wanted
    Callers,  \* goroutines that call Reconcile and Shutdown
    MaxGen    \* bound: groups started for a name

ASSUME NoneNotTarget == None \notin Targets
ASSUME MaxGenAssumption == MaxGen \in Nat

VARIABLES
    groups,     \* Supervisor.groups: the generation in the table, 0 if none
    gen,        \* the last generation started
    gstate,     \* of a group: its context and its goroutines
    gtarget,    \* watcherGroup.target
    closed,     \* Supervisor.closed
    parentDone, \* the parent context is cancelled
    spc,        \* where a caller is
    drain       \* the groups a caller waits for

supVars == <<groups, gen, gstate, gtarget, closed, parentDone, spc, drain>>

Group == Names \X (1..MaxGen)

SupInit ==
    /\ groups = [n \in Names |-> 0]
    /\ gen = [n \in Names |-> 0]
    /\ gstate = [g \in Group |-> "none"]
    /\ gtarget = [g \in Group |-> None]
    /\ closed = FALSE /\ parentDone = FALSE
    /\ spc = [c \in Callers |-> "idle"]
    /\ drain = [c \in Callers |-> {}]

\* The group in the table under a name.
Current(n) == <<n, groups[n]>>

InTable == {Current(n) : n \in {m \in Names : groups[m] # 0}}

\* Mutant: a group is stopped only when its name is gone.
Outdated_NameOnly(want) ==
    {n \in Names : groups[n] # 0 /\ want[n] = None}

\* Names whose group is unwanted, or was started for another target.
Outdated(want) ==
    {n \in Names : groups[n] # 0 /\ gtarget[Current(n)] # want[n]}

\* Names to start a group for, once the outdated groups are gone.
Missing(want) ==
    {n \in Names : want[n] # None /\ (groups[n] = 0 \/ n \in Outdated(want))}

\* Mutant: an outdated group leaves the table without being cancelled.
States_NoCancel(old, new) ==
    [g \in Group |-> IF g \in new THEN "running" ELSE gstate[g]]

\* The groups of `old` are cancelled and those of `new` started.
States(old, new) ==
    [g \in Group |-> CASE g \in new -> "running"
                       [] g \in old /\ gstate[g] = "running" -> "cancelled"
                       [] OTHER -> gstate[g]]

\* Reconcile, the critical section; after Shutdown it does nothing.
Reconcile(c, want) ==
    /\ spc[c] = "idle" /\ ~closed
    /\ \A n \in Missing(want) : gen[n] < MaxGen
    /\ groups' = [n \in Names |-> CASE n \in Missing(want) -> gen[n] + 1
                                   [] want[n] = None -> 0
                                   [] OTHER -> groups[n]]
    /\ gen' = [n \in Names |-> IF n \in Missing(want) THEN gen[n] + 1 ELSE gen[n]]
    /\ LET old == {Current(n) : n \in Outdated(want)}
           new == {<<n, gen[n] + 1>> : n \in Missing(want)} IN
         /\ gstate' = States(old, new)
         /\ gtarget' = [g \in Group |-> IF g \in new THEN want[g[1]] ELSE gtarget[g]]
         /\ drain' = [drain EXCEPT ![c] = old]
    /\ spc' = [spc EXCEPT ![c] = "draining"]
    /\ UNCHANGED <<closed, parentDone>>

\* Mutant: the caller returns as soon as one group has exited.
Waited_AnyOne(c) == drain[c] = {} \/ \E g \in drain[c] : gstate[g] = "done"

\* <-g.done, for each of them
Waited(c) == \A g \in drain[c] : gstate[g] = "done"

Reconciled(c) ==
    /\ spc[c] = "draining"
    /\ Waited(c)
    /\ spc' = [spc EXCEPT ![c] = "idle"]
    /\ drain' = [drain EXCEPT ![c] = {}]
    /\ UNCHANGED <<groups, gen, gstate, gtarget, closed, parentDone>>

\* Mutant: Shutdown does not close the supervisor to later Reconciles.
Shutdown_StaysOpen(c) ==
    /\ spc[c] = "idle"
    /\ groups' = [n \in Names |-> 0]
    /\ gstate' = States(InTable, {})
    /\ drain' = [drain EXCEPT ![c] = InTable]
    /\ spc' = [spc EXCEPT ![c] = "stopping"]
    /\ UNCHANGED <<gen, gtarget, closed, parentDone>>

\* Shutdown, the critical section.
Shutdown(c) ==
    /\ spc[c] = "idle"
    /\ closed' = TRUE
    /\ groups' = [n \in Names |-> 0]
    /\ gstate' = States(InTable, {})
    /\ drain' = [drain EXCEPT ![c] = InTable]
    /\ spc' = [spc EXCEPT ![c] = "stopping"]
    /\ UNCHANGED <<gen, gtarget, parentDone>>

ShutDown(c) ==
    /\ spc[c] = "stopping"
    /\ Waited(c)
    /\ spc' = [spc EXCEPT ![c] = "stopped"]
    /\ drain' = [drain EXCEPT ![c] = {}]
    /\ UNCHANGED <<groups, gen, gstate, gtarget, closed, parentDone>>

\* The last goroutine of a group sees its context, or the parent, cancelled.
GroupExits(g) ==
    /\ gstate[g] = "cancelled" \/ (gstate[g] = "running" /\ parentDone)
    /\ gstate' = [gstate EXCEPT ![g] = "done"]
    /\ UNCHANGED <<groups, gen, gtarget, closed, parentDone, spc, drain>>

\* A signal cancels the parent context.
Cancel ==
    /\ ~parentDone
    /\ parentDone' = TRUE
    /\ UNCHANGED <<groups, gen, gstate, gtarget, closed, spc, drain>>

SupNext ==
    \/ \E c \in Callers :
         \/ \E want \in [Names -> Targets \cup {None}] : Reconcile(c, want)
         \/ Reconciled(c) \/ Shutdown(c) \/ ShutDown(c)
    \/ \E g \in Group : GroupExits(g)
    \/ Cancel

SupSpec == SupInit /\ [][SupNext]_supVars

-----------------------------------------------------------------------------
\* Every variable has its type.
SupTypeOK ==
    /\ groups \in [Names -> 0..MaxGen]
    /\ gen \in [Names -> 0..MaxGen]
    /\ gstate \in [Group -> {"none", "running", "cancelled", "done"}]
    /\ gtarget \in [Group -> Targets \cup {None}]
    /\ closed \in BOOLEAN /\ parentDone \in BOOLEAN
    /\ spc \in [Callers -> {"idle", "draining", "stopping", "stopped"}]
    /\ drain \in [Callers -> SUBSET Group]

\* No group runs that the table has lost: each running group is the one in the
\* table under its name, so a server never has two live groups and every one can
\* still be stopped, however Reconciles and Shutdowns overlap.
RunningIsInTable ==
    \A g \in Group : gstate[g] = "running" => g \in InTable

\* A cancelled group has somebody who waits until it has exited: Reconcile and
\* Shutdown never return with goroutines of theirs left behind.
CancelledIsAwaited ==
    \A g \in Group : gstate[g] = "cancelled" => \E c \in Callers : g \in drain[c]

\* From the moment a Shutdown is under way no group is started any more, by
\* whichever Reconcile ("a Reconcile after Shutdown is a no-op").
NothingAfterShutdown ==
    (\E c \in Callers : spc[c] \in {"stopping", "stopped"}) =>
        /\ InTable = {}
        /\ \A g \in Group : gstate[g] # "running"

=============================================================================
