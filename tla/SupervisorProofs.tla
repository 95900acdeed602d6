---------------------------- MODULE SupervisorProofs ----------------------------
(***************************************************************************)
(* Proofs about Supervisor, for any servers, targets and callers.          *)
(***************************************************************************)
EXTENDS Supervisor, TLAPS

-----------------------------------------------------------------------------
(* Type correctness *)

GState == {"none", "running", "cancelled", "done"}

\* Cancelling and starting groups keeps the type of their states.
LEMMA StatesType ==
    ASSUME SupTypeOK, NEW old, NEW new
    PROVE  States(old, new) \in [Group -> GState]
<1>1. gstate \in [Group -> GState]
  BY DEF SupTypeOK, GState
<1>2. ASSUME NEW g \in Group
      PROVE  (CASE g \in new -> "running"
                [] g \in old /\ gstate[g] = "running" -> "cancelled"
                [] OTHER -> gstate[g]) \in GState
  BY <1>1 DEF GState
<1> QED
  BY <1>2 DEF States

\* The groups of outdated names, and those in the table, are groups.
LEMMA TableTypes ==
    ASSUME SupTypeOK, NEW want
    PROVE  {Current(n) : n \in Outdated(want)} \subseteq InTable /\ InTable \subseteq Group
<1>1. groups \in [Names -> 0..MaxGen]
  BY DEF SupTypeOK
<1>2. ASSUME NEW n \in Names, groups[n] # 0 PROVE Current(n) \in Group
  BY <1>1, <1>2, MaxGenAssumption DEF Current, Group
<1> QED
  BY <1>2 DEF Outdated, InTable

\* The types hold as the agent starts.
LEMMA SupTypeInit ==
    ASSUME SupInit PROVE SupTypeOK
<1>1. groups \in [Names -> 0..MaxGen] /\ gen \in [Names -> 0..MaxGen]
  BY MaxGenAssumption DEF SupInit
<1>2. gtarget \in [Group -> Targets \cup {None}]
  BY DEF SupInit
<1>3. gstate \in [Group -> {"none", "running", "cancelled", "done"}]
  BY DEF SupInit
<1>4. closed \in BOOLEAN /\ parentDone \in BOOLEAN
  <2>1. closed = FALSE /\ parentDone = FALSE
    BY DEF SupInit
  <2> QED
    BY <2>1
<1>5. spc \in [Callers -> {"idle", "draining", "stopping", "stopped"}]
  BY DEF SupInit
<1>6. drain \in [Callers -> SUBSET Group]
  BY DEF SupInit
<1> QED
  BY <1>1, <1>2, <1>3, <1>4, <1>5, <1>6 DEF SupTypeOK

\* Every step keeps the types.
LEMMA SupTypeStep ==
    ASSUME SupTypeOK, [SupNext]_supVars PROVE SupTypeOK'
<1>0. /\ groups \in [Names -> 0..MaxGen] /\ gen \in [Names -> 0..MaxGen]
      /\ gstate \in [Group -> GState] /\ gtarget \in [Group -> Targets \cup {None}]
      /\ spc \in [Callers -> {"idle", "draining", "stopping", "stopped"}]
      /\ drain \in [Callers -> SUBSET Group]
  BY DEF SupTypeOK, GState
<1>1. ASSUME NEW c \in Callers, NEW want \in [Names -> Targets \cup {None}], Reconcile(c, want)
      PROVE  SupTypeOK'
  <2> DEFINE new == {<<n, gen[n] + 1>> : n \in Missing(want)}
             old == {Current(n) : n \in Outdated(want)}
  <2>1. \A n \in Missing(want) : n \in Names /\ gen[n] + 1 \in 0..MaxGen
    BY <1>0, <1>1, MaxGenAssumption DEF Reconcile, Missing
  <2>2. ASSUME NEW n \in Names
        PROVE  /\ (CASE n \in Missing(want) -> gen[n] + 1
                     [] want[n] = None -> 0
                     [] OTHER -> groups[n]) \in 0..MaxGen
               /\ (IF n \in Missing(want) THEN gen[n] + 1 ELSE gen[n]) \in 0..MaxGen
    BY <1>0, <2>1, MaxGenAssumption
  <2>3. groups' \in [Names -> 0..MaxGen] /\ gen' \in [Names -> 0..MaxGen]
    BY <1>1, <2>2 DEF Reconcile
  <2>4. gstate' \in [Group -> GState]
    BY <1>1, StatesType DEF Reconcile
  <2>5. gtarget' \in [Group -> Targets \cup {None}]
    <3>1. gtarget' = [g \in Group |-> IF g \in new THEN want[g[1]] ELSE gtarget[g]]
      BY <1>1 DEF Reconcile
    <3>2. \A g \in Group : g[1] \in Names
      BY DEF Group
    <3>3. \A g \in Group : (IF g \in new THEN want[g[1]] ELSE gtarget[g]) \in Targets \cup {None}
      BY <1>0, <3>2
    <3> QED
      BY <3>1, <3>3
  <2>6. drain' \in [Callers -> SUBSET Group]
    <3>1. old \in SUBSET Group
      BY TableTypes
    <3>2. drain' = [drain EXCEPT ![c] = old]
      BY <1>1 DEF Reconcile
    <3> QED
      BY <1>0, <3>1, <3>2
  <2>7. spc' \in [Callers -> {"idle", "draining", "stopping", "stopped"}]
    BY <1>0, <1>1 DEF Reconcile
  <2>8. closed' \in BOOLEAN /\ parentDone' \in BOOLEAN
    BY <1>1 DEF SupTypeOK, Reconcile
  <2> QED
    BY <2>3, <2>4, <2>5, <2>6, <2>7, <2>8 DEF SupTypeOK, GState
<1>2. ASSUME NEW c \in Callers, Reconciled(c) \/ ShutDown(c) PROVE SupTypeOK'
  <2>1. /\ drain' \in [Callers -> SUBSET Group]
        /\ spc' \in [Callers -> {"idle", "draining", "stopping", "stopped"}]
        /\ UNCHANGED <<groups, gen, gstate, gtarget, closed, parentDone>>
    BY <1>0, <1>2 DEF Reconciled, ShutDown
  <2> QED
    BY <2>1 DEF SupTypeOK
<1>3. ASSUME NEW c \in Callers, Shutdown(c) PROVE SupTypeOK'
  <2>1. /\ closed' = TRUE /\ groups' = [n \in Names |-> 0] /\ gstate' = States(InTable, {})
        /\ drain' = [drain EXCEPT ![c] = InTable] /\ spc' = [spc EXCEPT ![c] = "stopping"]
        /\ UNCHANGED <<gen, gtarget, parentDone>>
    BY <1>3 DEF Shutdown
  <2>2. groups' \in [Names -> 0..MaxGen]
    BY <2>1, MaxGenAssumption
  <2>3. gstate' \in [Group -> GState]
    BY <2>1, StatesType
  <2>4. drain' \in [Callers -> SUBSET Group]
    BY <1>0, <2>1, TableTypes
  <2>5. spc' \in [Callers -> {"idle", "draining", "stopping", "stopped"}]
    BY <1>0, <2>1
  <2> QED
    BY <2>1, <2>2, <2>3, <2>4, <2>5 DEF SupTypeOK, GState
<1>4. ASSUME NEW g \in Group, GroupExits(g) PROVE SupTypeOK'
  <2>1. gstate' \in [Group -> GState]
    BY <1>0, <1>4 DEF GroupExits, GState
  <2> QED
    BY <2>1, <1>4 DEF SupTypeOK, GState, GroupExits
<1>5. CASE Cancel \/ UNCHANGED supVars
  <2>1. /\ parentDone' \in BOOLEAN
        /\ UNCHANGED <<groups, gen, gstate, gtarget, closed, spc, drain>>
    <3>1. parentDone \in BOOLEAN
      BY DEF SupTypeOK
    <3> QED
      BY <1>5, <3>1 DEF Cancel, supVars
  <2> QED
    BY <2>1 DEF SupTypeOK
<1> QED
  BY <1>1, <1>2, <1>3, <1>4, <1>5 DEF SupNext

\* Every variable keeps its type.
THEOREM SupTypeCorrect == SupSpec => []SupTypeOK
<1>1. SupInit => SupTypeOK
  BY SupTypeInit
<1>2. SupTypeOK /\ [SupNext]_supVars => SupTypeOK'
  BY SupTypeStep
<1> QED
  BY <1>1, <1>2, PTL DEF SupSpec

-----------------------------------------------------------------------------
(* The inductive invariant *)

\* The table holds generations already started, each with the target it is for.
Generations ==
    \A n \in Names : /\ groups[n] <= gen[n]
                     /\ groups[n] # 0 => gtarget[Current(n)] # None

\* Only a caller that is waiting has groups to wait for.
IdleFree == \A c \in Callers : spc[c] = "idle" => drain[c] = {}

\* A Shutdown under way has closed the supervisor.
ShutdownCloses == \A c \in Callers : spc[c] \in {"stopping", "stopped"} => closed

SupInv ==
    /\ SupTypeOK
    /\ Generations /\ IdleFree /\ ShutdownCloses
    /\ RunningIsInTable /\ CancelledIsAwaited /\ NothingAfterShutdown

\* Reconcile takes out of the table exactly the groups it cancels and waits for, and
\* puts in exactly those it starts.
LEMMA ReconcileStep ==
    ASSUME SupInv, SupTypeOK', NEW c \in Callers,
           NEW want \in [Names -> Targets \cup {None}], Reconcile(c, want)
    PROVE  SupInv'
<1> DEFINE new == {<<n, gen[n] + 1>> : n \in Missing(want)}
           old == {Current(n) : n \in Outdated(want)}
<1>1. /\ groups \in [Names -> 0..MaxGen] /\ gen \in [Names -> 0..MaxGen]
      /\ spc \in [Callers -> {"idle", "draining", "stopping", "stopped"}]
      /\ drain \in [Callers -> SUBSET Group]
  BY DEF SupInv, SupTypeOK
<1>2. /\ spc[c] = "idle" /\ ~closed /\ closed' = closed
      /\ gstate' = States(old, new) /\ drain' = [drain EXCEPT ![c] = old]
      /\ gtarget' = [g \in Group |-> IF g \in new THEN want[g[1]] ELSE gtarget[g]]
      /\ spc' = [spc EXCEPT ![c] = "draining"]
  BY DEF Reconcile
<1>3. ASSUME NEW n \in Names
      PROVE  \/ n \in Missing(want) /\ groups'[n] = gen[n] + 1 /\ gen'[n] = gen[n] + 1
             \/ n \notin Missing(want) /\ groups'[n] = 0 /\ gen'[n] = gen[n]
             \/ /\ n \notin Missing(want) /\ n \notin Outdated(want)
                /\ groups'[n] = groups[n] /\ gen'[n] = gen[n]
  <2>1. groups'[n] = CASE n \in Missing(want) -> gen[n] + 1
                       [] want[n] = None -> 0
                       [] OTHER -> groups[n]
    BY DEF Reconcile
  <2>2. gen'[n] = IF n \in Missing(want) THEN gen[n] + 1 ELSE gen[n]
    BY DEF Reconcile
  <2>3. /\ n \in Missing(want) => want[n] # None
        /\ n \notin Missing(want) /\ want[n] # None => n \notin Outdated(want)
    BY DEF Missing
  <2>4. CASE n \in Missing(want)
    BY <2>1, <2>2, <2>3, <2>4
  <2>5. CASE n \notin Missing(want) /\ want[n] = None
    BY <2>1, <2>2, <2>5
  <2>6. CASE n \notin Missing(want) /\ want[n] # None
    BY <2>1, <2>2, <2>3, <2>6
  <2> QED
    BY <2>4, <2>5, <2>6
<1>4. ASSUME NEW n \in Names, groups[n] # 0, n \notin Outdated(want)
      PROVE  /\ groups'[n] = groups[n] /\ n \notin Missing(want)
             /\ want[n] # None
  <2>1. gtarget[Current(n)] # None
    BY <1>4 DEF SupInv, Generations
  <2>2. want[n] = gtarget[Current(n)]
    BY <1>4 DEF Outdated
  <2>3. n \notin Missing(want)
    BY <1>4 DEF Missing
  <2> QED
    BY <2>1, <2>2, <2>3 DEF Reconcile
<1>5. Generations'
  <2> SUFFICES ASSUME NEW n \in Names
               PROVE  /\ groups'[n] <= gen'[n]
                      /\ groups'[n] # 0 => gtarget'[<<n, groups'[n]>>] # None
    BY DEF Generations, Current
  <2>1. groups[n] <= gen[n] /\ (groups[n] # 0 => gtarget[<<n, groups[n]>>] # None)
    BY DEF SupInv, Generations, Current
  <2>2. groups'[n] <= gen'[n]
    BY <1>1, <1>3, <2>1
  <2>3. ASSUME groups'[n] # 0 PROVE gtarget'[<<n, groups'[n]>>] # None
    <3>1. <<n, groups'[n]>> \in Group
      <4>1. groups'[n] \in 0..MaxGen
        BY DEF SupTypeOK
      <4> QED
        BY <2>3, <4>1, MaxGenAssumption DEF Group
    <3>2. CASE n \in Missing(want)
      <4>1. <<n, groups'[n]>> \in new /\ want[n] # None
        BY <1>1, <1>3, <3>2 DEF Missing
      <4> QED
        BY <1>2, <3>1, <4>1
    <3>3. CASE n \notin Missing(want)
      <4>1. groups'[n] = groups[n]
        BY <1>3, <2>3, <3>3
      <4>2. <<n, groups[n]>> \notin new
        BY <1>1, <2>1
      <4> QED
        BY <1>2, <2>1, <2>3, <3>1, <4>1, <4>2
    <3> QED
      BY <3>2, <3>3
  <2> QED
    BY <2>2, <2>3
<1>6. IdleFree' /\ ShutdownCloses'
  BY <1>1, <1>2 DEF SupInv, IdleFree, ShutdownCloses
<1>7. RunningIsInTable'
  <2> SUFFICES ASSUME NEW g \in Group, gstate'[g] = "running" PROVE g \in InTable'
    BY DEF RunningIsInTable
  <2>1. g \in new \/ (g \notin old /\ gstate[g] = "running")
    BY <1>2 DEF States
  <2>2. CASE g \in new
    <3>1. PICK n \in Missing(want) : g = <<n, gen[n] + 1>>
      BY <2>2
    <3>2. n \in Names /\ groups'[n] = gen[n] + 1 /\ groups'[n] # 0
      BY <1>1, <1>3, <3>1 DEF Missing
    <3> QED
      BY <3>1, <3>2 DEF InTable, Current
  <2>3. CASE g \notin old /\ gstate[g] = "running"
    <3>1. PICK n \in Names : groups[n] # 0 /\ g = Current(n)
      BY <2>3 DEF SupInv, RunningIsInTable, InTable
    <3>2. n \notin Outdated(want)
      BY <2>3, <3>1
    <3>3. groups'[n] = groups[n]
      BY <1>4, <3>1, <3>2
    <3> QED
      BY <3>1, <3>3 DEF InTable, Current
  <2> QED
    BY <2>1, <2>2, <2>3
<1>8. CancelledIsAwaited'
  <2> SUFFICES ASSUME NEW g \in Group, gstate'[g] = "cancelled"
               PROVE  \E k \in Callers : g \in drain'[k]
    BY DEF CancelledIsAwaited
  <2>1. g \in old \/ gstate[g] = "cancelled"
    BY <1>2 DEF States
  <2>2. drain'[c] = old /\ \A k \in Callers \ {c} : drain'[k] = drain[k]
    BY <1>1, <1>2
  <2>3. drain[c] = {}
    BY <1>2 DEF SupInv, IdleFree
  <2>4. gstate[g] = "cancelled" => \E k \in Callers : g \in drain[k]
    BY DEF SupInv, CancelledIsAwaited
  <2> QED
    BY <2>1, <2>2, <2>3, <2>4
<1>9. NothingAfterShutdown'
  <2>1. \A k \in Callers : spc[k] \notin {"stopping", "stopped"}
    BY <1>2 DEF SupInv, ShutdownCloses
  <2>2. \A k \in Callers : spc'[k] \notin {"stopping", "stopped"}
    BY <1>1, <1>2, <2>1
  <2> QED
    BY <2>2 DEF NothingAfterShutdown
<1> QED
  BY <1>5, <1>6, <1>7, <1>8, <1>9 DEF SupInv

\* A caller returns when the groups it waited for have exited.
LEMMA ReturnedStep ==
    ASSUME SupInv, SupTypeOK', NEW c \in Callers, Reconciled(c) \/ ShutDown(c)
    PROVE  SupInv'
<1>1. /\ spc \in [Callers -> {"idle", "draining", "stopping", "stopped"}]
      /\ drain \in [Callers -> SUBSET Group]
  BY DEF SupInv, SupTypeOK
<1>2. /\ UNCHANGED <<groups, gen, gstate, gtarget, closed>>
      /\ Waited(c) /\ drain'[c] = {}
      /\ \A k \in Callers \ {c} : drain'[k] = drain[k] /\ spc'[k] = spc[k]
      /\ spc'[c] \in {"stopping", "stopped"} => spc[c] \in {"stopping", "stopped"}
  BY <1>1 DEF Reconciled, ShutDown
<1>3. Generations' /\ RunningIsInTable'
  BY <1>2 DEF SupInv, Generations, RunningIsInTable, InTable, Current
<1>4. IdleFree' /\ ShutdownCloses'
  BY <1>2 DEF SupInv, IdleFree, ShutdownCloses
<1>5. CancelledIsAwaited'
  <2>1. \A g \in drain[c] : gstate[g] # "cancelled"
    BY <1>2 DEF Waited
  <2> QED
    BY <1>2, <2>1 DEF SupInv, CancelledIsAwaited
<1>6. NothingAfterShutdown'
  <2>1. \A k \in Callers : spc'[k] \in {"stopping", "stopped"} => spc[k] \in {"stopping", "stopped"}
    BY <1>2
  <2>2. InTable' = InTable
    BY <1>2 DEF InTable, Current
  <2> QED
    BY <1>2, <2>1, <2>2 DEF SupInv, NothingAfterShutdown
<1> QED
  BY <1>3, <1>4, <1>5, <1>6 DEF SupInv

\* Shutdown empties the table and takes every running group with it.
LEMMA ShutdownStep ==
    ASSUME SupInv, SupTypeOK', NEW c \in Callers, Shutdown(c) PROVE SupInv'
<1>1. /\ groups \in [Names -> 0..MaxGen] /\ gen \in [Names -> 0..MaxGen]
      /\ spc \in [Callers -> {"idle", "draining", "stopping", "stopped"}]
      /\ drain \in [Callers -> SUBSET Group]
  BY DEF SupInv, SupTypeOK
<1>2. /\ spc[c] = "idle" /\ closed' = TRUE /\ groups' = [n \in Names |-> 0]
      /\ gstate' = States(InTable, {}) /\ drain' = [drain EXCEPT ![c] = InTable]
      /\ spc' = [spc EXCEPT ![c] = "stopping"] /\ UNCHANGED <<gen, gtarget>>
  BY DEF Shutdown
<1>3. Generations'
  BY <1>1, <1>2 DEF Generations
<1>4. IdleFree' /\ ShutdownCloses'
  BY <1>1, <1>2 DEF SupInv, IdleFree, ShutdownCloses
<1>5. \A g \in Group : gstate'[g] # "running"
  BY <1>2 DEF States, SupInv, RunningIsInTable
<1>6. InTable' = {}
  BY <1>2 DEF InTable
<1>7. RunningIsInTable' /\ NothingAfterShutdown'
  BY <1>5, <1>6 DEF RunningIsInTable, NothingAfterShutdown
<1>8. CancelledIsAwaited'
  <2> SUFFICES ASSUME NEW g \in Group, gstate'[g] = "cancelled"
               PROVE  \E k \in Callers : g \in drain'[k]
    BY DEF CancelledIsAwaited
  <2>1. g \in InTable \/ gstate[g] = "cancelled"
    BY <1>2 DEF States
  <2>2. drain'[c] = InTable /\ \A k \in Callers \ {c} : drain'[k] = drain[k]
    BY <1>1, <1>2
  <2>3. drain[c] = {}
    BY <1>2 DEF SupInv, IdleFree
  <2>4. gstate[g] = "cancelled" => \E k \in Callers : g \in drain[k]
    BY DEF SupInv, CancelledIsAwaited
  <2> QED
    BY <2>1, <2>2, <2>3, <2>4
<1> QED
  BY <1>3, <1>4, <1>7, <1>8 DEF SupInv

\* The environment's steps: a group exits, or the parent context is cancelled.
LEMMA OutsideStep ==
    ASSUME SupInv, SupTypeOK', (\E g \in Group : GroupExits(g)) \/ Cancel \/ UNCHANGED supVars
    PROVE  SupInv'
<1>1. UNCHANGED <<groups, gen, gtarget, closed, spc, drain>>
  BY DEF GroupExits, Cancel, supVars
<1>2. \A g \in Group : gstate'[g] \in {gstate[g], "done"}
  <2>1. gstate \in [Group -> {"none", "running", "cancelled", "done"}]
    BY DEF SupInv, SupTypeOK
  <2> QED
    BY <2>1 DEF GroupExits, Cancel, supVars
<1>3. InTable' = InTable
  BY <1>1 DEF InTable, Current
<1>4. Generations' /\ IdleFree' /\ ShutdownCloses'
  BY <1>1 DEF SupInv, Generations, IdleFree, ShutdownCloses, Current
<1>5. RunningIsInTable' /\ CancelledIsAwaited' /\ NothingAfterShutdown'
  BY <1>1, <1>2, <1>3 DEF SupInv, RunningIsInTable, CancelledIsAwaited, NothingAfterShutdown
<1> QED
  BY <1>4, <1>5 DEF SupInv

\* The invariant the theorems below rest on.
THEOREM SupInvariance == SupSpec => []SupInv
<1>1. ASSUME SupInit PROVE SupInv
  <2>1. /\ groups = [n \in Names |-> 0] /\ gen = [n \in Names |-> 0]
        /\ gstate = [g \in Group |-> "none"] /\ spc = [c \in Callers |-> "idle"]
        /\ drain = [c \in Callers |-> {}]
    BY <1>1 DEF SupInit
  <2>2. SupTypeOK
    BY <1>1, SupTypeInit
  <2>3. Generations /\ IdleFree /\ ShutdownCloses
    BY <2>1 DEF Generations, IdleFree, ShutdownCloses
  <2>4. RunningIsInTable /\ CancelledIsAwaited /\ NothingAfterShutdown
    BY <2>1 DEF RunningIsInTable, CancelledIsAwaited, NothingAfterShutdown
  <2> QED
    BY <2>2, <2>3, <2>4 DEF SupInv
<1>2. SupInv /\ [SupNext]_supVars => SupInv'
  <2> SUFFICES ASSUME SupInv, [SupNext]_supVars PROVE SupInv'
    OBVIOUS
  <2>1. SupTypeOK'
    BY SupTypeStep DEF SupInv
  <2>2. ASSUME NEW c \in Callers,
               \/ \E want \in [Names -> Targets \cup {None}] : Reconcile(c, want)
               \/ Reconciled(c) \/ Shutdown(c) \/ ShutDown(c)
        PROVE  SupInv'
    BY <2>1, <2>2, ReconcileStep, ReturnedStep, ShutdownStep
  <2> QED
    BY <2>1, <2>2, OutsideStep DEF SupNext
<1> QED
  BY <1>1, <1>2, PTL DEF SupSpec

\* No running group is ever lost from the table, so none escapes a later Reconcile or
\* Shutdown and no server has two (Reconcile, Shutdown).
THEOREM NoGroupIsLost == SupSpec => []RunningIsInTable
<1>1. SupInv => RunningIsInTable
  BY DEF SupInv
<1> QED
  BY <1>1, SupInvariance, PTL

\* Whoever cancels a group waits for it (the drains of Reconcile and Shutdown).
THEOREM CancelledGroupsAwaited == SupSpec => []CancelledIsAwaited
<1>1. SupInv => CancelledIsAwaited
  BY DEF SupInv
<1> QED
  BY <1>1, SupInvariance, PTL

\* A Reconcile that comes during or after a Shutdown starts nothing (closed).
THEOREM ShutdownIsFinal == SupSpec => []NothingAfterShutdown
<1>1. SupInv => NothingAfterShutdown
  BY DEF SupInv
<1> QED
  BY <1>1, SupInvariance, PTL

-----------------------------------------------------------------------------
(* What a step may do to a group *)

\* The groups that were ever started are the generations so far of each name.
Started == \A g \in Group : gstate[g] # "none" <=> g[2] <= gen[g[1]]

After ==
    [none |-> {"none", "running"}, running |-> {"running", "cancelled", "done"},
     cancelled |-> {"cancelled", "done"}, done |-> {"done"}]

\* A group runs once, for one target, and none is started once the supervisor is closed.
GroupEvolves(g) ==
    /\ gstate'[g] \in After[gstate[g]]
    /\ gstate[g] # "none" => gtarget'[g] = gtarget[g]
    /\ closed /\ gstate[g] = "none" => gstate'[g] = "none"

\* Cancelling and starting move a group on.
LEMMA StatesEvolve ==
    ASSUME SupInv, NEW g \in Group, NEW old, NEW new, gstate' = States(old, new),
           g \in new => gstate[g] = "none"
    PROVE  /\ gstate'[g] \in After[gstate[g]]
           /\ g \in new => gstate'[g] = "running"
           /\ g \notin new => (gstate'[g] = "none" <=> gstate[g] = "none")
<1>1. gstate[g] \in GState
  BY DEF SupInv, SupTypeOK, GState
<1>2. gstate'[g] = CASE g \in new -> "running"
                     [] g \in old /\ gstate[g] = "running" -> "cancelled"
                     [] OTHER -> gstate[g]
  BY DEF States
<1> QED
  BY <1>1, <1>2 DEF After, GState

\* Every step starts only groups of a new generation and moves the others on.
LEMMA GroupStep ==
    ASSUME SupInv, Started, [SupNext]_supVars
    PROVE  Started' /\ \A g \in Group : GroupEvolves(g)
<1>1. /\ gen \in [Names -> 0..MaxGen] /\ gtarget \in [Group -> Targets \cup {None}]
      /\ gstate \in [Group -> GState]
  BY DEF SupInv, SupTypeOK, GState
<1>2. ASSUME NEW c \in Callers, NEW want \in [Names -> Targets \cup {None}], Reconcile(c, want)
      PROVE  Started' /\ \A g \in Group : GroupEvolves(g)
  <2> DEFINE new == {<<n, gen[n] + 1>> : n \in Missing(want)}
             old == {Current(n) : n \in Outdated(want)}
  <2>1. /\ ~closed /\ gstate' = States(old, new)
        /\ gen' = [n \in Names |-> IF n \in Missing(want) THEN gen[n] + 1 ELSE gen[n]]
        /\ gtarget' = [g \in Group |-> IF g \in new THEN want[g[1]] ELSE gtarget[g]]
    BY <1>2 DEF Reconcile
  <2> SUFFICES ASSUME NEW g \in Group
               PROVE  (gstate'[g] # "none" <=> g[2] <= gen'[g[1]]) /\ GroupEvolves(g)
    BY DEF Started
  <2>2. g[1] \in Names /\ g[2] \in 1..MaxGen /\ g = <<g[1], g[2]>> /\ gen[g[1]] \in 0..MaxGen
    BY <1>1 DEF Group
  <2>3. g \in new <=> g[1] \in Missing(want) /\ g[2] = gen[g[1]] + 1
    BY <2>2
  <2> HIDE DEF new, old
  <2>4. g \in new => gstate[g] = "none"
    BY <2>2, <2>3, MaxGenAssumption DEF Started
  <2>5. /\ gstate'[g] \in After[gstate[g]]
        /\ g \in new => gstate'[g] = "running"
        /\ g \notin new => (gstate'[g] = "none" <=> gstate[g] = "none")
    BY <2>1, <2>4, StatesEvolve
  <2>6. gstate'[g] # "none" <=> g[2] <= gen'[g[1]]
    <3>1. CASE g \in new
      BY <2>1, <2>2, <2>3, <2>5, <3>1, MaxGenAssumption
    <3>2. CASE g \notin new
      <4>1. gstate[g] # "none" <=> g[2] <= gen[g[1]]
        BY DEF Started
      <4>2. g[1] \notin Missing(want) \/ g[2] # gen[g[1]] + 1
        BY <2>3, <3>2
      <4>3. gen'[g[1]] = IF g[1] \in Missing(want) THEN gen[g[1]] + 1 ELSE gen[g[1]]
        BY <2>1, <2>2
      <4> QED
        BY <2>2, <2>5, <3>2, <4>1, <4>2, <4>3, MaxGenAssumption
    <3> QED
      BY <3>1, <3>2
  <2>7. gstate[g] # "none" => gtarget'[g] = gtarget[g]
    BY <2>1, <2>4
  <2> QED
    BY <2>1, <2>5, <2>6, <2>7 DEF GroupEvolves
<1>3. ASSUME NEW c \in Callers, Shutdown(c)
      PROVE  Started' /\ \A g \in Group : GroupEvolves(g)
  <2>1. gstate' = States(InTable, {}) /\ UNCHANGED <<gen, gtarget>>
    BY <1>3 DEF Shutdown
  <2>2. ASSUME NEW g \in Group
        PROVE  gstate'[g] \in After[gstate[g]] /\ (gstate'[g] = "none" <=> gstate[g] = "none")
    BY <2>1, StatesEvolve
  <2> QED
    BY <2>1, <2>2 DEF Started, GroupEvolves
<1>4. ASSUME NEW k \in Group, GroupExits(k)
      PROVE  Started' /\ \A g \in Group : GroupEvolves(g)
  BY <1>1, <1>4 DEF GroupExits, Started, GroupEvolves, After, GState
<1>5. ASSUME UNCHANGED <<gen, gstate, gtarget>>
      PROVE  Started' /\ \A g \in Group : GroupEvolves(g)
  BY <1>1, <1>5 DEF Started, GroupEvolves, After, GState
<1>6. ASSUME (\E c \in Callers : Reconciled(c) \/ ShutDown(c)) \/ Cancel \/ UNCHANGED supVars
      PROVE  UNCHANGED <<gen, gstate, gtarget>>
  BY <1>6 DEF Reconciled, ShutDown, Cancel, supVars
<1> QED
  BY <1>2, <1>3, <1>4, <1>5, <1>6 DEF SupNext

\* A group runs once and for one target: no step starts it again, points it at another
\* server, or starts one after a Shutdown (Reconcile, watcherGroup, closed).
THEOREM GroupsRunOnce == SupSpec => [][\A g \in Group : GroupEvolves(g)]_supVars
<1>1. SupInit => Started
  BY MaxGenAssumption DEF SupInit, Started, Group
<1>2. SupInv /\ Started /\ [SupNext]_supVars => Started' /\ [\A g \in Group : GroupEvolves(g)]_supVars
  BY GroupStep
<1> QED
  BY <1>1, <1>2, SupInvariance, PTL DEF SupSpec

=============================================================================
