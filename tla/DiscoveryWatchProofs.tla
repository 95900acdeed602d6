--------------------------- MODULE DiscoveryWatchProofs ---------------------------
(***************************************************************************)
(* Proofs about DiscoveryWatch, for any servers, targets, contents of the  *)
(* source, selection and watch modes.                                      *)
(***************************************************************************)
EXTENDS DiscoveryWatch, SupervisorProofs

-----------------------------------------------------------------------------
(* What a read of the source gives *)

Wants == [Names -> Targets \cup {None}]

\* Every version is a content, and so is what may be read of it half-written.
LEMMA Contents == Versions \cup {NoServers} \subseteq Content /\ \A v : Partial(v) \subseteq Content
  BY VersionsAssumption DEF NoServers, Content, Partial

\* The selector and the entries without a host leave only targets.
LEMMA ResolveType ==
    ASSUME NEW v \in Content PROVE ResolveTargets(v) \in Wants
<1>1. \A n \in Names : LoadDiscoveredServers(v)[n] \in Targets \cup {None}
  BY DEF LoadDiscoveredServers, Content
<1> QED
  BY <1>1 DEF ResolveTargets, Wants

\* A server that is wanted after a read is selected and has a target in what was read.
LEMMA ResolveListed ==
    ASSUME NEW v \in Content, NEW n \in Names, ResolveTargets(v)[n] # None
    PROVE  Selected(n) /\ v[n] \in Targets /\ v[n] = ResolveTargets(v)[n]
<1>1. Selected(n) /\ ResolveTargets(v)[n] = LoadDiscoveredServers(v)[n]
  BY DEF ResolveTargets
<1>2. LoadDiscoveredServers(v)[n] = v[n] /\ v[n] # NoHost
  BY <1>1 DEF LoadDiscoveredServers
<1> QED
  BY <1>1, <1>2 DEF Content

-----------------------------------------------------------------------------
(* Every step of the watch loop is a step of the supervisor, or none *)

\* Every step of the composition is one of the supervisor or leaves it alone.
LEMMA StepIsSupStep ==
    ASSUME TypeOK, [Next]_vars PROVE [SupNext]_supVars
<1>1. snap \in Wants
  BY DEF TypeOK, Wants
<1>2. ASSUME Apply PROVE SupNext
  BY <1>1, <1>2, WatcherAssumption DEF Apply, SupNext, Wants
<1>3. ASSUME Applied \/ Stop \/ Stopped PROVE SupNext
  BY <1>3, WatcherAssumption DEF Applied, Stop, Stopped, SupNext
<1>4. ASSUME Outside PROVE SupNext
  BY <1>4 DEF Outside, SupNext
<1>5. ASSUME Writer PROVE UNCHANGED supVars
  BY <1>5 DEF Writer, Rename, BeginWrite, WriteOn, EndWrite, Hold
<1>6. ASSUME Read \/ AddWatch \/ TakeEvent \/ Fire \/ Tick \/ Handlers PROVE UNCHANGED supVars
  BY <1>6 DEF Read, AddWatch, TakeEvent, Fire, Tick, Handlers, Block, Unblock
<1>7. ASSUME UNCHANGED vars PROVE UNCHANGED supVars
  BY <1>7 DEF vars
<1> QED
  BY <1>2, <1>3, <1>4, <1>5, <1>6, <1>7 DEF Next, WatchLoop

-----------------------------------------------------------------------------
(* Type correctness *)

\* The part of the state that is not the supervisor's.
LoopTypes ==
    /\ file \in Content \cup {Torn}
    /\ writing \in Versions \cup {NotWriting}
    /\ writes \in 0..MaxWrites
    /\ mode \in {"off", "poll", "fsnotify"}
    /\ watching \in BOOLEAN /\ event \in BOOLEAN /\ timer \in BOOLEAN
    /\ wpc \in {"reading", "applying", "draining", "adding", "loop", "stopping", "stopped"}
    /\ snap \in [Names -> Targets \cup {None}]
    /\ blocked \subseteq Group /\ blocks \in 0..MaxBlocks
    /\ inplace \subseteq written /\ written \subseteq Versions
    /\ listed \in [Names -> SUBSET (Targets \cup {None})]
    /\ missed \in BOOLEAN

\* Every step of a writer puts a content in place, or one that does not parse.
LEMMA WriterHolds ==
    ASSUME LoopTypes, Writer
    PROVE  /\ \E f \in Content \cup {Torn} : Hold(f)
           /\ writes' \in 0..MaxWrites /\ writing' \in Versions \cup {NotWriting}
           /\ inplace' \subseteq written' /\ written' \subseteq Versions
           /\ written \subseteq written' /\ inplace \subseteq inplace'
<1>1. Versions \subseteq Content /\ \A v : Partial(v) \subseteq Content
  BY Contents
<1>2. ASSUME NEW v \in Versions \cup {Torn}, Rename(v)
      PROVE  /\ Hold(v) /\ v \in Content \cup {Torn}
             /\ writes' \in 0..MaxWrites /\ UNCHANGED <<writing, inplace>>
             /\ written \subseteq written' /\ written' \subseteq Versions
  BY <1>1, <1>2, LoopAssumption DEF Rename, LoopTypes
<1>3. ASSUME NEW v \in Versions, BeginWrite(v)
      PROVE  /\ \E f \in Content \cup {Torn} : Hold(f)
             /\ writes' \in 0..MaxWrites /\ writing' \in Versions
             /\ written' = written \cup {v} /\ inplace' = inplace \cup {v}
  BY <1>1, <1>3, LoopAssumption DEF BeginWrite, LoopTypes
<1>4. ASSUME WriteOn
      PROVE  /\ \E f \in Content \cup {Torn} : Hold(f)
             /\ writes' \in 0..MaxWrites /\ UNCHANGED <<writing, written, inplace>>
  BY <1>1, <1>4, LoopAssumption DEF WriteOn, LoopTypes
<1>5. ASSUME EndWrite
      PROVE  /\ Hold(writing) /\ writing \in Content \cup {Torn}
             /\ writing' = NotWriting /\ UNCHANGED <<writes, written, inplace>>
  BY <1>1, <1>5 DEF EndWrite, LoopTypes
<1> QED
  BY <1>2, <1>3, <1>4, <1>5 DEF Writer, LoopTypes

\* Every step keeps the types of the watch loop.
LEMMA LoopTypesStep ==
    ASSUME LoopTypes, [Next]_vars PROVE LoopTypes'
<1>1. ASSUME Writer PROVE LoopTypes'
  <2>1. PICK f \in Content \cup {Torn} : Hold(f)
    BY <1>1, WriterHolds
  <2>2. file' \in Content \cup {Torn} /\ event' \in BOOLEAN /\ missed' \in BOOLEAN
        /\ UNCHANGED <<mode, watching, timer, wpc, snap, blocked, blocks>>
    BY <2>1 DEF Hold, LoopTypes, groupVars
  <2>3. listed' \in [Names -> SUBSET (Targets \cup {None})]
    <3>1. ASSUME f # Torn PROVE \A n \in Names : ResolveTargets(f)[n] \in Targets \cup {None}
      BY <3>1, ResolveType DEF Wants
    <3> QED
      BY <2>1, <3>1 DEF Hold, LoopTypes
  <2> QED
    BY <1>1, <2>2, <2>3, WriterHolds DEF LoopTypes
<1>2. ASSUME Handlers PROVE LoopTypes'
  BY <1>2, BlocksAssumption DEF Handlers, Block, Unblock, fileVars, loopVars, LoopTypes
<1>3. ASSUME Read PROVE LoopTypes'
  BY <1>3, ResolveType DEF Read, Resume, fileVars, groupVars, LoopTypes, Wants
<1>4. ASSUME Apply \/ Applied \/ Stop \/ Stopped PROVE LoopTypes'
  BY <1>4 DEF Apply, Applied, Stop, Stopped, Resume, fileVars, groupVars, LoopTypes
<1>5. ASSUME AddWatch \/ TakeEvent \/ Fire \/ Tick PROVE LoopTypes'
  BY <1>5 DEF AddWatch, TakeEvent, Fire, Tick, fileVars, groupVars, LoopTypes
<1>6. ASSUME Outside \/ UNCHANGED vars PROVE LoopTypes'
  BY <1>6 DEF Outside, vars, fileVars, loopVars, groupVars, LoopTypes
<1> QED
  BY <1>1, <1>2, <1>3, <1>4, <1>5, <1>6 DEF Next, WatchLoop

\* The types of the composition are those of its two parts.
LEMMA TypeParts == TypeOK <=> SupTypeOK /\ LoopTypes
  BY DEF TypeOK, LoopTypes

\* Every variable of the watch loop and of the supervisor it drives keeps its type.
THEOREM TypeCorrect == Spec => []TypeOK
<1>1. ASSUME Init PROVE TypeOK
  <2>1. SupTypeOK
    BY <1>1, SupTypeInit DEF Init
  <2>2. file \in Content /\ file # Torn
    BY <1>1, Contents, TornAssumption DEF Init, Content
  <2>3. LoopTypes
    <3>1. watching = FALSE /\ event = FALSE /\ timer = FALSE /\ missed = FALSE
      BY <1>1 DEF Init
    <3>2. /\ file \in Versions /\ written = {file} /\ inplace = {} /\ writing = NotWriting
          /\ wpc = "reading" /\ blocked = {} /\ blocks = 0
      BY <1>1 DEF Init
    <3>3. mode \in {"off", "poll", "fsnotify"} /\ writes \in 0..MaxWrites /\ blocks \in 0..MaxBlocks
      BY <1>1, LoopAssumption, BlocksAssumption DEF Init
    <3>4. snap \in [Names -> Targets \cup {None}]
      BY <1>1 DEF Init, NoServers
    <3>5. listed \in [Names -> SUBSET (Targets \cup {None})]
      BY <1>1, <2>2, ResolveType DEF Init, Wants
    <3> QED
      BY <2>2, <3>1, <3>2, <3>3, <3>4, <3>5 DEF LoopTypes
  <2> QED
    BY <2>1, <2>3, TypeParts
<1>2. TypeOK /\ [Next]_vars => TypeOK'
  <2> SUFFICES ASSUME TypeOK, [Next]_vars PROVE TypeOK'
    OBVIOUS
  <2>1. SupTypeOK'
    BY StepIsSupStep, SupTypeStep DEF TypeOK
  <2>2. LoopTypes'
    BY LoopTypesStep, TypeParts
  <2> QED
    BY <2>1, <2>2 DEF TypeOK, LoopTypes
<1> QED
  BY <1>1, <1>2, PTL DEF Spec

\* The watch loop uses the supervisor as its specification allows, so that what is
\* proved of the supervisor holds under it.
THEOREM DrivesSupervisor == Spec => SupSpec
<1>1. Init => SupInit
  BY DEF Init
<1>2. TypeOK /\ [Next]_vars => [SupNext]_supVars
  BY StepIsSupStep
<1> QED
  BY <1>1, <1>2, TypeCorrect, PTL DEF Spec, SupSpec

-----------------------------------------------------------------------------
(* Where targets come from *)

\* Some version gives the server n the target t, in full or cut short in its own write.
Given(n, t) == \E v \in written : Gives(v, n, t)

\* What the source holds, a half-written version as well, and what waits to be applied come
\* from versions it was given; a write in place is of one of those.
FromSource ==
    /\ file # Torn => \A n \in Names : file[n] \in Targets => Given(n, file[n])
    /\ writing # NotWriting => writing \in inplace
    /\ wpc = "applying" => \A n \in Names : snap[n] # None => Selected(n) /\ Given(n, snap[n])

GroupsListed ==
    \A n \in Names : groups[n] # 0 => Selected(n) /\ Given(n, Watched[n])

\* What is brokered for, or waits to be applied, is a way the server was listed.
Known ==
    \A n \in Names :
        /\ listed[n] # {}
        /\ file # Torn => ResolveTargets(file)[n] \in listed[n]
        /\ wpc = "applying" => snap[n] \in listed[n]
        /\ groups[n] # 0 => Watched[n] \in listed[n]

DInv == TypeOK /\ FromSource /\ GroupsListed /\ Known /\ ErrorsKeepServers

\* Every step of a writer keeps what the source holds one of its versions.
LEMMA WriterGives ==
    ASSUME TypeOK, FromSource, Writer
    PROVE  /\ \E f \in Content \cup {Torn} :
                 Hold(f) /\ (f # Torn => \A n \in Names : f[n] \in Targets => Given(n, f[n])')
           /\ writing' # NotWriting => writing' \in inplace'
<1> USE DEF Given
<1>1. Versions \subseteq Content /\ \A v : Partial(v) \subseteq Content
  BY Contents
<1>2. ASSUME NEW v \in Versions \cup {Torn}, Rename(v)
      PROVE  /\ Hold(v) /\ v \in Content \cup {Torn}
             /\ v # Torn => \A n \in Names : v[n] \in Targets => Given(n, v[n])'
             /\ writing' = NotWriting
  BY <1>1, <1>2 DEF Rename, Gives
<1>3. ASSUME NEW v \in Versions, NEW p \in Partial(v) \cup {Torn}, v \in written', v \in inplace',
             NEW n \in Names, p # Torn, p[n] \in Targets
      PROVE  Given(n, p[n])'
  <2>1. p[n] \in {v[n], None} \/ p[n] \in CutOf(v[n])
    BY <1>3 DEF Partial, Whole
  <2>2. v[n] \in Targets \cup {None, NoHost} /\ p[n] # None /\ p[n] # NoHost
    BY <1>3, VersionsAssumption, NoneNotTarget, HostAssumption
  <2>3. v[n] \in Targets /\ (p[n] = v[n] \/ p[n] \in Cut[v[n]])
    BY <1>3, <2>1, <2>2 DEF CutOf
  <2> QED
    BY <1>3, <2>3 DEF Gives
<1>4. ASSUME NEW v \in Versions, BeginWrite(v)
      PROVE  /\ \E f \in Content \cup {Torn} :
                   Hold(f) /\ (f # Torn => \A n \in Names : f[n] \in Targets => Given(n, f[n])')
             /\ writing' \in inplace'
  <2>1. PICK p \in Partial(v) \cup {Torn} : Hold(p)
    BY <1>4 DEF BeginWrite
  <2>2. v \in written' /\ v \in inplace' /\ writing' = v
    BY <1>4 DEF BeginWrite
  <2> QED
    BY <1>1, <1>3, <2>1, <2>2
<1>5. ASSUME WriteOn
      PROVE  /\ \E f \in Content \cup {Torn} :
                   Hold(f) /\ (f # Torn => \A n \in Names : f[n] \in Targets => Given(n, f[n])')
             /\ writing' \in inplace'
  <2>1. PICK p \in Partial(writing) \cup {Torn} : Hold(p)
    BY <1>5 DEF WriteOn
  <2>2. /\ writing \in Versions /\ writing \in written' /\ writing \in inplace'
        /\ writing' = writing
    BY <1>5 DEF WriteOn, FromSource, TypeOK
  <2> QED
    BY <1>1, <1>3, <2>1, <2>2
<1>6. ASSUME NEW v \in Versions, v = writing, EndWrite
      PROVE  /\ Hold(v) /\ v \in Content
             /\ \A n \in Names : v[n] \in Targets => Given(n, v[n])'
             /\ writing' = NotWriting
  <2>1. v \in written' /\ v \in inplace'
    BY <1>6, VersionsAssumption DEF EndWrite, FromSource, TypeOK
  <2> QED
    BY <1>1, <1>6, <2>1 DEF EndWrite, Gives
<1>7. EndWrite => writing \in Versions
  BY DEF EndWrite, TypeOK
<1> QED
  BY <1>2, <1>4, <1>5, <1>6, <1>7 DEF Writer

\* No step takes back what the source was given or has listed.
LEMMA HistoryGrows ==
    ASSUME TypeOK, [Next]_vars
    PROVE  /\ written \subseteq written' /\ inplace \subseteq inplace'
           /\ \A n \in Names : listed[n] \subseteq listed'[n]
<1>1. ASSUME Writer PROVE /\ written \subseteq written' /\ inplace \subseteq inplace'
                          /\ \A n \in Names : listed[n] \subseteq listed'[n]
  <2>1. PICK f \in Content \cup {Torn} : Hold(f)
    BY <1>1, WriterHolds, TypeParts
  <2> QED
    BY <1>1, <2>1, WriterHolds, TypeParts DEF Hold
<1>2. ASSUME ~Writer PROVE UNCHANGED fileVars
  BY <1>2 DEF Next, WatchLoop, Read, Apply, Applied, AddWatch, TakeEvent, Fire, Tick, Stop,
              Stopped, Outside, Handlers, Block, Unblock, vars, fileVars
<1> QED
  BY <1>1, <1>2 DEF fileVars

\* What was given stays given.
LEMMA GivenStays ==
    ASSUME TypeOK, [Next]_vars, NEW n \in Names, NEW t, Given(n, t) PROVE Given(n, t)'
  BY HistoryGrows DEF Given, Gives

\* Every step keeps what was read a version of the source.
LEMMA FromSourceStep ==
    ASSUME TypeOK, FromSource, [Next]_vars PROVE FromSource'
<1>1. ASSUME Writer PROVE FromSource'
  <2>1. PICK f \in Content \cup {Torn} :
          Hold(f) /\ (f # Torn => \A n \in Names : f[n] \in Targets => Given(n, f[n])')
    BY <1>1, WriterGives
  <2>2. UNCHANGED <<wpc, snap>> /\ file' = f
    BY <2>1 DEF Hold
  <2>3. wpc' = "applying" => \A n \in Names : snap'[n] # None => Selected(n) /\ Given(n, snap[n])'
    BY <2>2, GivenStays DEF FromSource
  <2> QED
    BY <1>1, <2>1, <2>2, <2>3, WriterGives DEF FromSource, Given, Gives
<1>2. ASSUME Read PROVE FromSource'
  <2>1. UNCHANGED fileVars
    BY <1>2 DEF Read
  <2>2. ASSUME file # Torn, NEW n \in Names, ResolveTargets(file)[n] # None
        PROVE  Selected(n) /\ Given(n, ResolveTargets(file)[n])
    BY <2>2, ResolveListed DEF FromSource, TypeOK
  <2>3. wpc' = "applying" => file # Torn /\ snap' = ResolveTargets(file)
    BY <1>2 DEF Read, Resume
  <2> QED
    BY <2>1, <2>2, <2>3 DEF FromSource, Given, Gives, fileVars
<1>3. ASSUME Apply \/ Applied \/ Stop \/ Stopped PROVE FromSource'
  BY <1>3 DEF Apply, Applied, Stop, Stopped, Resume, fileVars, FromSource, Given, Gives
<1>4. ASSUME AddWatch \/ TakeEvent \/ Fire \/ Tick PROVE FromSource'
  BY <1>4 DEF AddWatch, TakeEvent, Fire, Tick, fileVars, FromSource, Given, Gives
<1>5. ASSUME Outside \/ Handlers \/ UNCHANGED vars PROVE FromSource'
  BY <1>5 DEF Outside, Handlers, Block, Unblock, vars, fileVars, loopVars, FromSource, Given, Gives
<1> QED
  BY <1>1, <1>2, <1>3, <1>4, <1>5 DEF Next, WatchLoop

\* What Apply, the one step that starts groups, does to the server n.
LEMMA ApplyServer ==
    ASSUME TypeOK, Apply, NEW n \in Names
    PROVE  \/ /\ n \in Missing(snap) /\ snap[n] # None
              /\ groups'[n] = gen[n] + 1 /\ gen'[n] = gen[n] + 1 /\ Watched'[n] = snap[n]
           \/ /\ n \notin Missing(snap) /\ snap[n] = None
              /\ groups'[n] = 0 /\ gen'[n] = gen[n]
           \/ /\ n \notin Missing(snap) /\ snap[n] # None
              /\ groups'[n] = groups[n] /\ gen'[n] = gen[n] /\ Watched'[n] = Watched[n]
<1> DEFINE new == {<<m, gen[m] + 1>> : m \in Missing(snap)}
<1>1. Reconcile(Watcher, snap)
  BY DEF Apply
<1>2. /\ groups \in [Names -> 0..MaxGen] /\ gen \in [Names -> 0..MaxGen]
      /\ \A m \in Missing(snap) : gen[m] < MaxGen
  BY <1>1 DEF TypeOK, SupTypeOK, Reconcile
<1>3. /\ groups' = [m \in Names |-> CASE m \in Missing(snap) -> gen[m] + 1
                                      [] snap[m] = None -> 0
                                      [] OTHER -> groups[m]]
      /\ gen' = [m \in Names |-> IF m \in Missing(snap) THEN gen[m] + 1 ELSE gen[m]]
      /\ gtarget' = [g \in Group |-> IF g \in new THEN snap[g[1]] ELSE gtarget[g]]
  BY <1>1 DEF Reconcile
<1>4. CASE n \in Missing(snap)
  <2>1. groups'[n] = gen[n] + 1 /\ gen'[n] = gen[n] + 1 /\ snap[n] # None
    BY <1>3, <1>4 DEF Missing
  <2>2. <<n, gen[n] + 1>> \in Group /\ <<n, gen[n] + 1>> \in new
    BY <1>2, <1>4, MaxGenAssumption DEF Group
  <2>3. gtarget'[<<n, gen[n] + 1>>] = snap[n]
    BY <1>3, <2>2
  <2>4. groups'[n] # 0
    BY <1>2, <2>1
  <2>5. Watched'[n] = snap[n]
    BY <2>1, <2>3, <2>4 DEF Watched, Current
  <2> QED
    BY <1>4, <2>1, <2>5
<1>5. CASE n \notin Missing(snap) /\ snap[n] = None
  BY <1>3, <1>5
<1>6. CASE n \notin Missing(snap) /\ snap[n] # None
  <2>1. groups'[n] = groups[n] /\ gen'[n] = gen[n]
    BY <1>3, <1>6
  <2>2. groups[n] # 0
    BY <1>6 DEF Missing
  <2>3. Current(n) \in Group /\ Current(n) \notin new
    BY <1>2, <1>6, <2>2, MaxGenAssumption DEF Group, Current
  <2>4. gtarget'[Current(n)] = gtarget[Current(n)]
    BY <1>3, <2>3
  <2> QED
    BY <1>6, <2>1, <2>2, <2>4 DEF Watched, Current
<1> QED
  BY <1>4, <1>5, <1>6

\* The other steps leave the table as it is, or empty it and close the supervisor.
LEMMA OtherSteps ==
    ASSUME TypeOK, [Next]_vars, ~Apply
    PROVE  \/ UNCHANGED <<groups, gen, gtarget, closed>>
           \/ closed' = TRUE /\ groups' = [n \in Names |-> 0]
<1>1. ASSUME Writer PROVE UNCHANGED supVars
  BY <1>1 DEF Writer, Rename, BeginWrite, WriteOn, EndWrite, Hold
<1>2. ASSUME Read \/ AddWatch \/ TakeEvent \/ Fire \/ Tick \/ Handlers \/ UNCHANGED vars
      PROVE  UNCHANGED supVars
  BY <1>2 DEF Read, AddWatch, TakeEvent, Fire, Tick, Handlers, Block, Unblock, vars
<1>3. ASSUME Applied \/ Stopped \/ Outside
      PROVE  UNCHANGED <<groups, gen, gtarget, closed>>
  BY <1>3 DEF Applied, Reconciled, Stopped, ShutDown, Outside, Cancel, GroupExits
<1>4. ASSUME Stop PROVE closed' = TRUE /\ groups' = [n \in Names |-> 0]
  BY <1>4 DEF Stop, Shutdown
<1> QED
  BY <1>1, <1>2, <1>3, <1>4 DEF Next, WatchLoop, supVars

\* Every step keeps the broker groups to what some version asks for.
LEMMA GroupsListedStep ==
    ASSUME TypeOK, FromSource, GroupsListed, [Next]_vars PROVE GroupsListed'
<1>1. CASE Apply
  <2> SUFFICES ASSUME NEW n \in Names, groups'[n] # 0
               PROVE  Selected(n) /\ Given(n, Watched[n])'
    BY DEF GroupsListed
  <2>1. wpc = "applying" /\ UNCHANGED <<written, inplace>>
    BY <1>1 DEF Apply, fileVars
  <2>2. ASSUME NEW t, Given(n, t), Watched'[n] = t PROVE Given(n, Watched[n])'
    BY <2>1, <2>2 DEF Given, Gives
  <2>3. CASE snap[n] # None /\ Watched'[n] = snap[n]
    BY <2>1, <2>2, <2>3 DEF FromSource
  <2>4. CASE groups'[n] = groups[n] /\ Watched'[n] = Watched[n]
    BY <2>2, <2>4 DEF GroupsListed
  <2> QED
    BY <1>1, <2>3, <2>4, ApplyServer
<1>2. CASE ~Apply
  <2>1. CASE UNCHANGED <<groups, gen, gtarget, closed>>
    <3>1. Watched' = Watched
      BY <2>1 DEF Watched, Current
    <3> QED
      BY <2>1, <3>1, GivenStays DEF GroupsListed
  <2>2. CASE groups' = [n \in Names |-> 0]
    BY <2>2 DEF GroupsListed
  <2> QED
    BY <1>2, <2>1, <2>2, OtherSteps
<1> QED
  BY <1>1, <1>2

\* Every step keeps what is brokered for among the ways the source listed it.
LEMMA KnownStep ==
    ASSUME TypeOK, Known, [Next]_vars PROVE Known'
<1> SUFFICES ASSUME NEW n \in Names
             PROVE  /\ listed'[n] # {}
                    /\ file' # Torn => ResolveTargets(file')[n] \in listed'[n]
                    /\ wpc' = "applying" => snap'[n] \in listed'[n]
                    /\ groups'[n] # 0 => Watched'[n] \in listed'[n]
  BY DEF Known
<1>1. listed[n] \subseteq listed'[n]
  BY HistoryGrows
<1>2. file' # Torn => ResolveTargets(file')[n] \in listed'[n]
  <2>1. ASSUME Writer PROVE file' # Torn => ResolveTargets(file')[n] \in listed'[n]
    <3>1. PICK f \in Content \cup {Torn} : Hold(f)
      BY <2>1, WriterHolds, TypeParts
    <3> QED
      BY <3>1 DEF Hold
  <2>2. ASSUME ~Writer PROVE UNCHANGED file
    BY <2>2 DEF Next, WatchLoop, Read, Apply, Applied, AddWatch, TakeEvent, Fire, Tick, Stop,
                Stopped, Outside, Handlers, Block, Unblock, vars, fileVars
  <2> QED
    BY <1>1, <2>1, <2>2 DEF Known
<1>3. wpc' = "applying" => snap'[n] \in listed'[n]
  <2>1. CASE Read
    BY <1>1, <2>1 DEF Read, Resume, Known
  <2>2. CASE ~Read
    <3>1. wpc' = "applying" => wpc = "applying" /\ snap' = snap
      BY <2>2 DEF Next, WatchLoop, Apply, Applied, AddWatch, TakeEvent, Fire, Tick, Stop, Stopped,
                  Resume, Outside, Handlers, Block, Unblock, Writer, Rename, BeginWrite, WriteOn,
                  EndWrite, Hold, vars, loopVars
    <3> QED
      BY <1>1, <3>1 DEF Known
  <2> QED
    BY <2>1, <2>2
<1>4. groups'[n] # 0 => Watched'[n] \in listed'[n]
  <2>1. CASE Apply
    <3>1. wpc = "applying"
      BY <2>1 DEF Apply
    <3> QED
      BY <1>1, <2>1, <3>1, ApplyServer DEF Known
  <2>2. CASE UNCHANGED <<groups, gen, gtarget, closed>>
    <3>1. Watched' = Watched
      BY <2>2 DEF Watched, Current
    <3> QED
      BY <1>1, <2>2, <3>1 DEF Known
  <2> QED
    BY <2>1, <2>2, OtherSteps
<1> QED
  BY <1>1, <1>2, <1>3, <1>4 DEF Known

\* Every step leaves a server alone that the source has only ever listed alike.
LEMMA KeptStep ==
    ASSUME TypeOK, Known, ErrorsKeepServers, [Next]_vars PROVE ErrorsKeepServers'
<1> SUFFICES ASSUME NEW n \in Names, ~closed', NEW t \in Targets, listed'[n] = {t}
             PROVE  Undisturbed(n)'
  BY DEF ErrorsKeepServers
<1>1. listed[n] = {t}
  BY HistoryGrows DEF Known
<1>2. CASE Apply
  <2>1. closed' = closed /\ wpc = "applying"
    BY <1>2 DEF Apply, Reconcile
  <2>2. Undisturbed(n) /\ snap[n] = t /\ (groups[n] # 0 => Watched[n] = t)
    BY <1>1, <2>1 DEF ErrorsKeepServers, Known
  <2>3. n \in Missing(snap) => groups[n] = 0
    BY <2>2 DEF Missing, Outdated, Watched
  <2>4. gen[n] \in Nat
    BY MaxGenAssumption DEF TypeOK, SupTypeOK
  <2> QED
    BY <1>2, <2>2, <2>3, <2>4, ApplyServer, NoneNotTarget DEF Undisturbed
<1>3. CASE ~Apply
  <2>1. UNCHANGED <<groups, gen, closed>>
    BY <1>3, OtherSteps
  <2> QED
    BY <1>1, <2>1 DEF ErrorsKeepServers, Undisturbed
<1> QED
  BY <1>2, <1>3

\* The invariant the theorems below rest on.
THEOREM DInvariance == Spec => []DInv
<1>1. ASSUME Init, TypeOK PROVE DInv
  <2>1. groups = [n \in Names |-> 0] /\ gen = [n \in Names |-> 0]
    BY <1>1 DEF Init, SupInit
  <2>2. FromSource
    BY <1>1 DEF Init, FromSource, Given, Gives
  <2>3. GroupsListed /\ Known /\ ErrorsKeepServers
    BY <1>1, <2>1 DEF Init, GroupsListed, Known, ErrorsKeepServers, Undisturbed
  <2> QED
    BY <1>1, <2>2, <2>3 DEF DInv
<1>2. TypeOK /\ TypeOK' /\ DInv /\ [Next]_vars => DInv'
  BY FromSourceStep, GroupsListedStep, KnownStep, KeptStep DEF DInv
<1> QED
  BY <1>1, <1>2, TypeCorrect, PTL DEF Spec

\* Every group that is brokered for is of a selected server, and for a target that some
\* version of the source gave it, whole or cut short by a read in the middle of that write
\* (computeDesired, Reconcile).
THEOREM BrokersOnlyListed == Spec => []OnlyListed
<1>1. DInv => OnlyListed
  BY DEF DInv, GroupsListed, Given, OnlyListed
<1> QED
  BY <1>1, DInvariance, PTL

\* A server that the source has listed alike whenever it parsed is started once and runs
\* until the shutdown, whatever else the writes, the errors and the reads overlap in.
THEOREM KeepsListed == Spec => []ErrorsKeepServers
<1>1. DInv => ErrorsKeepServers
  BY DEF DInv
<1> QED
  BY <1>1, DInvariance, PTL

-----------------------------------------------------------------------------
(* No change is forgotten *)

\* The safety core of ConvergesOnceWatched: whenever the fsnotify loop is past a read, the
\* agent brokers for what the source lists, or the source does not parse, or the loop still
\* has an event or the debounce timer ahead of it, or it was told nothing of the change.
NoChangeForgotten ==
    mode = "fsnotify" /\ wpc \notin {"reading", "stopping", "stopped"} =>
        \/ file = Torn \/ event \/ timer \/ missed
        \/ (IF wpc = "applying" THEN snap ELSE Watched) = ResolveTargets(file)

\* After Apply the agent brokers for exactly what was read.
LEMMA ApplyServes ==
    ASSUME TypeOK, Apply PROVE Watched' = snap
<1>1. snap \in Wants
  BY DEF TypeOK, Wants
<1>2. ASSUME NEW n \in Names PROVE Watched'[n] = snap[n]
  <2>1. CASE n \in Missing(snap)
    BY <2>1, ApplyServer
  <2>2. CASE snap[n] = None
    <3>1. groups'[n] = 0 \/ Watched'[n] = snap[n]
      BY <2>2, ApplyServer
    <3> QED
      BY <2>2, <3>1 DEF Watched
  <2>3. CASE n \notin Missing(snap) /\ snap[n] # None
    <3>1. Watched'[n] = Watched[n]
      BY <2>3, ApplyServer
    <3>2. groups[n] # 0 /\ gtarget[Current(n)] = snap[n]
      BY <2>3 DEF Missing, Outdated
    <3> QED
      BY <3>1, <3>2 DEF Watched
  <2> QED
    BY <2>1, <2>2, <2>3
<1>3. Watched' = [n \in Names |-> Watched'[n]] /\ snap = [n \in Names |-> snap[n]]
  BY <1>1 DEF Watched, Wants
<1> QED
  BY <1>2, <1>3

\* Every step keeps a change in view: a write leaves an event or is missed, and what
\* takes the event or the timer away leads to another read.
LEMMA NoChangeForgottenStep ==
    ASSUME TypeOK, NoChangeForgotten, [Next]_vars PROVE NoChangeForgotten'
<1> USE DEF NoChangeForgotten
<1>1. ASSUME Writer PROVE NoChangeForgotten'
  <2>1. PICK f \in Content \cup {Torn} : Hold(f)
    BY <1>1, WriterHolds, TypeParts
  <2>2. UNCHANGED <<mode, wpc, timer>>
        /\ missed' = (mode = "fsnotify" /\ wpc # "reading" /\ ~event' /\ ~timer)
        /\ event' \in BOOLEAN
    BY <2>1 DEF Hold, TypeOK
  <2> QED
    BY <2>2
<1>2. ASSUME Read PROVE NoChangeForgotten'
  BY <1>2 DEF Read, Resume, fileVars
<1>3. ASSUME Apply PROVE NoChangeForgotten'
  BY <1>3, ApplyServes DEF Apply, fileVars
<1>4. ASSUME Applied \/ AddWatch \/ TakeEvent PROVE NoChangeForgotten'
  <2>1. Watched' = Watched
    BY <1>4 DEF Applied, Reconciled, AddWatch, TakeEvent, supVars, Watched, Current
  <2> QED
    BY <1>4, <2>1 DEF Applied, AddWatch, TakeEvent, Resume, fileVars
<1>5. ASSUME Fire \/ Tick \/ Stop \/ Stopped PROVE NoChangeForgotten'
  BY <1>5 DEF Fire, Tick, Stop, Stopped
<1>6. ASSUME Outside \/ Handlers \/ UNCHANGED vars PROVE NoChangeForgotten'
  <2>1. Watched' = Watched
    BY <1>6 DEF Outside, Cancel, GroupExits, Handlers, Block, Unblock, vars, supVars, Watched,
                Current
  <2> QED
    BY <1>6, <2>1 DEF Outside, Handlers, Block, Unblock, vars, fileVars, loopVars
<1> QED
  BY <1>1, <1>2, <1>3, <1>4, <1>5, <1>6 DEF Next, WatchLoop

\* With fsnotify the loop never comes to rest on servers that are not those the source
\* lists while it parses, except after a change before the watch was in place or an event
\* that was lost (runFsnotifyLoop: a debounce that overlaps with a reconcile loses nothing).
THEOREM ChangesAreKept == Spec => []NoChangeForgotten
<1>1. Init => NoChangeForgotten
  BY DEF Init, NoChangeForgotten
<1>2. TypeOK /\ NoChangeForgotten /\ [Next]_vars => NoChangeForgotten'
  BY NoChangeForgottenStep
<1> QED
  BY <1>1, <1>2, TypeCorrect, PTL DEF Spec

-----------------------------------------------------------------------------
(* Shutting down *)

\* Only the watch goroutine calls the supervisor, from where it is in its loop, and it
\* waits for no group once Shutdown has returned.
OneCaller ==
    /\ \A c \in Callers \ {Watcher} : spc[c] = "idle"
    /\ spc[Watcher] = IF wpc \in {"draining", "stopping", "stopped"} THEN wpc ELSE "idle"
    /\ wpc = "stopped" => drain[Watcher] = {}

\* Every step of the loop keeps its place and the supervisor's in step.
LEMMA OneCallerStep ==
    ASSUME TypeOK, OneCaller, [Next]_vars PROVE OneCaller'
<1>1. /\ spc \in [Callers -> {"idle", "draining", "stopping", "stopped"}]
      /\ drain \in [Callers -> SUBSET Group] /\ Watcher \in Callers
  BY WatcherAssumption DEF TypeOK, SupTypeOK
<1>2. ASSUME Writer PROVE OneCaller'
  BY <1>2 DEF Writer, Rename, BeginWrite, WriteOn, EndWrite, Hold, supVars, OneCaller
<1>3. ASSUME Read \/ AddWatch \/ TakeEvent \/ Fire \/ Tick PROVE OneCaller'
  BY <1>3 DEF Read, AddWatch, TakeEvent, Fire, Tick, Resume, supVars, OneCaller
<1>4. ASSUME Apply PROVE OneCaller'
  BY <1>1, <1>4 DEF Apply, Reconcile, OneCaller
<1>5. ASSUME Applied PROVE OneCaller'
  BY <1>1, <1>5 DEF Applied, Reconciled, Resume, OneCaller
<1>6. ASSUME Stop PROVE OneCaller'
  BY <1>1, <1>6 DEF Stop, Shutdown, OneCaller
<1>7. ASSUME Stopped PROVE OneCaller'
  BY <1>1, <1>7 DEF Stopped, ShutDown, OneCaller
<1>8. ASSUME Outside \/ Handlers \/ UNCHANGED vars PROVE OneCaller'
  BY <1>8 DEF Outside, Cancel, GroupExits, Handlers, Block, Unblock, vars, supVars, loopVars, OneCaller
<1> QED
  BY <1>2, <1>3, <1>4, <1>5, <1>6, <1>7, <1>8 DEF Next, WatchLoop

\* The safety half of StopsClean: when main is through with Shutdown, no goroutine of a
\* group is left that has not exited, whatever the loop was doing when the signal came.
THEOREM StopLeavesNothing == Spec => []NothingLeft
<1>1. Init => OneCaller
  BY WatcherAssumption DEF Init, SupInit, OneCaller
<1>2. TypeOK /\ OneCaller /\ [Next]_vars => OneCaller'
  BY OneCallerStep
<1>3. ASSUME TypeOK, OneCaller, SupInv PROVE NothingLeft
  <2> SUFFICES ASSUME wpc = "stopped", NEW g \in Group
               PROVE  gstate[g] \in {"none", "done"}
    BY DEF NothingLeft
  <2>1. gstate[g] \in {"none", "running", "cancelled", "done"} /\ Watcher \in Callers
    BY <1>3, WatcherAssumption DEF TypeOK, SupTypeOK
  <2>2. gstate[g] # "running"
    BY <1>3, <2>1 DEF OneCaller, SupInv, NothingAfterShutdown
  <2>3. \A c \in Callers : drain[c] = {}
    BY <1>3 DEF OneCaller, SupInv, IdleFree
  <2>4. gstate[g] # "cancelled"
    BY <1>3, <2>3 DEF SupInv, CancelledIsAwaited
  <2> QED
    BY <2>1, <2>2, <2>4
<1> QED
  BY <1>1, <1>2, <1>3, TypeCorrect, DrivesSupervisor, SupInvariance, PTL DEF Spec

=============================================================================
