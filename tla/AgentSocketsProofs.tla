---------------------------- MODULE AgentSocketsProofs ----------------------------
(***************************************************************************)
(* Proofs about AgentSockets, for any number of agents and of sockets.     *)
(***************************************************************************)
EXTENDS AgentSockets, TLAPS

-----------------------------------------------------------------------------
(* The invariant *)

PCs == {"idle", "lstat", "probe", "remove", "bind", "listen", "serving", "closed", "refused"}

Types ==
    /\ path \in [Socks -> Agents \cup {None, File}]
    /\ pc \in [Agents -> [Socks -> PCs]]
    /\ life \in [Agents -> Running \cup Gone]
    /\ found \in [Agents -> [Socks -> Agents \cup {None}]]

\* An agent that is not running is nowhere.
Absent == \A a \in Agents, s \in Socks : life[a] \in Gone => pc[a][s] = "idle"

\* The file at a path is its agent's for as long as that agent listens, or was left by a crash.
OwnFile ==
    \A a \in Agents, s \in Socks :
        path[s] = a => pc[a][s] \in {"listen", "serving"} \/ life[a] = "crashed"

\* An agent that got past lstat found no file there that is not a socket.
NoFile ==
    \A a \in Agents, s \in Socks :
        pc[a][s] \in {"probe", "remove", "bind", "listen", "serving"} => path[s] # File

\* An agent that is about to remove a file found nobody serving it.
Stale == \A a \in Agents, s \in Socks : pc[a][s] = "remove" => found[a][s] = None

\* An agent that listens has its file at the path, or was robbed of it.
HasFile ==
    \A a \in Agents, s \in Socks : pc[a][s] \in {"listen", "serving"} =>
        path[s] = a \/ \E y \in robbed : y.victim = a /\ y.sock = s

\* LiveIsKept, the types apart.
Excused ==
    \A x \in robbed :
        /\ x.victim # File
        /\ \/ x.at = "remove" /\ x.victim # x.found
           \/ x.at = "serving" /\ \E y \in robbed : y.victim = x.by /\ y.sock = x.sock

SInv == Types /\ Absent /\ OwnFile /\ NoFile /\ Stale /\ HasFile /\ Excused

-----------------------------------------------------------------------------
(* It is kept by every step *)

\* All but how far main's shutdown is.
sockVars == <<path, pc, life, found, robbed, orderly>>

\* While main waits for the groups nothing happens to the sockets.
LEMMA ShutdownSteps ==
    /\ \A a \in Agents : Shutdown(a) \/ Answered(a) => UNCHANGED sockVars
    /\ UNCHANGED vars => UNCHANGED sockVars
  BY DEF Shutdown, Answered, sockVars, vars

\* How far main's shutdown is has its type.
ShutType == shut \in [Agents -> {"no", "held", "done"}]

\* Every step keeps it.
LEMMA ShutTypeStep == ASSUME ShutType, [Next]_vars PROVE ShutType'
<1>1. ASSUME NEW a \in Agents, NEW s \in Socks, Goroutine(a, s) PROVE UNCHANGED shut
  BY <1>1 DEF Goroutine, Lstat, Probe, Remove, Bind, Listen, Close
<1>2. ASSUME NEW a \in Agents, Start(a) \/ Signal(a) PROVE UNCHANGED shut
  BY <1>2 DEF Start, Signal
<1>3. ASSUME NEW a \in Agents, Exit(a) \/ Crash(a) PROVE ShutType'
  BY <1>3 DEF Exit, Crash, End, ShutType
<1>4. ASSUME NEW a \in Agents, Shutdown(a) \/ Answered(a) PROVE ShutType'
  BY <1>4 DEF Shutdown, Answered, ShutType
<1> QED
  BY <1>1, <1>2, <1>3, <1>4 DEF Next, vars, ShutType

\* How far main's shutdown is keeps its type.
THEOREM ShutTypeCorrect == Spec => []ShutType
<1>1. Init => ShutType
  BY DEF Init, ShutType
<1> QED
  BY <1>1, ShutTypeStep, PTL DEF Spec

\* A step of one goroutine changes its own program counter only.
LEMMA StepAlone ==
    ASSUME Types, NEW a \in Agents, NEW s \in Socks, NEW from, NEW to \in PCs,
           Step(a, s, from, to)
    PROVE  /\ life[a] \in Running /\ pc[a][s] = from /\ pc'[a][s] = to
           /\ pc' \in [Agents -> [Socks -> PCs]]
           /\ \A b \in Agents, t \in Socks : <<b, t>> # <<a, s>> => pc'[b][t] = pc[b][t]
  BY DEF Step, Goto, Types

\* Looking at a path, and listening on what was bound, keeps the invariant.
LEMMA LookSteps ==
    ASSUME SInv, NEW a \in Agents, NEW s \in Socks, Lstat(a, s) \/ Probe(a, s) \/ Listen(a, s)
    PROVE  SInv'
<1> USE DEF SInv
<1>1. UNCHANGED <<path, life, robbed>>
  BY DEF Lstat, Probe, Listen
<1>2. PICK from \in PCs, to \in PCs :
        /\ Step(a, s, from, to)
        /\ \/ from = "lstat" /\ to = "bind" /\ path[s] = None /\ UNCHANGED found
           \/ from = "lstat" /\ to = "refused" /\ UNCHANGED found
           \/ from = "lstat" /\ to = "probe" /\ path[s] # File /\ UNCHANGED found
           \/ from = "probe" /\ to = "refused"
           \/ from = "probe" /\ to = "remove" /\ found'[a][s] = None
           \/ from = "listen" /\ to = "serving" /\ UNCHANGED found
  BY DEF Lstat, Probe, Listen, Live, PCs, Types
<1>3. /\ found' \in [Agents -> [Socks -> Agents \cup {None}]]
      /\ \A b \in Agents, t \in Socks : <<b, t>> # <<a, s>> => found'[b][t] = found[b][t]
  <2>1. CASE Probe(a, s)
    <3>1. (IF path[s] \in Serving(s) THEN path[s] ELSE None) \in Agents \cup {None}
      BY DEF Serving
    <3>2. PICK x \in Agents \cup {None} : found' = [found EXCEPT ![a][s] = x]
      BY <2>1, <3>1 DEF Probe
    <3> QED
      BY <3>2 DEF Types
  <2>2. CASE Lstat(a, s) \/ Listen(a, s)
    BY <2>2 DEF Lstat, Listen, Types
  <2> QED
    BY <2>1, <2>2
<1>4. /\ life[a] \in Running /\ pc[a][s] = from /\ pc'[a][s] = to
      /\ pc' \in [Agents -> [Socks -> PCs]]
      /\ \A b \in Agents, t \in Socks : <<b, t>> # <<a, s>> => pc'[b][t] = pc[b][t]
  BY <1>2, StepAlone
<1>5. Types'
  BY <1>1, <1>3, <1>4 DEF Types
<1>6. Absent'
  BY <1>1, <1>4 DEF Absent, Running, Gone
<1>7. OwnFile' /\ HasFile'
  BY <1>1, <1>2, <1>4 DEF OwnFile, HasFile
<1>8. NoFile'
  BY <1>1, <1>2, <1>4, SocketsAssumption DEF NoFile
<1>9. Stale'
  BY <1>2, <1>3, <1>4 DEF Stale
<1>10. Excused'
  BY <1>1 DEF Excused
<1> QED
  BY <1>5, <1>6, <1>7, <1>8, <1>9, <1>10

\* An unlink, which takes whatever file is at the path, keeps it.
LEMMA UnlinkStep ==
    ASSUME SInv, NEW a \in Agents, NEW s \in Socks,
           NEW from \in {"remove", "serving"}, NEW to \in {"bind", "closed"},
           Step(a, s, from, to), Unlink(a, s), UNCHANGED <<life, found>>
    PROVE  SInv'
<1> USE DEF SInv
<1> DEFINE Record(v) == [by |-> a, sock |-> s, victim |-> v, at |-> pc[a][s], found |-> found[a][s]]
           hit == {path[s]} \cap ({File} \cup {b \in Agents \ {a} : life[b] \in Running})
<1>1. path' = [path EXCEPT ![s] = None] /\ robbed' = robbed \cup {Record(v) : v \in hit}
  BY DEF Unlink
<1>2. /\ life[a] \in Running /\ pc[a][s] = from /\ pc'[a][s] = to
      /\ pc' \in [Agents -> [Socks -> PCs]]
      /\ \A b \in Agents, t \in Socks : <<b, t>> # <<a, s>> => pc'[b][t] = pc[b][t]
  BY StepAlone DEF PCs
<1>3. path'[s] = None /\ \A t \in Socks : t # s => path'[t] = path[t]
  BY <1>1 DEF Types
<1>4. Types'
  BY <1>1, <1>2 DEF Types
<1>5. Absent'
  BY <1>2 DEF Absent, Running, Gone
<1>6. OwnFile'
  BY <1>2, <1>3, SocketsAssumption DEF OwnFile
<1>7. NoFile'
  BY <1>2, <1>3, SocketsAssumption DEF NoFile
<1>8. Stale'
  BY <1>2 DEF Stale
<1>9. HasFile'
  <2> SUFFICES ASSUME NEW b \in Agents, NEW t \in Socks, pc'[b][t] \in {"listen", "serving"}
               PROVE  path'[t] = b \/ \E y \in robbed' : y.victim = b /\ y.sock = t
    BY DEF HasFile
  <2>1. <<b, t>> # <<a, s>> /\ pc[b][t] \in {"listen", "serving"}
    BY <1>2
  <2>2. CASE path[t] = b /\ t = s
    <3>1. b # a /\ life[b] \in Running
      BY <2>1, <2>2 DEF Absent, Types
    <3>2. Record(b) \in robbed'
      BY <1>1, <2>2, <3>1
    <3> QED
      BY <2>2, <3>2
  <2>3. CASE path[t] = b /\ t # s
    BY <1>3, <2>3
  <2>4. CASE path[t] # b
    BY <1>1, <2>1, <2>4 DEF HasFile
  <2> QED
    BY <2>2, <2>3, <2>4
<1>10. Excused'
  <2>1. ASSUME NEW v \in hit
        PROVE  /\ v # File
               /\ \/ pc[a][s] = "remove" /\ v # found[a][s]
                  \/ pc[a][s] = "serving" /\ \E y \in robbed : y.victim = a /\ y.sock = s
    <3>1. v # File /\ v = path[s] /\ v \in Agents /\ v # a
      BY <1>2 DEF NoFile
    <3>2. CASE from = "remove"
      BY <1>2, <3>1, <3>2, SocketsAssumption DEF Stale
    <3>3. CASE from = "serving"
      BY <1>2, <3>1, <3>3 DEF HasFile
    <3> QED
      BY <3>2, <3>3
  <2> QED
    BY <1>1, <2>1 DEF Excused
<1> QED
  BY <1>4, <1>5, <1>6, <1>7, <1>8, <1>9, <1>10

\* removeStaleSocket, taking away what nobody answers at, keeps it.
LEMMA RemoveStep ==
    ASSUME SInv, NEW a \in Agents, NEW s \in Socks, Remove(a, s) PROVE SInv'
<1>1. CASE path[s] # None
  BY <1>1, UnlinkStep DEF Remove
<1>2. CASE path[s] = None
  <2>1. Step(a, s, "remove", "refused") /\ UNCHANGED <<path, robbed, life, found>>
    BY <1>2 DEF Remove
  <2>2. /\ life[a] \in Running /\ pc'[a][s] = "refused" /\ pc[a][s] = "remove"
        /\ pc' \in [Agents -> [Socks -> PCs]]
        /\ \A b \in Agents, t \in Socks : <<b, t>> # <<a, s>> => pc'[b][t] = pc[b][t]
    BY <2>1, StepAlone DEF SInv, PCs
  <2>3. Types' /\ Absent'
    BY <2>1, <2>2 DEF SInv, Types, Absent, Running, Gone
  <2>4. OwnFile' /\ NoFile' /\ Stale' /\ HasFile' /\ Excused'
    BY <2>1, <2>2 DEF SInv, OwnFile, NoFile, Stale, HasFile, Excused
  <2> QED
    BY <2>3, <2>4 DEF SInv
<1> QED
  BY <1>1, <1>2

\* Binding, which fails on a file that is there and creates one otherwise, keeps it.
LEMMA BindStep ==
    ASSUME SInv, NEW a \in Agents, NEW s \in Socks, Bind(a, s) PROVE SInv'
<1>1. PICK to \in {"listen", "refused"} :
        /\ Step(a, s, "bind", to)
        /\ \/ to = "listen" /\ path[s] = None /\ path' = [path EXCEPT ![s] = a]
           \/ to = "refused" /\ UNCHANGED path
  BY DEF Bind
<1>2. UNCHANGED <<life, found, robbed>>
  BY DEF Bind
<1>3. /\ life[a] \in Running /\ pc[a][s] = "bind" /\ pc'[a][s] = to
      /\ pc' \in [Agents -> [Socks -> PCs]]
      /\ \A b \in Agents, t \in Socks : <<b, t>> # <<a, s>> => pc'[b][t] = pc[b][t]
  BY <1>1, StepAlone DEF SInv, PCs
<1>4. path' \in [Socks -> Agents \cup {None, File}]
  BY <1>1 DEF SInv, Types
<1>5. Types' /\ Absent'
  <2>1. Types'
    BY <1>2, <1>3, <1>4 DEF SInv, Types
  <2>2. life[a] \notin Gone /\ life' = life
    BY <1>2, <1>3 DEF Running, Gone
  <2>3. Absent'
    BY <1>3, <2>2 DEF SInv, Absent
  <2> QED
    BY <2>1, <2>3
<1>6. \A t \in Socks : path'[t] = path[t] \/ (t = s /\ to = "listen" /\ path[s] = None /\ path'[s] = a)
  BY <1>1 DEF SInv, Types
<1>7. OwnFile' /\ NoFile' /\ HasFile'
  <2>1. OwnFile'
    BY <1>2, <1>3, <1>6 DEF SInv, OwnFile
  <2>2. NoFile'
    BY <1>3, <1>6, SocketsAssumption DEF SInv, NoFile
  <2>3. HasFile'
    <3> SUFFICES ASSUME NEW b \in Agents, NEW t \in Socks, pc'[b][t] \in {"listen", "serving"}
                 PROVE  path'[t] = b \/ \E y \in robbed : y.victim = b /\ y.sock = t
      BY <1>2 DEF HasFile
    <3>1. CASE <<b, t>> = <<a, s>>
      BY <1>1, <1>3, <3>1 DEF SInv, Types
    <3>2. CASE <<b, t>> # <<a, s>>
      <4>1. path[t] = b \/ \E y \in robbed : y.victim = b /\ y.sock = t
        BY <1>3, <3>2 DEF SInv, HasFile
      <4>2. path[t] = b => path'[t] = b
        BY <1>6, SocketsAssumption
      <4> QED
        BY <4>1, <4>2
    <3> QED
      BY <3>1, <3>2
  <2> QED
    BY <2>1, <2>2, <2>3
<1>8. Stale' /\ Excused'
  BY <1>2, <1>3 DEF SInv, Stale, Excused
<1> QED
  BY <1>5, <1>7, <1>8 DEF SInv

\* An agent comes, is signalled, or goes.
LEMMA LifeSteps ==
    ASSUME SInv, NEW a \in Agents, Start(a) \/ Signal(a) \/ Exit(a) \/ Crash(a) PROVE SInv'
<1> USE DEF SInv
<1>1. UNCHANGED <<path, robbed>>
  BY DEF Start, Signal, Exit, Crash
<1>2. CASE Start(a)
  <2>1. /\ life[a] = "off" /\ life' = [life EXCEPT ![a] = "up"] /\ UNCHANGED found
        /\ pc' = [pc EXCEPT ![a] = [s \in Socks |-> "lstat"]]
    BY <1>2 DEF Start
  <2>2. Types' /\ Absent'
    BY <1>1, <2>1 DEF Types, Absent, Running, Gone, PCs
  <2>3. \A s \in Socks : path[s] # a
    BY <2>1 DEF OwnFile, Absent, Gone
  <2>4. OwnFile' /\ NoFile' /\ Stale' /\ HasFile' /\ Excused'
    BY <1>1, <2>1, <2>3 DEF Types, OwnFile, NoFile, Stale, HasFile, Excused
  <2> QED
    BY <2>2, <2>4
<1>3. CASE Signal(a)
  <2>1. life[a] = "up" /\ life' = [life EXCEPT ![a] = "stopping"] /\ UNCHANGED <<pc, found>>
    BY <1>3 DEF Signal
  <2>2. Types' /\ Absent'
    BY <1>1, <2>1 DEF Types, Absent, Running, Gone
  <2>3. OwnFile' /\ NoFile' /\ Stale' /\ HasFile' /\ Excused'
    BY <1>1, <2>1 DEF Types, OwnFile, NoFile, Stale, HasFile, Excused
  <2> QED
    BY <2>2, <2>3
<1>4. CASE Exit(a) \/ Crash(a)
  <2>1. PICK how \in {"exited", "crashed"} :
          /\ End(a, how)
          /\ how = "exited" => \A s \in Socks : pc[a][s] \in {"closed", "refused"}
    BY <1>4 DEF Exit, Crash
  <2>2. life[a] \in Running
    BY <1>4 DEF Exit, Crash, Running
  <2>3. /\ life' = [life EXCEPT ![a] = how]
        /\ pc' = [pc EXCEPT ![a] = [s \in Socks |-> "idle"]]
        /\ found' = [found EXCEPT ![a] = [s \in Socks |-> None]]
    BY <2>1 DEF End
  <2>4. Types' /\ Absent'
    BY <1>1, <2>3 DEF Types, Absent, Running, Gone, PCs
  <2>5. OwnFile'
    <3>1. ASSUME how = "exited", NEW s \in Socks PROVE path[s] # a
      BY <2>1, <2>2, <3>1 DEF OwnFile, Running
    <3> QED
      BY <1>1, <2>3, <3>1 DEF OwnFile, Types
  <2>6. NoFile' /\ Stale' /\ HasFile' /\ Excused'
    BY <1>1, <2>3 DEF Types, NoFile, Stale, HasFile, Excused
  <2> QED
    BY <2>4, <2>5, <2>6
<1> QED
  BY <1>2, <1>3, <1>4

\* Every step keeps the invariant.
LEMMA SInvStep == ASSUME SInv, [Next]_vars PROVE SInv'
<1>1. ASSUME NEW a \in Agents, NEW s \in Socks, Goroutine(a, s) PROVE SInv'
  <2>1. CASE Close(a, s)
    BY <2>1, UnlinkStep DEF Close
  <2> QED
    BY <1>1, <2>1, LookSteps, RemoveStep, BindStep DEF Goroutine
<1>2. CASE UNCHANGED sockVars
  BY <1>2 DEF sockVars, SInv, Types, Absent, OwnFile, NoFile, Stale, HasFile, Excused
<1> QED
  BY <1>1, <1>2, LifeSteps, ShutdownSteps DEF Next

\* The invariant LiveAgentsAreKept rests on.
THEOREM SInvariance == Spec => []SInv
<1>1. ASSUME Init PROVE SInv
  <2>1. /\ path \in [Socks -> {None, File}] /\ robbed = {}
        /\ pc = [a \in Agents |-> [s \in Socks |-> "idle"]]
        /\ life = [a \in Agents |-> "off"] /\ found = [a \in Agents |-> [s \in Socks |-> None]]
    BY <1>1 DEF Init
  <2>2. Types
    BY <2>1 DEF Types, PCs, Gone
  <2>3. Absent /\ NoFile /\ Stale /\ HasFile /\ Excused
    BY <2>1 DEF Absent, NoFile, Stale, HasFile, Excused
  <2>4. OwnFile
    BY <2>1, SocketsAssumption DEF OwnFile
  <2> QED
    BY <2>2, <2>3, <2>4 DEF SInv
<1> QED
  BY <1>1, SInvStep, PTL DEF Spec

\* No agent that accepts connections when another probes its socket loses the path to that
\* other, whatever starts, stops and crashes there are (prepareSocketPath).
THEOREM LiveAgentsAreKept == Spec => []LiveIsKept
<1>1. SInv /\ ShutType => LiveIsKept
  BY DEF SInv, Types, ShutType, OwnFile, Excused, LiveIsKept, TypeOK
<1> QED
  BY <1>1, SInvariance, ShutTypeCorrect, PTL

-----------------------------------------------------------------------------
(* Orderly starts and stops *)

Own == {"remove", "bind", "listen", "serving", "closed"}
Looking == {"lstat", "probe"}

\* An agent that has decided to take a path, and has not gone.
Owns(a) == life[a] \in Running /\ \E s \in Socks : pc[a][s] \in Own

Others(a) == {b \in Agents \ {a} : life[b] \in Running}

OneBusy == \A a \in Agents : \A b \in Others(a) : life[a] \in Running => Settled(a) \/ Settled(b)

OneOwner == \A a \in Agents : \A b \in Others(a) : ~(Owns(a) /\ Owns(b))

\* Only a file that is no socket keeps a path from an agent that takes another one.
RefusedByFile ==
    \A a \in Agents, t \in Socks :
        /\ pc[a][t] = "refused"
        /\ \E u \in Socks : pc[a][u] \in Own \cup Looking
        /\ \A b \in Others(a) : ~Owns(b)
        => path[t] = File

\* Who looks at a path while another agent owns one finds it served, or a file.
Barred ==
    \A a \in Agents : \A b \in Others(a), t \in Socks :
        Owns(a) /\ pc[b][t] \in Looking => path[t] = File \/ (path[t] = a /\ pc[a][t] = "serving")

\* Nothing comes or goes at a path between an agent's steps.
Steady ==
    \A a \in Agents, s \in Socks :
        /\ pc[a][s] \in {"probe", "remove"} => path[s] # None
        /\ pc[a][s] = "bind" => path[s] = None

Orderly == OneBusy /\ OneOwner /\ RefusedByFile /\ Barred /\ Steady /\ robbed = {}

OInv == orderly => Orderly

\* What a goroutine does in an orderly state: the agents besides its own are settled, and
\* neither the removal nor the bind finds the path changed.
LEMMA OrderlyMove ==
    ASSUME SInv, Orderly, NEW a \in Agents, NEW s \in Socks, Goroutine(a, s)
    PROVE  /\ life[a] \in Running
           /\ \A b \in Others(a) : life[b] = "up" /\ \A t \in Socks : pc[b][t] \in {"serving", "refused"}
           /\ UNCHANGED <<life, orderly>>
           /\ \A b \in Agents, t \in Socks : <<b, t>> # <<a, s>> => pc'[b][t] = pc[b][t]
           /\ \A t \in Socks : t # s => path'[t] = path[t]
           /\ \/ pc[a][s] = "lstat" /\ pc'[a][s] = "bind" /\ path[s] = None /\ path'[s] = path[s]
              \/ pc[a][s] = "lstat" /\ pc'[a][s] = "refused" /\ path[s] = File /\ path'[s] = path[s]
              \/ pc[a][s] = "lstat" /\ pc'[a][s] = "probe" /\ path[s] # None /\ path'[s] = path[s]
              \/ pc[a][s] = "probe" /\ pc'[a][s] = "refused" /\ Live(s) /\ path'[s] = path[s]
              \/ pc[a][s] = "probe" /\ pc'[a][s] = "remove" /\ ~Live(s) /\ path'[s] = path[s]
              \/ pc[a][s] = "remove" /\ pc'[a][s] = "bind" /\ path'[s] = None
              \/ pc[a][s] = "bind" /\ pc'[a][s] = "listen"
              \/ pc[a][s] = "listen" /\ pc'[a][s] = "serving" /\ path'[s] = path[s]
              \/ pc[a][s] = "serving" /\ pc'[a][s] = "closed"
<1>1. /\ UNCHANGED <<life, orderly>> /\ \A t \in Socks : t # s => path'[t] = path[t]
  BY DEF Goroutine, Lstat, Probe, Remove, Bind, Listen, Close, Unlink, SInv, Types
<1>2. PICK from \in PCs, to \in PCs :
        /\ Step(a, s, from, to)
        /\ \/ from = "lstat" /\ to = "bind" /\ path[s] = None /\ path'[s] = path[s]
           \/ from = "lstat" /\ to = "refused" /\ path[s] = File /\ path'[s] = path[s]
           \/ from = "lstat" /\ to = "probe" /\ path[s] # None /\ path'[s] = path[s]
           \/ from = "probe" /\ to = "refused" /\ Live(s) /\ path'[s] = path[s]
           \/ from = "probe" /\ to = "remove" /\ ~Live(s) /\ path'[s] = path[s]
           \/ from = "remove" /\ to = "refused" /\ path[s] = None
           \/ from = "remove" /\ to = "bind" /\ path'[s] = None
           \/ from = "bind" /\ to = "listen"
           \/ from = "bind" /\ to = "refused" /\ path[s] # None
           \/ from = "listen" /\ to = "serving" /\ path'[s] = path[s]
           \/ from = "serving" /\ to = "closed" /\ life[a] = "stopping"
  <2>1. CASE Lstat(a, s)
    BY <2>1 DEF Lstat, PCs
  <2>2. CASE Probe(a, s)
    BY <2>2 DEF Probe, PCs
  <2>3. CASE Remove(a, s)
    BY <2>3 DEF Remove, Unlink, PCs, SInv, Types
  <2>4. CASE Bind(a, s) \/ Listen(a, s) \/ Close(a, s)
    BY <2>4 DEF Bind, Listen, Close, PCs
  <2> QED
    BY <2>1, <2>2, <2>3, <2>4 DEF Goroutine
<1>3. /\ life[a] \in Running /\ pc[a][s] = from /\ pc'[a][s] = to
      /\ \A b \in Agents, t \in Socks : <<b, t>> # <<a, s>> => pc'[b][t] = pc[b][t]
  BY <1>2, StepAlone DEF SInv
<1>4. ~Settled(a)
  BY <1>2, <1>3 DEF Settled
<1>5. \A b \in Others(a) : Settled(b)
  BY <1>3, <1>4 DEF Orderly, OneBusy
<1>6. ~(from = "remove" /\ to = "refused") /\ ~(from = "bind" /\ to = "refused")
  BY <1>2, <1>3 DEF Orderly, Steady
<1> QED
  BY <1>1, <1>2, <1>3, <1>5, <1>6 DEF Settled

\* An agent that takes a path, or changes what is there, owns paths alone.
LEMMA TakesAlone ==
    ASSUME SInv, Orderly, NEW a \in Agents, NEW s \in Socks, Goroutine(a, s),
           pc'[a][s] \in Own, NEW b \in Others(a)
    PROVE  ~Owns(b)
<1>1. /\ life[a] \in Running
      /\ \/ pc[a][s] = "lstat" /\ path[s] = None
         \/ pc[a][s] = "probe" /\ ~Live(s)
         \/ pc[a][s] \in Own
  BY OrderlyMove DEF Own
<1>2. CASE pc[a][s] \in Own
  BY <1>1, <1>2 DEF Owns, Orderly, OneOwner
<1>3. CASE pc[a][s] \in Looking /\ (path[s] = None \/ ~Live(s)) /\ path[s] # File
  <2>1. a \in Others(b) /\ b \in Agents /\ life[b] \in Running
    BY <1>1 DEF Others
  <2>2. SUFFICES ASSUME Owns(b) PROVE FALSE
    OBVIOUS
  <2>3. path[s] = b /\ pc[b][s] = "serving"
    BY <1>3, <2>1, <2>2 DEF Orderly, Barred
  <2>4. Live(s) /\ path[s] # None
    BY <2>1, <2>3, SocketsAssumption DEF Live, Serving
  <2> QED
    BY <1>3, <2>4
<1>4. path[s] # File \/ pc[a][s] \in Own
  BY <1>1, SocketsAssumption DEF SInv, NoFile
<1> QED
  BY <1>1, <1>2, <1>3, <1>4 DEF Looking

\* While agents are started in order, no step unlinks the file of a live agent.
LEMMA NobodyRobbed ==
    ASSUME SInv, Orderly, NEW a \in Agents, NEW s \in Socks, Goroutine(a, s)
    PROVE  robbed' = {}
<1>1. CASE UNCHANGED robbed
  BY <1>1 DEF Orderly
<1>2. CASE Unlink(a, s) /\ pc[a][s] = "remove" /\ life[a] \in Running
  <2>1. path[s] # File
    BY <1>2 DEF SInv, NoFile
  <2>2. ASSUME NEW b \in Agents \ {a}, life[b] \in Running, path[s] = b PROVE FALSE
    <3>1. pc[b][s] \in Own
      BY <2>2 DEF SInv, OwnFile, Own, Running
    <3>2. Owns(a) /\ Owns(b) /\ b \in Others(a)
      BY <1>2, <2>2, <3>1 DEF Owns, Own, Others
    <3> QED
      BY <3>2 DEF Orderly, OneOwner
  <2> QED
    BY <1>2, <2>1, <2>2 DEF Unlink, Orderly
<1>3. CASE Unlink(a, s) /\ pc[a][s] = "serving"
  <2>1. path[s] = a
    BY <1>3 DEF SInv, HasFile, Orderly
  <2> QED
    BY <1>3, <2>1, SocketsAssumption DEF Unlink, Orderly
<1> QED
  BY <1>1, <1>2, <1>3 DEF Goroutine, Lstat, Probe, Remove, Bind, Listen, Close, Step

\* While agents are started in order, the step of a goroutine keeps Orderly.
LEMMA OrderlyGoroutine ==
    ASSUME SInv, Orderly, NEW a \in Agents, NEW s \in Socks, Goroutine(a, s)
    PROVE  Orderly'
<1>1. /\ life[a] \in Running /\ UNCHANGED <<life, orderly>>
      /\ \A b \in Others(a) : life[b] = "up" /\ \A t \in Socks : pc[b][t] \in {"serving", "refused"}
      /\ \A b \in Agents, t \in Socks : <<b, t>> # <<a, s>> => pc'[b][t] = pc[b][t]
      /\ \A t \in Socks : t # s => path'[t] = path[t]
      /\ pc[a][s] \in Own \cup Looking
      /\ pc[a][s] \in Own => pc'[a][s] \in Own
      /\ pc[a][s] \notin Own => path'[s] = path[s]
  BY OrderlyMove DEF Own, Looking
<1>2. /\ \A b \in Agents : Others(b)' = Others(b)
      /\ \A b \in Agents \ {a} : Owns(b)' = Owns(b) /\ Settled(b)' = Settled(b)
      /\ Owns(a) => Owns(a)'
  BY <1>1 DEF Others, Owns, Settled
<1>3. \A b \in Agents \ {a} : a \in Others(b) /\ (life[b] \in Running => b \in Others(a))
  BY <1>1 DEF Others
<1>4. \A b \in Others(a) : Settled(b)
  BY <1>1 DEF Settled
<1>5. OneBusy'
  BY <1>1, <1>2, <1>3, <1>4 DEF OneBusy, Others
<1>6. \A b \in Others(a) : Owns(a)' => ~Owns(b)
  <2>1. CASE Owns(a)
    BY <2>1 DEF Orderly, OneOwner
  <2>2. CASE pc'[a][s] \in Own
    BY <2>2, TakesAlone
  <2> QED
    BY <1>1, <2>1, <2>2 DEF Owns
<1>7. OneOwner'
  <2> SUFFICES ASSUME NEW x \in Agents, NEW y \in Others(x), Owns(x)', Owns(y)' PROVE FALSE
    BY <1>2 DEF OneOwner
  <2>1. y \in Agents /\ y # x /\ x \in Agents
    BY DEF Others
  <2>2. CASE x = a
    BY <1>2, <1>6, <2>1, <2>2
  <2>3. CASE y = a
    <3>1. Owns(x) /\ x \in Others(a)
      BY <1>2, <1>3, <2>1, <2>3 DEF Owns
    <3> QED
      BY <1>6, <2>3, <3>1
  <2>4. CASE x # a /\ y # a
    BY <1>2, <2>1, <2>4 DEF Orderly, OneOwner
  <2> QED
    BY <2>2, <2>3, <2>4
<1>8. RefusedByFile'
  <2> SUFFICES ASSUME NEW b \in Agents, NEW t \in Socks, pc'[b][t] = "refused",
                      NEW u \in Socks, pc'[b][u] \in Own \cup Looking,
                      \A c \in Others(b) : ~Owns(c)'
               PROVE  path'[t] = File
    BY <1>2 DEF RefusedByFile
  <2>1. CASE b = a /\ t = s
    <3>1. \/ path[s] = File /\ path'[s] = path[s]
          \/ Live(s) /\ pc[a][s] = "probe"
      BY <2>1, OrderlyMove
    <3>2. CASE Live(s) /\ pc[a][s] = "probe"
      <4>1. PICK c \in Agents : c # a /\ life[c] \in Running /\ pc[c][s] = "serving"
        BY <3>2 DEF Live, Serving
      <4>2. c \in Others(a) /\ Owns(c)
        BY <4>1 DEF Others, Owns, Own
      <4>3. c \in Others(a)' /\ Owns(c)'
        BY <1>2, <4>1, <4>2
      <4> QED
        BY <1>2, <2>1, <4>2, <4>3
    <3> QED
      BY <2>1, <3>1, <3>2
  <2>2. CASE b = a /\ t # s
    <3>1. pc[a][t] = "refused" /\ \A c \in Others(a) : ~Owns(c)
      BY <1>1, <1>2, <2>2 DEF Others
    <3> QED
      BY <1>1, <2>2, <3>1 DEF Orderly, RefusedByFile
  <2>3. CASE b # a
    <3>1. pc[b][t] = "refused" /\ pc[b][u] \in Own \cup Looking
      BY <1>1, <2>3
    <3>2. ~Owns(a) /\ \A c \in Others(b) : ~Owns(c)
      BY <1>2, <1>3, <2>3 DEF Others
    <3>3. path[t] = File
      BY <3>1, <3>2 DEF Orderly, RefusedByFile
    <3>4. pc[a][s] \notin Own
      BY <1>1, <3>2 DEF Owns
    <3> QED
      BY <1>1, <3>3, <3>4
  <2> QED
    BY <2>1, <2>2, <2>3
<1>9. Barred'
  <2> SUFFICES ASSUME NEW x \in Agents, NEW y \in Others(x), NEW t \in Socks, Owns(x)',
                      pc'[y][t] \in Looking
               PROVE  path'[t] = File \/ (path'[t] = x /\ pc'[x][t] = "serving")
    BY <1>2 DEF Barred
  <2>1. y \in Agents /\ y # x /\ life[y] \in Running
    BY DEF Others
  <2>2. y = a
    <3>1. SUFFICES ASSUME y # a PROVE FALSE
      OBVIOUS
    <3>2. y \in Others(a) /\ pc'[y][t] = pc[y][t]
      BY <1>1, <1>3, <2>1, <3>1
    <3> QED
      BY <1>1, <3>2 DEF Looking
  <2>3. Owns(x) /\ x \in Others(a)
    BY <1>2, <1>3, <2>1, <2>2 DEF Owns
  <2>4. ~Owns(a)
    BY <2>3 DEF Orderly, OneOwner
  <2>5. pc[a][s] \notin Own /\ path'[t] = path[t] /\ pc'[x][t] = pc[x][t]
    BY <1>1, <2>1, <2>2, <2>4 DEF Owns
  <2>6. pc[a][t] \in Looking
    BY <1>1, <2>2, <2>5
  <2> QED
    BY <2>2, <2>3, <2>5, <2>6 DEF Orderly, Barred
<1>10. Steady'
  <2> SUFFICES ASSUME NEW b \in Agents, NEW t \in Socks
               PROVE  /\ pc'[b][t] \in {"probe", "remove"} => path'[t] # None
                      /\ pc'[b][t] = "bind" => path'[t] = None
    BY DEF Steady
  <2>1. CASE b # a
    <3>1. pc'[b][t] \in {"serving", "refused", "idle"}
      <4>1. CASE life[b] \in Running
        BY <1>1, <1>3, <2>1, <4>1
      <4>2. CASE life[b] \in Gone
        BY <1>1, <2>1, <4>2 DEF SInv, Absent
      <4> QED
        BY <4>1, <4>2 DEF SInv, Types
    <3> QED
      BY <3>1
  <2>2. CASE b = a /\ t # s
    BY <1>1, <2>2 DEF Orderly, Steady
  <2>3. CASE b = a /\ t = s
    <3>1. pc[a][s] = "probe" => path[s] # None
      BY DEF Orderly, Steady
    <3> QED
      BY <2>3, <3>1, OrderlyMove
  <2> QED
    BY <2>1, <2>2, <2>3
<1> QED
  BY <1>5, <1>7, <1>8, <1>9, <1>10, NobodyRobbed DEF Orderly

\* An agent that comes or goes while the others are settled or gone.
LEMMA OrderlyLife ==
    ASSUME SInv, Orderly, orderly', NEW a \in Agents,
           Start(a) \/ Signal(a) \/ Exit(a) \/ Crash(a)
    PROVE  Orderly'
<1>1. UNCHANGED <<path, robbed>> /\ \A b \in Agents \ {a} : life'[b] = life[b] /\ pc'[b] = pc[b]
  BY DEF Start, Signal, Exit, Crash, End, SInv, Types
<1>2. \A b \in Others(a) : Settled(b)
  <2>1. CASE Exit(a)
    <3>1. life[a] \in Running /\ ~Settled(a)
      BY <2>1 DEF Exit, Settled, Running
    <3> QED
      BY <3>1 DEF Orderly, OneBusy
  <2>2. CASE NoteOrder(a)
    BY <2>2 DEF NoteOrder, Others, Running, Gone
  <2> QED
    BY <2>1, <2>2 DEF Start, Signal, Crash
<1>3. /\ \/ life'[a] = "up" /\ life[a] \notin Running /\ \A s \in Socks : pc'[a][s] = "lstat"
         \/ life'[a] = "stopping" /\ life[a] = "up" /\ pc'[a] = pc[a]
         \/ life'[a] \in Gone /\ \A s \in Socks : pc'[a][s] = "idle"
  <2>1. CASE Start(a)
    BY <2>1 DEF Start, SInv, Types, Running
  <2>2. CASE Signal(a)
    BY <2>2 DEF Signal, SInv, Types
  <2>3. CASE Exit(a) \/ Crash(a)
    <3>1. PICK how \in Gone : life' = [life EXCEPT ![a] = how]
                            /\ pc' = [pc EXCEPT ![a] = [s \in Socks |-> "idle"]]
      BY <2>3 DEF Exit, Crash, End, Gone
    <3>2. life'[a] \in Gone /\ pc'[a] = [s \in Socks |-> "idle"]
      BY <3>1 DEF SInv, Types
    <3> QED
      BY <3>2
  <2> QED
    BY <2>1, <2>2, <2>3
<1>4. /\ \A b \in Agents \ {a} : Owns(b)' = Owns(b) /\ Settled(b)' = Settled(b)
      /\ \A b \in Agents \ {a} : Others(b)' \in {Others(b), Others(b) \cup {a}, Others(b) \ {a}}
      /\ Others(a)' = Others(a)
  BY <1>1 DEF Owns, Settled, Others
<1>5. Owns(a)' => Owns(a) /\ pc'[a] = pc[a] /\ life[a] = "up"
  BY <1>3 DEF Owns, Own, Running, Gone
<1>6. \A b \in Agents \ {a} : life[b] \in Running => b \in Others(a) /\ Settled(b)
  BY <1>2 DEF Others
<1>7. OneBusy'
  BY <1>1, <1>4, <1>6 DEF OneBusy, Others
<1>8. OneOwner'
  <2> SUFFICES ASSUME NEW x \in Agents, NEW y \in Agents, x # y, Owns(x)', Owns(y)' PROVE FALSE
    BY DEF OneOwner, Others
  <2>1. Owns(x) /\ Owns(y)
    BY <1>4, <1>5
  <2>2. y \in Others(x)
    BY <2>1 DEF Owns, Others
  <2> QED
    BY <2>1, <2>2 DEF Orderly, OneOwner
<1>9. RefusedByFile'
  <2> SUFFICES ASSUME NEW b \in Agents, NEW t \in Socks, pc'[b][t] = "refused",
                      NEW u \in Socks, pc'[b][u] \in Own \cup Looking,
                      \A c \in Others(b)' : ~Owns(c)'
               PROVE  path[t] = File
    BY <1>1 DEF RefusedByFile
  <2>1. CASE b = a
    <3>1. pc'[a] = pc[a] /\ \A c \in Others(a) : ~Owns(c)
      BY <1>3, <1>4, <2>1 DEF Others
    <3> QED
      BY <2>1, <3>1 DEF Orderly, RefusedByFile
  <2>2. CASE b # a
    <3>1. pc[b][t] = "refused" /\ pc[b][u] \in Own \cup Looking
      BY <1>1, <2>2
    <3>2. life[b] \in Running
      BY <3>1 DEF SInv, Absent, Types
    <3>3. Owns(b)
      <4>1. pc[b][u] \in {"serving", "refused"}
        BY <1>6, <2>2, <3>2 DEF Settled
      <4> QED
        BY <3>1, <3>2, <4>1 DEF Owns, Own, Looking
    <3>4. \A c \in Others(b) : ~Owns(c)
      BY <3>3 DEF Orderly, OneOwner
    <3> QED
      BY <3>1, <3>4 DEF Orderly, RefusedByFile
  <2> QED
    BY <2>1, <2>2
<1>10. Barred'
  <2> SUFFICES ASSUME NEW x \in Agents, NEW y \in Agents, y # x, life'[y] \in Running,
                      NEW t \in Socks, Owns(x)', pc'[y][t] \in Looking
               PROVE  path[t] = File \/ (path[t] = x /\ pc'[x][t] = "serving")
    BY <1>1 DEF Barred, Others
  <2>1. y = a
    <3>1. SUFFICES ASSUME y # a PROVE FALSE
      OBVIOUS
    <3>2. life[y] \in Running /\ pc[y][t] \in Looking
      BY <1>1, <3>1
    <3> QED
      BY <1>6, <3>1, <3>2 DEF Settled, Looking
  <2>2. x \in Agents \ {a} /\ Owns(x) /\ life[x] \in Running /\ pc'[x] = pc[x]
    BY <1>1, <1>4, <2>1 DEF Owns
  <2>3. CASE life[a] \in Running
    <3>1. pc'[a] = pc[a] /\ a \in Others(x)
      BY <1>3, <2>1, <2>2, <2>3 DEF Others, Running, Gone
    <3> QED
      BY <2>1, <2>2, <3>1 DEF Orderly, Barred
  <2>4. CASE life[a] \notin Running
    <3>1. Settled(x)
      BY <1>6, <2>2
    <3>2. CASE pc[x][t] = "serving"
      BY <2>2, <3>2 DEF SInv, HasFile, Orderly
    <3>3. CASE pc[x][t] = "refused"
      <4>1. \A c \in Others(x) : ~Owns(c)
        BY <2>2 DEF Orderly, OneOwner
      <4>2. \E u \in Socks : pc[x][u] \in Own \cup Looking
        BY <2>2 DEF Owns
      <4> QED
        BY <2>2, <3>3, <4>1, <4>2 DEF Orderly, RefusedByFile
    <3> QED
      BY <2>2, <3>1, <3>2, <3>3 DEF Settled
  <2> QED
    BY <2>3, <2>4
<1>11. Steady'
  <2> SUFFICES ASSUME NEW b \in Agents, NEW t \in Socks
               PROVE  /\ pc'[b][t] \in {"probe", "remove"} => path[t] # None
                      /\ pc'[b][t] = "bind" => path[t] = None
    BY <1>1 DEF Steady
  <2>1. pc'[b][t] \in {"lstat", "idle"} \/ pc'[b][t] = pc[b][t]
    BY <1>1, <1>3
  <2> QED
    BY <2>1 DEF Orderly, Steady
<1> QED
  BY <1>1, <1>7, <1>8, <1>9, <1>10, <1>11 DEF Orderly

\* The invariant OrderlyAgentsAgree rests on.
THEOREM OInvariance == Spec => []OInv
<1>1. ASSUME Init PROVE OInv
  <2>1. /\ robbed = {} /\ pc = [a \in Agents |-> [s \in Socks |-> "idle"]]
        /\ life = [a \in Agents |-> "off"]
    BY <1>1 DEF Init
  <2>2. \A a \in Agents : Others(a) = {} /\ life[a] \notin Running
    BY <2>1 DEF Others, Running
  <2>3. OneBusy /\ OneOwner /\ Barred
    BY <2>2 DEF OneBusy, OneOwner, Barred
  <2>4. RefusedByFile /\ Steady
    BY <2>1 DEF RefusedByFile, Steady
  <2> QED
    BY <2>1, <2>3, <2>4 DEF OInv, Orderly
<1>2. SInv /\ OInv /\ [Next]_vars => OInv'
  <2> SUFFICES ASSUME SInv, OInv, [Next]_vars, orderly' PROVE Orderly'
    BY DEF OInv
  <2>1. ASSUME NEW a \in Agents, NEW s \in Socks, Goroutine(a, s) PROVE Orderly'
    <3>1. orderly
      BY <2>1 DEF Goroutine, Lstat, Probe, Remove, Bind, Listen, Close
    <3> QED
      BY <2>1, <3>1, OrderlyGoroutine DEF OInv
  <2>2. ASSUME NEW a \in Agents, Start(a) \/ Signal(a) \/ Exit(a) \/ Crash(a) PROVE Orderly'
    <3>1. orderly
      BY <2>2 DEF Start, Signal, Exit, Crash, NoteOrder
    <3> QED
      BY <2>2, <3>1, OrderlyLife DEF OInv
  <2>3. CASE UNCHANGED sockVars
    <3>1. orderly /\ Orderly
      BY <2>3 DEF sockVars, OInv
    <3> QED
      BY <2>3, <3>1 DEF sockVars, Orderly, OneBusy, OneOwner, RefusedByFile, Barred, Steady, Others,
                        Owns, Settled
  <2> QED
    BY <2>1, <2>2, <2>3, ShutdownSteps DEF Next
<1> QED
  BY <1>1, <1>2, SInvariance, PTL DEF Spec

\* Agents that come and go one at a time never take a path from one another, and one agent
\* alone is reached at all of them (host-agent-ipc.md).
THEOREM OrderlyAgentsAgree == Spec => []OneAgentWhenOrderly
<1>1. OInv => OneAgentWhenOrderly
  <2> SUFFICES ASSUME Orderly, NEW s \in Socks, NEW t \in Socks, Live(s), Live(t)
               PROVE  path[s] = path[t]
    BY DEF OInv, Orderly, OneAgentWhenOrderly
  <2>1. /\ path[s] \in Agents /\ Owns(path[s]) /\ life[path[s]] \in Running
        /\ path[t] \in Agents /\ Owns(path[t]) /\ life[path[t]] \in Running
    BY DEF Live, Serving, Owns, Own
  <2> QED
    BY <2>1 DEF Orderly, OneOwner, Others
<1> QED
  BY <1>1, OInvariance, PTL

-----------------------------------------------------------------------------
(* An agent left alone *)

\* An agent on its way to serve both paths, with no other running: nothing is there that
\* it cannot remove, and nothing changes under it.
Boots(a) ==
    /\ life[a] = "up" /\ Alone(a)
    /\ \A s \in Socks :
          /\ path[s] # File
          /\ pc[a][s] \in {"lstat", "probe", "remove", "bind", "listen", "serving"}
          /\ pc[a][s] \in {"probe", "remove"} => path[s] # None
          /\ pc[a][s] = "bind" => path[s] = None
          /\ pc[a][s] \in {"listen", "serving"} => path[s] = a

\* A step leaves it on its way, but for a signal, a crash or another agent's start.
StaysBooting(a) == Boots(a) /\ life'[a] = "up" /\ Alone(a)' => Boots(a)'

\* It holds of every step: whatever is there when it probes, nobody serves.
LEMMA BootStep ==
    ASSUME SInv, SInv', [Next]_vars, NEW a \in Agents PROVE StaysBooting(a)
<1> SUFFICES ASSUME Boots(a), life'[a] = "up", Alone(a)' PROVE Boots(a)'
  BY DEF StaysBooting
<1> USE DEF Running, Gone
<1>1. Types
  BY DEF SInv
<1>2. ASSUME NEW s \in Socks, Goroutine(a, s) PROVE Boots(a)'
  <2>1. path[s] # a \/ pc[a][s] \in {"listen", "serving"}
    BY DEF SInv, OwnFile, Boots
  <2>2. pc[a][s] = "probe" => ~Live(s)
    BY <2>1 DEF Live, Serving, Boots, Alone
  <2>3. ~Close(a, s)
    BY DEF Close, Boots
  <2>4. /\ \A t \in Socks \ {s} : path'[t] = path[t] /\ pc'[a][t] = pc[a][t]
        /\ UNCHANGED life
    BY <1>1, <1>2, <2>3 DEF Goroutine, Lstat, Probe, Remove, Bind, Listen, Step, Goto, Unlink,
                            Types
  <2>5. /\ path'[s] # File
        /\ pc'[a][s] \in {"lstat", "probe", "remove", "bind", "listen", "serving"}
        /\ pc'[a][s] \in {"probe", "remove"} => path'[s] # None
        /\ pc'[a][s] = "bind" => path'[s] = None
        /\ pc'[a][s] \in {"listen", "serving"} => path'[s] = a
    <3>1. CASE Lstat(a, s)
      BY <1>1, <3>1, SocketsAssumption DEF Lstat, Step, Goto, Boots, Types
    <3>2. CASE Probe(a, s)
      BY <1>1, <2>2, <3>2 DEF Probe, Step, Goto, Boots, Types
    <3>3. CASE Remove(a, s)
      BY <1>1, <3>3, SocketsAssumption DEF Remove, Unlink, Step, Goto, Boots, Types
    <3>4. CASE Bind(a, s)
      BY <1>1, <3>4, SocketsAssumption DEF Bind, Step, Goto, Boots, Types
    <3>5. CASE Listen(a, s)
      BY <1>1, <3>5 DEF Listen, Step, Goto, Boots, Types
    <3> QED
      BY <1>2, <2>3, <3>1, <3>2, <3>3, <3>4, <3>5 DEF Goroutine
  <2> QED
    BY <2>4, <2>5 DEF Boots
<1>3. ASSUME NEW b \in Agents \ {a}, NEW s \in Socks, Goroutine(b, s) PROVE Boots(a)'
  <2>1. life[b] \in Gone
    BY DEF Boots, Alone
  <2> QED
    BY <1>3, <2>1 DEF Goroutine, Lstat, Probe, Remove, Bind, Listen, Close, Step
<1>4. ASSUME NEW b \in Agents, Start(b) \/ Signal(b) \/ Exit(b) \/ Crash(b) PROVE Boots(a)'
  <2>1. b # a
    BY <1>1, <1>4 DEF Start, Signal, Exit, Crash, End, Boots, Types
  <2>2. life[b] \in Gone /\ life'[b] \in Gone
    BY <2>1 DEF Boots, Alone
  <2> QED
    BY <1>1, <1>4, <2>1, <2>2 DEF Start, Signal, Exit, Crash, Types
<1>5. CASE UNCHANGED sockVars
  BY <1>5 DEF sockVars, Boots, Alone
<1> QED
  BY <1>2, <1>3, <1>4, <1>5, ShutdownSteps DEF Next

\* The safety core of AloneServes: an agent that is alone as it starts to bind, and finds
\* no file that is not a socket, is on its way to serve both paths, whatever a crash left
\* there, and no step of its own takes it from that way: none of its probes is answered,
\* no bind fails and nothing it bound is lost (prepareSocketPath, bindUnixSocket).
THEOREM AloneIsNotRefused ==
    Spec => /\ [](\A a \in Agents :
                     life[a] = "up" /\ Alone(a) /\ (\A s \in Socks : pc[a][s] = "lstat")
                         => Boots(a) \/ \E s \in Socks : path[s] = File)
            /\ [][\A a \in Agents : StaysBooting(a)]_vars
<1>1. \A a \in Agents :
          life[a] = "up" /\ Alone(a) /\ (\A s \in Socks : pc[a][s] = "lstat")
              => Boots(a) \/ \E s \in Socks : path[s] = File
  BY DEF Boots
<1>2. SInv /\ SInv' /\ [Next]_vars => [\A a \in Agents : StaysBooting(a)]_vars
  BY BootStep
<1> QED
  BY <1>1, <1>2, SInvariance, PTL DEF Spec

=============================================================================
