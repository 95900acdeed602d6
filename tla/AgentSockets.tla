------------------------------ MODULE AgentSockets ------------------------------
(***************************************************************************)
(* The two fixed socket paths of shed-host-agent (sockets.go): how several *)
(* agents bind them (prepareSocketPath and bindUnixSocket in               *)
(* desktop_server.go), serve them (Listen, status_server.go), give them up *)
(* on a signal, and leave them behind in a crash.                          *)
(*                                                                         *)
(* An agent is one run of the program; each of its sockets is bound by a   *)
(* goroutine of its own.  On a signal that goroutine closes it, while main *)
(* waits for the watch loop and the watcher groups (DiscoveryWatch): for   *)
(* ever when a handler is in what has no deadline, a Touch ID sheet or a   *)
(* request to the host's SSH agent.  A second signal changes nothing.      *)
(*                                                                         *)
(* A call to the operating system is one step, and agents interleave       *)
(* between them.  The path holds the socket file of the agent that made    *)
(* it, running or gone, or a file that is no socket.  The backlog of a     *)
(* socket that is served is never full.                                    *)
(***************************************************************************)
CONSTANTS
    Agents,
    Socks,      \* host-agent.sock and host-agent-status.sock
    None,       \* nothing at a path
    File        \* a file that is not a socket

ASSUME SocketsAssumption == Agents \cap {None, File} = {} /\ None # File

VARIABLES
    path,       \* what a path holds
    pc,         \* where an agent is with a socket
    life,       \* of an agent: "off", "up", "stopping", "exited" or "crashed"
    shut,       \* main's shutdown: not there yet, held up by a handler, or through
    found,      \* history: who accepted connections at a path when an agent probed it
    robbed,     \* history: the files of others that an agent should not have removed
    orderly     \* history: no agent came or went while another was starting or stopping

vars == <<path, pc, life, shut, found, robbed, orderly>>

Gone == {"off", "exited", "crashed"}
Running == {"up", "stopping"}

Init ==
    /\ path \in [Socks -> {None, File}]
    /\ pc = [a \in Agents |-> [s \in Socks |-> "idle"]]
    /\ life = [a \in Agents |-> "off"]
    /\ shut = [a \in Agents |-> "no"]
    /\ found = [a \in Agents |-> [s \in Socks |-> None]]
    /\ robbed = {} /\ orderly = TRUE

Goto(a, s, to) == pc' = [pc EXCEPT ![a][s] = to]
Step(a, s, from, to) == life[a] \in Running /\ pc[a][s] = from /\ Goto(a, s, to)

\* The file at the path goes; that it was no socket, or a running agent's, is noted.
Unlink(a, s) ==
    /\ path' = [path EXCEPT ![s] = None]
    /\ robbed' = robbed \cup
          {[by |-> a, sock |-> s, victim |-> v, at |-> pc[a][s],
           found |-> found[a][s]] :
              v \in {path[s]} \cap ({File} \cup {b \in Agents \ {a} : life[b] \in Running})}

-----------------------------------------------------------------------------
Settled(a) == life[a] = "up" /\ \A s \in Socks : pc[a][s] \in {"serving", "refused"}

NoteOrder(a) == orderly' = (orderly /\ \A b \in Agents \ {a} : life[b] \in Gone \/ Settled(b))

\* main: both goroutines are started.
Start(a) ==
    /\ life[a] = "off"
    /\ life' = [life EXCEPT ![a] = "up"]
    /\ pc' = [pc EXCEPT ![a] = [s \in Socks |-> "lstat"]]
    /\ NoteOrder(a)
    /\ UNCHANGED <<path, shut, found, robbed>>

\* prepareSocketPath looks what is there: nothing, no socket, or one to be probed.
Lstat(a, s) ==
    /\ \/ path[s] = None /\ Step(a, s, "lstat", "bind")
       \/ path[s] = File /\ Step(a, s, "lstat", "refused")
       \/ path[s] \notin {None, File} /\ Step(a, s, "lstat", "probe")
    /\ UNCHANGED <<path, life, shut, found, robbed, orderly>>

Serving(s) == {a \in Agents : life[a] \in Running /\ pc[a][s] = "serving"}

\* Mutant: no socket is ever found live.
Live_Never(s) == FALSE

\* socketIsLive: what is at the path now accepts connections.
Live(s) == path[s] \in Serving(s)

Probe(a, s) ==
    /\ \/ Live(s) /\ Step(a, s, "probe", "refused")
       \/ ~Live(s) /\ Step(a, s, "probe", "remove")
    /\ found' = [found EXCEPT ![a][s] = IF path[s] \in Serving(s) THEN path[s] ELSE None]
    /\ UNCHANGED <<path, life, shut, robbed, orderly>>

\* Mutant: a stale file is left where it is.
Remove_Leaves(a, s) ==
    /\ Step(a, s, "remove", "bind")
    /\ UNCHANGED <<path, life, shut, found, robbed, orderly>>

\* os.Remove takes whatever the path holds by now, and fails when that is nothing.
Remove(a, s) ==
    /\ \/ path[s] = None /\ Step(a, s, "remove", "refused") /\ UNCHANGED <<path, robbed>>
       \/ path[s] # None /\ Step(a, s, "remove", "bind") /\ Unlink(a, s)
    /\ UNCHANGED <<life, shut, found, orderly>>

\* net.Listen is bind, which does not replace a file, and then listen; between the two
\* the socket is there and accepts nothing.
Bind(a, s) ==
    /\ \/ path[s] = None /\ Step(a, s, "bind", "listen") /\ path' = [path EXCEPT ![s] = a]
       \/ path[s] # None /\ Step(a, s, "bind", "refused") /\ UNCHANGED path
    /\ UNCHANGED <<life, shut, found, robbed, orderly>>

Listen(a, s) ==
    /\ Step(a, s, "listen", "serving")
    /\ UNCHANGED <<path, life, shut, found, robbed, orderly>>

-----------------------------------------------------------------------------
\* SIGTERM or SIGINT cancels the context.
Signal(a) ==
    /\ life[a] = "up"
    /\ life' = [life EXCEPT ![a] = "stopping"]
    /\ NoteOrder(a)
    /\ UNCHANGED <<path, pc, shut, found, robbed>>

\* Mutant: on the way out an agent clears the paths it could not bind, too.
Close_Any(a, s) ==
    /\ life[a] = "stopping" /\ pc[a][s] \in {"serving", "refused"}
    /\ Goto(a, s, "closed")
    /\ Unlink(a, s)
    /\ UNCHANGED <<life, shut, found, orderly>>

\* Mutant: the context is watched from before the bind, so that a signal during the bind
\* closes nothing.
Close_Early(a, s) ==
    /\ life[a] = "stopping" /\ Step(a, s, "bind", "closed")
    /\ UNCHANGED <<path, life, shut, found, robbed, orderly>>

\* The listener is closed; Go's UnixListener removes the file at its path, whosever it is.
Close(a, s) ==
    /\ life[a] = "stopping" /\ Step(a, s, "serving", "closed")
    /\ Unlink(a, s)
    /\ UNCHANGED <<life, shut, found, orderly>>

\* The process ends, and its goroutines with it.
End(a, how) ==
    /\ life' = [life EXCEPT ![a] = how]
    /\ pc' = [pc EXCEPT ![a] = [s \in Socks |-> "idle"]]
    /\ shut' = [shut EXCEPT ![a] = "no"]
    /\ found' = [found EXCEPT ![a] = [s \in Socks |-> None]]

\* runWatchLoop returns and sup.Shutdown has waited for every group (<-g.done), or they are
\* held up by a group with a handler in what has no deadline.
Shutdown(a) ==
    /\ life[a] = "stopping" /\ shut[a] = "no"
    /\ \E to \in {"held", "done"} : shut' = [shut EXCEPT ![a] = to]
    /\ UNCHANGED <<path, pc, life, found, robbed, orderly>>

\* The user, or the SSH agent, has answered the handlers.
Answered(a) ==
    /\ life[a] = "stopping" /\ shut[a] = "held"
    /\ shut' = [shut EXCEPT ![a] = "done"]
    /\ UNCHANGED <<path, pc, life, found, robbed, orderly>>

\* wg.Wait: main has waited for both goroutines as well.
Exit(a) ==
    /\ life[a] = "stopping" /\ shut[a] = "done"
    /\ \A s \in Socks : pc[a][s] \in {"closed", "refused"}
    /\ End(a, "exited")
    /\ UNCHANGED <<path, robbed, orderly>>

\* Killed: the files stay.
Crash(a) ==
    /\ life[a] \in Running
    /\ End(a, "crashed")
    /\ NoteOrder(a)
    /\ UNCHANGED <<path, robbed>>

-----------------------------------------------------------------------------
Goroutine(a, s) ==
    Lstat(a, s) \/ Probe(a, s) \/ Remove(a, s) \/ Bind(a, s) \/ Listen(a, s) \/ Close(a, s)

Next ==
    \E a \in Agents :
        \/ Start(a) \/ Signal(a) \/ Shutdown(a) \/ Answered(a) \/ Exit(a) \/ Crash(a)
        \/ \E s \in Socks : Goroutine(a, s)

Spec == Init /\ [][Next]_vars

(***************************************************************************)
(* Fairness: an agent's goroutines run, and main goes on when what it      *)
(* waits for has come.  Nobody has to start an agent or to signal it, none *)
(* has to crash, and neither the user nor the SSH agent has to answer.     *)
(***************************************************************************)
FairSpec ==
    /\ Spec
    /\ \A a \in Agents :
          /\ WF_vars(Shutdown(a)) /\ WF_vars(Exit(a))
          /\ \A s \in Socks : WF_vars(Goroutine(a, s))

-----------------------------------------------------------------------------
\* Every variable has its type; and an agent that ends on a signal leaves no file of its
\* own behind, nor does one that was refused.
TypeOK ==
    /\ path \in [Socks -> Agents \cup {None, File}]
    /\ life \in [Agents -> Running \cup Gone]
    /\ shut \in [Agents -> {"no", "held", "done"}]
    /\ found \in [Agents -> [Socks -> Agents \cup {None}]]
    /\ \A a \in Agents, s \in Socks :
          path[s] = a => pc[a][s] \in {"listen", "serving"} \/ life[a] = "crashed"

\* No agent that already accepts connections when another probes its socket loses the
\* path to it, and no file but a socket is removed (prepareSocketPath's comment).  What
\* can be lost is a socket that was bound, or began to listen, after the other's probe;
\* and whoever lost one removes in turn, when it is stopped, the file of its successor.
\* (It takes the types along.)
LiveIsKept ==
    /\ TypeOK
    /\ \A x \in robbed :
          /\ x.victim # File
          /\ \/ x.at = "remove" /\ x.victim # x.found
             \/ x.at = "serving" /\ \E y \in robbed : y.victim = x.by /\ y.sock = x.sock

\* While no agent is started, signalled or killed before the others have bound both
\* sockets, were refused them or are gone, none is robbed, and whoever asks for the status at one
\* path hears of the agent that approves at the other (host-agent-ipc.md: "the single
\* source of truth for what the running agent is doing").
OneAgentWhenOrderly ==
    orderly => /\ robbed = {}
               /\ \A s, t \in Socks : Live(s) /\ Live(t) => path[s] = path[t]

Alone(a) == \A b \in Agents \ {a} : life[b] \in Gone

\* An agent that is left alone comes to serve both paths, whatever a crash left there,
\* short of a file that is no socket.
AloneServes ==
    \A a \in Agents :
        (life[a] = "up" /\ Alone(a) /\ \A s \in Socks : pc[a][s] = "lstat")
            ~> \/ \A s \in Socks : Live(s) /\ path[s] = a
               \/ ~Alone(a) \/ life[a] # "up"
               \/ \E s \in Socks : path[s] = File

\* A signal ends an agent, even one that comes while it is still binding and however the
\* goroutines of the two sockets overlap with the shutdown of the groups; what can hold it
\* up is a handler that waits for the user or the SSH agent, and it ends when that is through.
SignalEnds ==
    \A a \in Agents :
        life[a] = "stopping" ~> life[a] \in {"exited", "crashed"} \/ shut[a] = "held"

=============================================================================
