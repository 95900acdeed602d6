--------------------------------- MODULE Broker ---------------------------------
(***************************************************************************)
(* Credential requests through shed-host-agent: the handlers of the three  *)
(* namespaces (ssh_handler.go, aws_handler.go, docker_handler.go), the     *)
(* native approval gate (touchid_darwin.go), the AWS backend               *)
(* (aws_backend.go), the SSH and Docker backends, and the helpers in the   *)
(* guest that ask (sshagent/agent.go, awsproxy/proxy.go,                   *)
(* dockercred/helper.go).                                                  *)
(*                                                                         *)
(* Each watcher group of a server has one handler per namespace, which     *)
(* serves one message at a time; a server whose target changes has two     *)
(* groups until the cancelled one has drained (supervisor.go).  The gates, *)
(* the backends and the audit log are shared by all.  An actor is a        *)
(* request, from the guest's message to the audit entry.  The delegated    *)
(* gate is the abstract one of DelegatedGate: it approves or refuses.  The *)
(* network to the guest loses answers.                                     *)
(***************************************************************************)
EXTENDS Policy

CONSTANTS
    Reqs,           \* requests
    Servers, Sheds,
    Configs,        \* configurations the agent may be started with
    Traffic(_, _),  \* bound: the messages a request may be under a configuration
    Restarted(_),   \* bound: the servers whose targets change under a configuration
    Keys,           \* SSH keys a guest may name; "garbled" is one that does not decode
    Registries,     \* registries a guest may name, as keys of DockerBackend
    RefreshBefore,  \* stsBackend.refreshBefore
    DefaultDur,     \* the duration of NewSTSBackend when the configured one is none
    DefaultTTL,     \* the TTL of newApprovalGate when the configured one is none
    MaxClock,       \* bound: ticks of the clock
    MaxLogins,      \* bound: rewrites of the AWS credentials file
    MaxCrashes,     \* bound: crashes of the agent
    None

ASSUME BrokerAssumption ==
    /\ RefreshBefore \in Nat /\ DefaultDur \in Nat /\ DefaultTTL \in Nat
    /\ MaxClock \in Nat \ {0} /\ MaxLogins \in Nat /\ MaxCrashes \in Nat
    /\ None \notin Reqs

Docker == INSTANCE DockerBackend

VARIABLES
    cfg,        \* the configuration loaded
    clock,
    pc,         \* where a request is
    msg,        \* what it asks
    shown,      \* touchIDGate.Approve: `now`, read before the sheet appeared; 0 when none is up
    outcome,    \* ApprovalOutcome.DecidedBy, "denied", or "none"
    reply,      \* what the handler answers
    guest,      \* what the guest makes of it
    audit,      \* the audit entry's result, "none" while there is none
    sheet,      \* touchIDGate.mu: the request that holds it, or None
    last,       \* touchIDGate.lastApproval, 0 when zero
    shedOK,     \* touchIDGate.shedApprovals, 0 when absent
    cache,      \* stsBackend.cache, None when absent
    client,     \* stsBackend.clientOnce: "unbuilt", "built" or "failed"
    file,       \* the version of the AWS credentials file
    crashes,
    draining,   \* servers whose cancelled groups Reconcile waits for, after starting new ones
    late,       \* requests that handlers of those groups serve
    grant,      \* history: when a kept approval served the request
    prompts     \* history: prompts the user accepted

requestVars == <<pc, msg, outcome, reply, guest, audit, grant>>
gateVars == <<sheet, shown, last, shedOK, prompts>>
awsVars == <<cache, client>>
worldVars == <<cfg, clock, file, crashes, draining, late>>
vars == <<requestVars, gateVars, awsVars, worldVars>>

\* Mutant: state is kept by shed name alone.
serverShedKey_ShedOnly(server, shed) == <<CHOOSE s \in Servers : TRUE, shed>>

\* serverShedKey: server and shed names hold no slash, so the key is the pair.
serverShedKey(server, shed) == <<server, shed>>

Scopes == Servers \X Sheds
KeyOf(r) == serverShedKey(msg[r].server, msg[r].shed)
Gate(r) == GateFor(Policies(cfg)[msg[r].ns])
AWSPolicy(r) == ResolveAWS(cfg.aws, msg[r].server, msg[r].shed)
DockerPolicy(r) == ResolveDocker(cfg.docker, msg[r].server, msg[r].shed)

Active == {"gate", "sheet", "backend", "assume", "store", "expiry", "answer", "audit"}

\* The operations of the three namespaces.
Operations ==
    [ns: {"ssh"}, op: {"sign"}, arg: Keys] \cup [ns: {"docker"}, op: {"get"}, arg: Registries]
    \cup [ns: {"aws"}, op: {"get"}, arg: {None}]
    \cup [ns: {"ssh", "docker"}, op: {"list"}, arg: {None}]
    \cup [ns: {"ssh", "aws", "docker"}, op: {"query"}, arg: {None}]

\* What guests ask is an operation of a shed; the top level leaves nothing of Docker out,
\* since DockerConfig's AllowAll is no pointer and a nil list is an empty one.
ASSUME TrafficAssumption ==
    /\ \A r \in Reqs, c \in Configs : \A m \in Traffic(r, c) :
          /\ m.server \in Servers /\ m.shed \in Sheds
          /\ \E o \in Operations : m.ns = o.ns /\ m.op = o.op /\ m.arg = o.arg
    /\ \A c \in Configs :
          /\ DOMAIN c.docker.top = {"registries", "allowAll"}
          /\ c.docker.top.registries # Unset /\ c.docker.top.allowAll # Unset
          /\ DOMAIN c.aws.top = {"mode", "role", "dur"}

NoReply == [code |-> "none", cred |-> None, faulted |-> FALSE]
Reply(code, cred) == [code |-> code, cred |-> cred, faulted |-> FALSE]
NoMsg == [ns |-> "none", op |-> "none", arg |-> None, server |-> None, shed |-> None]

Init ==
    /\ cfg \in {c \in Configs : Starts(c)}
    /\ clock = 1 /\ file = 1 /\ crashes = 0 /\ draining = {} /\ late = {}
    /\ pc = [r \in Reqs |-> "idle"]
    /\ msg = [r \in Reqs |-> NoMsg]
    /\ grant = [r \in Reqs |-> 0]
    /\ outcome = [r \in Reqs |-> "none"]
    /\ reply = [r \in Reqs |-> NoReply]
    /\ guest = [r \in Reqs |-> "none"]
    /\ audit = [r \in Reqs |-> "none"]
    /\ sheet = None /\ shown = 0 /\ last = 0 /\ shedOK = [k \in Scopes |-> 0] /\ prompts = {}
    /\ cache = [k \in Scopes |-> None] /\ client = "unbuilt"

Move(r, from, to) ==
    /\ pc[r] = from
    /\ pc' = [pc EXCEPT ![r] = to]

-----------------------------------------------------------------------------
(* The handlers' loop *)

\* Mutant: each message is handled in a goroutine of its own.
Free_Always(server, ns, old) == TRUE

\* Run: `for env := range ch`, one loop per namespace of a group, cancelled (`old`) or not.
Free(server, ns, old) ==
    \A q \in Reqs : pc[q] \in Active /\ (q \in late <=> old) =>
        msg[q].server # server \/ msg[q].ns # ns

\* handleMessage: sign and get go through the gate, list and status do not.  A cancelled
\* loop may take what its channel still holds.
Receive(r) ==
    /\ \E m \in Traffic(r, cfg), old \in BOOLEAN :
          /\ m.ns \in Namespaces(cfg)
          /\ old => m.server \in draining
          /\ Free(m.server, m.ns, old)
          /\ msg' = [msg EXCEPT ![r] = m]
          /\ late' = IF old THEN late \cup {r} ELSE late
          /\ Move(r, "idle", IF m.op \in {"sign", "get"} THEN "gate" ELSE "backend")
    /\ guest' = [guest EXCEPT ![r] = "waiting"]
    /\ UNCHANGED <<outcome, reply, audit, grant, gateVars, awsVars, cfg, clock, file, crashes,
                   draining>>

\* The request goes on to the backend, approved by `by`.
Approve(r, by) ==
    /\ pc' = [pc EXCEPT ![r] = "backend"]
    /\ outcome' = [outcome EXCEPT ![r] = by]
    /\ UNCHANGED reply

\* "approval denied": Docker's code for it is the one of the allowlist.
Deny(r) ==
    /\ pc' = [pc EXCEPT ![r] = "answer"]
    /\ outcome' = [outcome EXCEPT ![r] = "denied"]
    /\ reply' = [reply EXCEPT ![r] = Reply(IF msg[r].ns = "docker" THEN "REGISTRY_NOT_ALLOWED"
                                           ELSE "DENIED", None)]

\* noopGate, denyAllGate, and desktopGate as DelegatedGate describes it.
Decide(r) ==
    /\ pc[r] = "gate"
    /\ \/ Gate(r) \in {"noop", "desktop"} /\ Approve(r, Gate(r))
       \/ Gate(r) \in {"denyAll", "desktop"} /\ Deny(r)
    /\ UNCHANGED <<msg, guest, audit, grant, gateVars, awsVars, worldVars>>

-----------------------------------------------------------------------------
(* touchIDGate.Approve *)

\* newApprovalGate: a TTL that does not parse is the default of four hours.
TTL == ParsedOr(cfg.ssh.ttl, DefaultTTL)
Since(t) == t # 0 /\ clock - t < TTL

\* Mutant: an approval for the session never ends.
Cached_NoTTL(r) ==
    \/ cfg.ssh.scope = "per-session" /\ last # 0
    \/ cfg.ssh.scope = "per-shed" /\ Since(shedOK[KeyOf(r)])

\* An approval kept for the configured scope; any other scope always prompts.
Cached(r) ==
    \/ cfg.ssh.scope = "per-session" /\ Since(last)
    \/ cfg.ssh.scope = "per-shed" /\ Since(shedOK[KeyOf(r)])

ServedFromCache(r) ==
    /\ pc[r] = "gate" /\ Gate(r) = "touchid" /\ sheet = None
    /\ Cached(r)
    /\ Approve(r, "policy")
    /\ grant' = [grant EXCEPT ![r] = clock]
    /\ UNCHANGED <<msg, guest, audit, gateVars, awsVars, worldVars>>

\* authenticate waits, with the lock held and without a deadline.
OpenSheet(r) ==
    /\ Move(r, "gate", "sheet")
    /\ Gate(r) = "touchid" /\ sheet = None
    /\ ~Cached(r)
    /\ sheet' = r
    /\ shown' = clock
    /\ UNCHANGED <<msg, outcome, reply, guest, audit, grant, last, shedOK, prompts, awsVars,
                   worldVars>>

\* The approval is kept for both scopes, dated when the sheet appeared.
Accept(r) ==
    /\ pc[r] = "sheet"
    /\ Approve(r, "touchid")
    /\ sheet' = None /\ shown' = 0
    /\ last' = shown
    /\ shedOK' = [shedOK EXCEPT ![KeyOf(r)] = shown]
    /\ prompts' = prompts \cup {[req |-> r, key |-> <<msg[r].server, msg[r].shed>>,
                                 shown |-> shown]}
    /\ UNCHANGED <<msg, guest, audit, grant, awsVars, worldVars>>

\* Mutant: a refusal returns with the lock held.
Refuse_KeepsLock(r) ==
    /\ pc[r] = "sheet"
    /\ Deny(r)
    /\ UNCHANGED <<msg, guest, audit, grant, gateVars, awsVars, worldVars>>

\* Denied, or no sensor.
Refuse(r) ==
    /\ pc[r] = "sheet"
    /\ Deny(r)
    /\ sheet' = None /\ shown' = 0
    /\ UNCHANGED <<msg, guest, audit, grant, last, shedOK, prompts, awsVars, worldVars>>

-----------------------------------------------------------------------------
(* The backends *)

\* The handler has its answer.
Answered(r, from, answer) ==
    /\ Move(r, from, "answer")
    /\ reply' = [reply EXCEPT ![r] = answer]

\* Ping, status and unknown operations are answered at once; none is audited.
ServeQuery(r) ==
    /\ msg[r].op = "query"
    /\ Answered(r, "backend", Reply("OK", None))
    /\ UNCHANGED <<msg, outcome, guest, audit, grant, gateVars, awsVars, worldVars>>

\* localKeysBackend lists and signs with the keys it loaded.
LocalKeys(r) == IF msg[r].op = "list" \/ msg[r].arg \in cfg.ssh.keys THEN {"OK"} ELSE {"FAILED"}

\* agentForwardBackend dials the host's agent for each request, which may fail.
HostAgent == {"OK", "FAILED"}

SSHCodes(r) ==
    IF SSHBackend(cfg.ssh.mode, cfg.sockSet, cfg.sockAnswers) = "local-keys" THEN LocalKeys(r)
    ELSE HostAgent

\* handleSign decodes the key only after the approval.
ServeSSH(r) ==
    /\ msg[r].ns = "ssh" /\ msg[r].op # "query"
    /\ \E code \in IF msg[r].arg = "garbled" THEN {"GARBLED"} ELSE SSHCodes(r) :
          Answered(r, "backend", Reply(code, IF code = "OK" THEN msg[r].arg ELSE None))
    /\ UNCHANGED <<msg, outcome, guest, audit, grant, gateVars, awsVars, worldVars>>

ServeDocker(r) ==
    /\ msg[r].ns = "docker" /\ msg[r].op # "query"
    /\ \/ /\ msg[r].op = "get"
          /\ \E a \in Docker!GetCredentials(cfg.dockerFile, DockerPolicy(r), msg[r].arg) :
                Answered(r, "backend",
                    [code |-> a.code, faulted |-> a.faulted,
                     cred |-> IF a.code = "OK" THEN {msg[r].arg} ELSE {}])
       \/ /\ msg[r].op = "list"
          /\ Answered(r, "backend",
                IF Docker!Readable(cfg.dockerFile)
                THEN Reply("OK", Docker!ListCredentials(cfg.dockerFile, DockerPolicy(r)))
                ELSE Reply("INTERNAL_ERROR", {}))
    /\ UNCHANGED <<msg, outcome, guest, audit, grant, gateVars, awsVars, worldVars>>

Passthrough(r) == AWSPolicy(r).mode = "passthrough"
Fresh(c) == c # None /\ c.exp - clock > RefreshBefore

\* stsBackend.GetCredentials up to the unlock: the cache, or on to AssumeRole.
LookUp(r) ==
    /\ msg[r].ns = "aws" /\ msg[r].op = "get"
    /\ ~Passthrough(r)
    /\ \/ /\ AWSPolicy(r).role = Unset
          /\ Answered(r, "backend", Reply("FAILED", None))
       \/ /\ AWSPolicy(r).role # Unset /\ Fresh(cache[KeyOf(r)])
          /\ Answered(r, "backend", Reply("OK", cache[KeyOf(r)]))
       \/ /\ AWSPolicy(r).role # Unset /\ ~Fresh(cache[KeyOf(r)])
          /\ Move(r, "backend", "assume")
          /\ UNCHANGED reply
    /\ UNCHANGED <<msg, outcome, guest, audit, grant, gateVars, awsVars, worldVars>>

\* NewSTSBackend: the duration of the top level, or one hour.
SessionDur == ParsedOr(cfg.aws.top.dur, DefaultDur)

\* resolveSessionDur
Duration(r) == ParsedOr(AWSPolicy(r).dur, SessionDur)

\* stsClient: built once, and the error of that attempt is kept as well.
Clients == IF client = "unbuilt" THEN {"built", "failed"} ELSE {client}

\* STS answers for the resolved role and duration, or fails.
AssumeRole(r) ==
    /\ pc[r] = "assume"
    /\ client' \in Clients
    /\ \/ /\ client' = "built"
          /\ pc' = [pc EXCEPT ![r] = "store"]
          /\ reply' = [reply EXCEPT ![r] = Reply("OK",
                [role |-> AWSPolicy(r).role, exp |-> clock + Duration(r)])]
       \/ Answered(r, "assume", Reply("FAILED", None))
    /\ UNCHANGED <<msg, outcome, guest, audit, grant, gateVars, cache, worldVars>>

StoreCredential(r) ==
    /\ Move(r, "store", "answer")
    /\ cache' = [cache EXCEPT ![KeyOf(r)] = reply[r].cred]
    /\ UNCHANGED <<msg, outcome, reply, guest, audit, grant, gateVars, client, worldVars>>

\* getPassthroughCreds: the profile is read from the file, which may lack a session
\* token, and then the file is read again for the expiry hint.
ReadProfile(r) ==
    /\ msg[r].ns = "aws" /\ msg[r].op = "get"
    /\ Passthrough(r)
    /\ \/ Answered(r, "backend", Reply("FAILED", None))
       \/ /\ Move(r, "backend", "expiry")
          /\ reply' = [reply EXCEPT ![r] = Reply("OK", [role |-> file, exp |-> 0])]
    /\ UNCHANGED <<msg, outcome, guest, audit, grant, gateVars, awsVars, worldVars>>

\* parseSessionExpiry; `exp` names the version of the file the hint comes from.
ReadExpiry(r) ==
    /\ Answered(r, "expiry", [reply[r] EXCEPT !.cred.exp = file])
    /\ UNCHANGED <<msg, outcome, guest, audit, grant, gateVars, awsVars, worldVars>>

-----------------------------------------------------------------------------
(* The answer, then the audit entry *)

Audited(r) ==
    /\ msg[r].op # "query"
    /\ reply[r].code # "GARBLED"
    /\ ~(msg[r].ns = "docker" /\ msg[r].op = "list" /\ reply[r].code # "OK")

\* What signWithFlags, HandleCredentials and runGet make of an answer.
Understood(r) ==
    IF msg[r].ns = "docker" /\ msg[r].op = "get" THEN Docker!Pull(reply[r].code)
    ELSE IF reply[r].code = "OK" THEN "credential" ELSE "aborted"

\* sendResponse: it may not arrive, or find that the guest has stopped waiting.
Respond(r) ==
    /\ Move(r, "answer", IF Audited(r) THEN "audit" ELSE "done")
    /\ \E seen \in {Understood(r), "unreachable"} : guest' = [guest EXCEPT ![r] = seen]
    /\ UNCHANGED <<msg, outcome, reply, audit, grant, gateVars, awsVars, worldVars>>

\* Mutant: the guest learns of the fault, the log does not.
Result_NoFaults(r) ==
    IF outcome[r] = "denied" THEN "denied"
    ELSE IF reply[r].code = "OK" THEN "ok" ELSE "anonymous"

\* The entry's result: "anonymous" when Docker is told there is no credential.
Result(r) ==
    IF outcome[r] = "denied" THEN "denied"
    ELSE CASE reply[r].code = "OK" -> "ok"
           [] reply[r].code = "CREDENTIALS_NOT_FOUND" -> "anonymous"
           [] OTHER -> "error"

LogEntry(r) ==
    /\ Move(r, "audit", "done")
    /\ audit' = [audit EXCEPT ![r] = Result(r)]
    /\ UNCHANGED <<msg, outcome, reply, guest, grant, gateVars, awsVars, worldVars>>

-----------------------------------------------------------------------------
(* The clock and the host *)

Tick ==
    /\ clock < MaxClock
    /\ clock' = clock + 1
    /\ UNCHANGED <<requestVars, gateVars, awsVars, cfg, file, crashes, draining, late>>

\* The SSO helper writes the credentials file anew; it matters only where some shed is
\* given the host's own credentials.
Login ==
    /\ file <= MaxLogins /\ \E l \in Layers(cfg.aws) : l.mode = "passthrough"
    /\ file' = file + 1
    /\ UNCHANGED <<requestVars, gateVars, awsVars, cfg, clock, crashes, draining, late>>

\* The agent dies and is started again: approvals and cached credentials are gone.
Crash ==
    /\ crashes < MaxCrashes
    /\ crashes' = crashes + 1
    /\ pc' = [r \in Reqs |-> IF pc[r] \in Active THEN "lost" ELSE pc[r]]
    /\ guest' = [r \in Reqs |-> IF guest[r] = "waiting" THEN "unreachable" ELSE guest[r]]
    /\ sheet' = None /\ shown' = 0 /\ last' = 0 /\ shedOK' = [k \in Scopes |-> 0] /\ prompts' = {}
    /\ cache' = [k \in Scopes |-> None] /\ client' = "unbuilt"
    /\ draining' = {} /\ late' = {}
    /\ UNCHANGED <<msg, outcome, reply, audit, grant, cfg, clock, file>>

\* Supervisor.Reconcile: the targets of some servers have changed; their groups are
\* cancelled and new ones started at once.  A cancelled handler finishes its request.
Restart(changed) ==
    /\ draining = {} /\ changed # {}
    /\ draining' = changed
    /\ late' = {r \in Reqs : pc[r] \in Active /\ msg[r].server \in changed}
    /\ UNCHANGED <<requestVars, gateVars, awsVars, cfg, clock, file, crashes>>

\* `<-g.done` for each: until then the watch loop makes no other Reconcile.
Drained ==
    /\ draining # {} /\ \A r \in late : pc[r] \notin Active
    /\ draining' = {} /\ late' = {}
    /\ UNCHANGED <<requestVars, gateVars, awsVars, cfg, clock, file, crashes>>

-----------------------------------------------------------------------------
\* What the agent does for a request without the user.
Handle(r) ==
    \/ Decide(r) \/ ServedFromCache(r) \/ OpenSheet(r)
    \/ ServeQuery(r) \/ ServeSSH(r) \/ ServeDocker(r)
    \/ LookUp(r) \/ AssumeRole(r) \/ StoreCredential(r) \/ ReadProfile(r) \/ ReadExpiry(r)
    \/ Respond(r) \/ LogEntry(r)

Next ==
    \/ \E r \in Reqs : Receive(r) \/ Handle(r) \/ Accept(r) \/ Refuse(r)
    \/ Tick \/ Login \/ Crash
    \/ \E changed \in SUBSET (Servers \cap Restarted(cfg)) : Restart(changed)
    \/ Drained

Spec == Init /\ [][Next]_vars

\* agentForwardBackend dials and asks an SSH agent that may prompt, without a deadline,
\* to sign, to list and for the key count of a status.
AtHostAgent(r) ==
    /\ pc[r] = "backend" /\ msg[r].ns = "ssh" /\ msg[r].arg # "garbled"
    /\ SSHBackend(cfg.ssh.mode, cfg.sockSet, cfg.sockAnswers) = "agent-forward"

(***************************************************************************)
(* Fairness: a handler goes on, and what it calls returns (a helper has a  *)
(* deadline, the delegated gate a timeout, AssumeRole those of the AWS     *)
(* SDK).  The user owes the sheet no answer and the host's SSH agent owes  *)
(* the handler none.                                                       *)
(***************************************************************************)
FairSpec == Spec /\ \A r \in Reqs : WF_vars(~AtHostAgent(r) /\ Handle(r))

-----------------------------------------------------------------------------
\* Every variable has its type.
TypeOK ==
    /\ cfg \in Configs /\ Starts(cfg)
    /\ clock \in 1..MaxClock /\ file \in 1..(MaxLogins + 1) /\ crashes \in 0..MaxCrashes
    /\ pc \in [Reqs -> Active \cup {"idle", "done", "lost"}]
    /\ outcome \in [Reqs -> {"none", "denied", "noop", "desktop", "policy", "touchid"}]
    /\ guest \in [Reqs -> {"none", "waiting", "credential", "anonymous", "aborted",
                           "unreachable"}]
    /\ audit \in [Reqs -> {"none", "ok", "denied", "error", "anonymous"}]
    /\ shown \in 0..MaxClock /\ grant \in [Reqs -> 0..MaxClock]
    /\ sheet \in Reqs \cup {None} /\ (sheet # None => pc[sheet] = "sheet")
    /\ last \in 0..MaxClock /\ shedOK \in [Scopes -> 0..MaxClock]
    /\ client \in {"unbuilt", "built", "failed"}
    /\ draining \subseteq Servers /\ late \subseteq Reqs

Gated(r) == msg[r].op \in {"sign", "get"}

\* What the outcome of a request says of its approval is true: "policy" rests on a
\* sheet the user accepted, in the scope the configuration names, less than the TTL
\* before; "touchid" on this request's own; and the gate is the configured one.
Rests(r) ==
    CASE outcome[r] = "noop" -> Policies(cfg)[msg[r].ns] = "approve-all"
      [] outcome[r] = "desktop" -> Policies(cfg)[msg[r].ns] = "shed-desktop"
      [] outcome[r] = "touchid" ->
            /\ msg[r].ns = "ssh" /\ cfg.ssh.policy \in Biometric
            /\ \E p \in prompts : p.req = r
      [] outcome[r] = "policy" ->
            /\ msg[r].ns = "ssh" /\ cfg.ssh.policy \in Biometric
            /\ \E p \in prompts :
                  /\ grant[r] - p.shown < TTL
                  /\ \/ cfg.ssh.scope = "per-session"
                     \/ cfg.ssh.scope = "per-shed" /\ p.key = <<msg[r].server, msg[r].shed>>
      [] OTHER -> FALSE

\* No signature and no credential leaves the host for a request that was not
\* approved as the configuration of its namespace demands (ApprovalGate's comment:
\* every request goes through a gate, and the default fails closed).
NothingUnapproved ==
    \A r \in Reqs : Gated(r) /\ reply[r].code = "OK" /\ pc[r] \in Active => Rests(r)

\* The cache is looked up and filled in two critical sections with AssumeRole between
\* them; all the same, no two requests for one shed that handlers of one group serve are
\* past the lookup together.  So an older entry overwrites a newer one only across the
\* replacement of a group, and there are never three.  (It takes the types along.)
OneAssumeRole ==
    /\ TypeOK
    /\ \A q, r \in Reqs :
          /\ pc[q] \in {"assume", "store"} /\ pc[r] \in {"assume", "store"}
          /\ KeyOf(q) = KeyOf(r) /\ (q \in late <=> r \in late)
          => q = r
    /\ \A r \in late : pc[r] \in Active => msg[r].server \in draining

\* The layers of a tree that apply to a shed, the innermost first.
Path(tree, server, shed) ==
    LET sv == tree.servers[server] IN
    IF server \notin DOMAIN tree.servers THEN <<tree.top>>
    ELSE IF shed \notin DOMAIN sv.sheds THEN <<sv.top, tree.top>>
    ELSE <<sv.sheds[shed], sv.top, tree.top>>

\* What the innermost of them that has the field says.
InForce(path, field) ==
    path[CHOOSE i \in DOMAIN path :
            path[i][field] # Unset /\ \A j \in 1..(i - 1) : path[j][field] = Unset][field]

\* A shed is given what its own configuration entitles it to, even when another server
\* has a shed of the same name (serverShedKey's comment): AWS credentials for the role it
\* resolves to, from a namespace that is served as soon as some shed has a role or the
\* host's credentials, at whatever level (Enabled's comment), and a registry, served or listed, only when, of the layers that apply to
\* it, the innermost that has a list names it in some spelling, or the innermost that has
\* the flag allows all (DockerConfig.Resolve).
OwnConfiguration ==
    /\ \A r \in Reqs : msg[r].ns = "aws" /\ reply[r].code = "OK" /\ msg[r].op = "get"
          => Passthrough(r) \/ reply[r].cred.role = AWSPolicy(r).role
    /\ \A server \in Servers, shed \in Sheds :
          LET p == ResolveAWS(cfg.aws, server, shed)
          IN p.mode = "passthrough" \/ p.role # Unset => "aws" \in Namespaces(cfg)
    /\ \A r \in Reqs : msg[r].ns = "docker" /\ msg[r].op # "query" /\ reply[r].code = "OK" =>
          LET path == Path(cfg.docker, msg[r].server, msg[r].shed)
          IN \A k \in reply[r].cred :
                \/ InForce(path, "allowAll")
                \/ k.host \in {q.host : q \in InForce(path, "registries")}

\* Docker pulls anonymously only from a registry the shed is allowed, after an
\* approval, and only when no helper is configured for it; a fault is hidden from the
\* guest in one case, that of the default store (dockercred's comment has every
\* HELPER_FAILED stay visible).
AnonymousIsNoCredential ==
    \A r \in Reqs : guest[r] = "anonymous" =>
        /\ Rests(r)
        /\ Docker!Allowed(DockerPolicy(r), msg[r].arg)
        /\ cfg.dockerFile.state = "present" => Docker!Lookup(cfg.dockerFile.helpers, msg[r].arg) = {}
        /\ reply[r].faulted => cfg.dockerFile.store # Unset

\* The audit log and the guest agree: whatever the guest was told, the entry of a
\* finished request says the same.  Without an entry are queries, requests cut by a
\* crash between the answer and the entry, and two that fail: a signature whose key
\* does not decode, though it was approved, and a registry list.
AuditAgrees ==
    \A r \in Reqs : pc[r] = "done" /\ guest[r] \in {"credential", "anonymous", "aborted"} =>
        CASE audit[r] = "ok" -> guest[r] = "credential"
          [] audit[r] = "anonymous" -> guest[r] = "anonymous"
          [] audit[r] \in {"denied", "error"} -> guest[r] = "aborted"
          [] OTHER -> \/ msg[r].op = "query"
                      \/ guest[r] = "aborted" /\ (msg[r].arg = "garbled" \/ msg[r].op = "list")

\* A signature waits for an answer to a sheet that is up, its own or another's, or for
\* one of the host's SSH agent.
WaitsForUser(r) ==
    /\ msg[r].ns = "ssh"
    /\ \/ AtHostAgent(r) \/ pc[r] = "sheet"
       \/ pc[r] = "gate" /\ \E q \in Reqs : pc[q] = "sheet"

\* Every request is answered and settled or lost in a crash, unless it is one of the SSH
\* namespace and from some point on a sheet is left open, which holds up the signatures of
\* all servers and nothing else, or the host's SSH agent leaves it without an answer.
Settles ==
    \A r \in Reqs : \/ pc[r] \in Active ~> pc[r] \in {"done", "lost"}
                    \/ <>[]WaitsForUser(r)

=============================================================================
