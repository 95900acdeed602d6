------------------------------- MODULE BrokerProofs -------------------------------
(***************************************************************************)
(* Proofs about Broker, for any number of requests, servers and sheds, any *)
(* configurations, and any number of ticks, logins, crashes and restarts   *)
(***************************************************************************)
EXTENDS Broker, TLAPS

-----------------------------------------------------------------------------
(* What the configuration decides, for every tree of layers *)

\* A layered field is the base's or the override's.
LEMMA LayerField ==
    ASSUME NEW base, NEW over, NEW f \in DOMAIN base
    PROVE  /\ DOMAIN Layer(base, over) = DOMAIN base
           /\ Layer(base, over)[f] \in {base[f], over[f]}
  BY DEF Layer

\* What a shed resolves to comes, field by field, from layers of the tree: walking the
\* three levels invents nothing (AWSConfig.Resolve, DockerConfig.Resolve).
LEMMA WalkFromLayers ==
    ASSUME NEW tree, NEW server, NEW shed, NEW f \in DOMAIN tree.top
    PROVE  /\ DOMAIN Walk(tree, server, shed) = DOMAIN tree.top
           /\ \E l \in Layers(tree) : Walk(tree, server, shed)[f] = l[f]
<1> DEFINE sv == tree.servers[server]
<1>1. CASE server \notin DOMAIN tree.servers
  BY <1>1 DEF Walk, Layers
<1>2. CASE server \in DOMAIN tree.servers /\ shed \notin DOMAIN sv.sheds
  <2>1. Walk(tree, server, shed) = Layer(tree.top, sv.top)
    BY <1>2 DEF Walk
  <2>2. tree.top \in Layers(tree) /\ sv.top \in Layers(tree)
    BY <1>2 DEF Layers
  <2>3. /\ DOMAIN Layer(tree.top, sv.top) = DOMAIN tree.top
        /\ Layer(tree.top, sv.top)[f] \in {tree.top[f], sv.top[f]}
    BY LayerField
  <2> QED
    BY <2>1, <2>2, <2>3
<1>3. CASE server \in DOMAIN tree.servers /\ shed \in DOMAIN sv.sheds
  <2>1. Walk(tree, server, shed) = Layer(Layer(tree.top, sv.top), sv.sheds[shed])
    BY <1>3 DEF Walk
  <2>2. tree.top \in Layers(tree) /\ sv.top \in Layers(tree) /\ sv.sheds[shed] \in Layers(tree)
    BY <1>3 DEF Layers
  <2>3. /\ DOMAIN Layer(tree.top, sv.top) = DOMAIN tree.top
        /\ Layer(tree.top, sv.top)[f] \in {tree.top[f], sv.top[f]}
    BY LayerField
  <2>4. /\ DOMAIN Walk(tree, server, shed) = DOMAIN tree.top
        /\ Walk(tree, server, shed)[f] \in {Layer(tree.top, sv.top)[f], sv.sheds[shed][f]}
    BY <2>1, <2>3, LayerField
  <2> QED
    BY <2>2, <2>3, <2>4
<1> QED
  BY <1>1, <1>2, <1>3

\* A shed that any path gives a role, or the host's own credentials, has them served: the
\* AWS namespace is never left out for want of a role at the top (Enabled's comment).
THEOREM EveryRoleIsServed ==
    ASSUME NEW config, {"mode", "role"} \subseteq DOMAIN config.aws.top, NEW server, NEW shed,
           LET p == ResolveAWS(config.aws, server, shed)
           IN p.mode = "passthrough" \/ p.role # Unset
    PROVE  "aws" \in Namespaces(config)
<1> DEFINE tree == config.aws
           w == Walk(tree, server, shed)
           p == ResolveAWS(tree, server, shed)
<1>1. /\ DOMAIN w = DOMAIN tree.top
      /\ \E l \in Layers(tree) : w["mode"] = l["mode"]
      /\ \E l \in Layers(tree) : w["role"] = l["role"]
  <2>1. \A f \in DOMAIN tree.top :
            DOMAIN w = DOMAIN tree.top /\ \E l \in Layers(tree) : w[f] = l[f]
    BY WalkFromLayers
  <2>2. "mode" \in DOMAIN tree.top /\ "role" \in DOMAIN tree.top
    OBVIOUS
  <2> HIDE DEF w, tree
  <2> QED
    BY <2>1, <2>2
<1>2. p = [w EXCEPT !.mode = IF w.mode = Unset THEN "assume-role" ELSE w.mode]
  BY DEF ResolveAWS
<1>3. p.role = w.role /\ p.mode = IF w.mode = Unset THEN "assume-role" ELSE w.mode
  <2> HIDE DEF w, p
  <2> QED
    BY <1>1, <1>2
<1>4. w.mode = "passthrough" \/ w.role # Unset
  BY <1>3
<1>5. Enabled(tree)
  BY <1>1, <1>4 DEF Enabled
<1> QED
  BY <1>5 DEF Namespaces

-----------------------------------------------------------------------------
(* What the backends may answer *)

\* What Docker's backend says of a registry agrees with the allowlist and the file.
LEMMA DockerAnswers ==
    ASSUME NEW f, NEW policy, NEW key, NEW a \in Docker!GetCredentials(f, policy, key)
    PROVE  /\ a.code \in {"OK", "HELPER_FAILED", "INTERNAL_ERROR", "REGISTRY_NOT_ALLOWED",
                          "CREDENTIALS_NOT_FOUND"}
           /\ a.code \in {"OK", "CREDENTIALS_NOT_FOUND"} => Docker!Allowed(policy, key)
           /\ a.code = "CREDENTIALS_NOT_FOUND" =>
                 /\ Docker!Lookup(f.helpers, key) = {}
                 /\ a.faulted => f.store # Unset
<1> DEFINE inline == Docker!Inline(f, key)
<1>1. inline \subseteq {"OK", "INTERNAL_ERROR", "CREDENTIALS_NOT_FOUND"}
  BY DEF Docker!Inline
<1>2. CASE ~Docker!Allowed(policy, key) \/ ~Docker!Readable(f)
  BY <1>2 DEF Docker!GetCredentials, Docker!Answer
<1>3. CASE Docker!Allowed(policy, key) /\ Docker!Readable(f)
  <2>1. CASE Docker!Lookup(f.helpers, key) # {}
    <3>1. a \in Docker!FromHelper(f, key)
      BY <1>3, <2>1 DEF Docker!GetCredentials
    <3> QED
      BY <1>3, <3>1 DEF Docker!FromHelper, Docker!ExecHelper, Docker!Answer
  <2>2. CASE Docker!Lookup(f.helpers, key) = {} /\ f.store # Unset
    <3>1. a \in Docker!FromStore(f, key)
      BY <1>3, <2>2 DEF Docker!GetCredentials
    <3>2. a = Docker!Answer("OK", FALSE) \/ \E c \in inline : a = Docker!Answer(c, TRUE)
      BY <3>1 DEF Docker!FromStore
    <3> QED
      BY <1>1, <1>3, <2>2, <3>2 DEF Docker!Answer
  <2>3. CASE Docker!Lookup(f.helpers, key) = {} /\ f.store = Unset
    <3>1. \E c \in inline : a = Docker!Answer(c, FALSE)
      BY <1>3, <2>3 DEF Docker!GetCredentials
    <3> QED
      BY <1>1, <1>3, <2>3, <3>1 DEF Docker!Answer
  <2> QED
    BY <2>1, <2>2, <2>3
<1> QED
  BY <1>2, <1>3

-----------------------------------------------------------------------------
(* The invariant *)

Domains == DOMAIN msg = Reqs /\ DOMAIN reply = Reqs /\ DOMAIN cache = Scopes

\* What a request asks, and where its namespace's handler takes it.
Asked(r) ==
    /\ pc[r] # "idle" =>
          /\ msg[r].ns \in Namespaces(cfg) /\ msg[r].server \in Servers /\ msg[r].shed \in Sheds
          /\ \E o \in Operations : msg[r].ns = o.ns /\ msg[r].op = o.op /\ msg[r].arg = o.arg
    /\ pc[r] \in {"gate", "sheet"} => Gated(r)
    /\ pc[r] = "sheet" => Gate(r) = "touchid"
    /\ pc[r] \in {"assume", "store"} => msg[r].ns = "aws" /\ msg[r].op = "get" /\ ~Passthrough(r)
    /\ pc[r] = "expiry" => msg[r].ns = "aws" /\ msg[r].op = "get" /\ Passthrough(r)

\* What a request is answered, from when it is known.
Replied(r) ==
    /\ pc[r] \in {"idle", "gate", "sheet", "backend", "assume"} => reply[r].code = "none"
    /\ pc[r] \in {"store", "expiry"} => reply[r].code = "OK"
    /\ reply[r].code = "GARBLED" => msg[r].ns = "ssh" /\ msg[r].arg = "garbled"
    /\ reply[r].code = "CREDENTIALS_NOT_FOUND" =>
          /\ msg[r].ns = "docker" /\ msg[r].op = "get" /\ Rests(r)
          /\ Docker!Allowed(DockerPolicy(r), msg[r].arg)
          /\ Docker!Lookup(cfg.dockerFile.helpers, msg[r].arg) = {}
          /\ reply[r].faulted => cfg.dockerFile.store # Unset
    /\ reply[r].code = "OK" /\ msg[r].ns = "aws" /\ msg[r].op = "get" /\ ~Passthrough(r) =>
          reply[r].cred.role = AWSPolicy(r).role
    /\ reply[r].code = "OK" /\ msg[r].ns = "docker" /\ msg[r].op # "query" =>
          \A k \in reply[r].cred : Docker!Allowed(DockerPolicy(r), k)

\* What its outcome rests on.
Judged(r) ==
    /\ pc[r] \in {"idle", "gate", "sheet"} => outcome[r] = "none"
    /\ outcome[r] = "denied" => reply[r].code \in {"DENIED", "REGISTRY_NOT_ALLOWED", "none"}
    /\ outcome[r] = "denied" /\ pc[r] \in Active => reply[r].code # "none"
    /\ Gated(r) /\ pc[r] \in Active \ {"gate", "sheet"} => outcome[r] = "denied" \/ Rests(r)

\* What the guest and the audit log are told.
Told(r) ==
    /\ pc[r] \in Active \ {"audit"} => guest[r] = "waiting"
    /\ pc[r] \in {"audit", "done"} => guest[r] \in {Understood(r), "unreachable"}
    /\ guest[r] = "anonymous" => reply[r].code = "CREDENTIALS_NOT_FOUND"
    /\ pc[r] = "audit" => Audited(r)
    /\ audit[r] = IF pc[r] = "done" /\ Audited(r) THEN Result(r) ELSE "none"

Course(r) == Asked(r) /\ Replied(r) /\ Judged(r) /\ Told(r)

\* A handler has one request at a time: it is told apart by its server, its namespace and
\* whether its group is a cancelled one.
OneAtATime ==
    \A q, r \in Reqs :
        q # r /\ pc[q] \in Active /\ pc[r] \in Active /\ (q \in late <=> r \in late) =>
            msg[q].server # msg[r].server \/ msg[q].ns # msg[r].ns

\* What cancelled handlers serve was asked, of a server whose group is being drained.
LateDrains ==
    \A r \in late : pc[r] # "idle" /\ (pc[r] \in Active => msg[r].server \in draining)

\* Kept approvals are dated as the sheets that the user accepted.
Approvals ==
    /\ last # 0 => \E p \in prompts : p.shown = last
    /\ \A k \in Scopes : shedOK[k] # 0 => \E p \in prompts : p.key = k /\ p.shown = shedOK[k]

\* Cached credentials are for the role the shed resolves to.
CacheOwn ==
    \A k \in Scopes : cache[k] # None =>
        cache[k].role = ResolveAWS(cfg.aws, k[1], k[2]).role

Shared == OneAtATime /\ LateDrains /\ Approvals /\ CacheOwn

BInv == TypeOK /\ Domains /\ (\A r \in Reqs : Course(r)) /\ Shared

-----------------------------------------------------------------------------
(* Steps of one request leave the others alone *)

Same(q) ==
    /\ pc'[q] = pc[q] /\ msg'[q] = msg[q] /\ outcome'[q] = outcome[q] /\ reply'[q] = reply[q]
    /\ guest'[q] = guest[q] /\ audit'[q] = audit[q] /\ grant'[q] = grant[q]

\* The world a request is in goes on.
Onward == cfg' = cfg /\ prompts \subseteq prompts'

\* What the configuration decides for a request stays decided.
LEMMA PoliciesKept ==
    ASSUME NEW q, Onward, msg'[q] = msg[q]
    PROVE  /\ Gate(q)' = Gate(q) /\ AWSPolicy(q)' = AWSPolicy(q)
           /\ DockerPolicy(q)' = DockerPolicy(q) /\ Passthrough(q)' = Passthrough(q)
           /\ Gated(q)' = Gated(q) /\ TTL' = TTL
  BY DEF Onward, Gate, AWSPolicy, DockerPolicy, Passthrough, Gated, TTL

\* An approval goes on to rest on what it rested on.
LEMMA RestsKept ==
    ASSUME NEW q, Onward, msg'[q] = msg[q], outcome'[q] = outcome[q], grant'[q] = grant[q],
           Rests(q)
    PROVE  Rests(q)'
<1>1. TTL' = TTL
  BY DEF Onward, TTL
<1> QED
  BY <1>1 DEF Rests, Onward

\* A request that takes no step keeps its course.
LEMMA CourseKept == ASSUME NEW q, Course(q), Onward, Same(q) PROVE Course(q)'
<1>1. Asked(q)'
  BY PoliciesKept DEF Course, Asked, Same, Onward
<1>2. Rests(q) => Rests(q)'
  BY RestsKept DEF Same
<1>3. Replied(q)'
  <2>1. pc'[q] = pc[q] /\ msg'[q] = msg[q] /\ reply'[q] = reply[q] /\ cfg' = cfg
    BY DEF Same, Onward
  <2>2. Passthrough(q)' = Passthrough(q) /\ DockerPolicy(q)' = DockerPolicy(q)
        /\ AWSPolicy(q)' = AWSPolicy(q)
    BY <2>1, PoliciesKept
  <2>3. Replied(q)
    BY DEF Course
  <2> QED
    BY <1>2, <2>1, <2>2, <2>3 DEF Replied, Onward
<1>4. Judged(q)'
  BY <1>2, PoliciesKept DEF Course, Judged, Same
<1>5. Told(q)'
  BY DEF Course, Told, Same, Understood, Audited, Result
<1> QED
  BY <1>1, <1>3, <1>4, <1>5 DEF Course

\* What a request asks or does.
Acts(r) == Receive(r) \/ Handle(r) \/ Accept(r) \/ Refuse(r)

\* A request's step changes its own course only.
LEMMA ActsAlone ==
    ASSUME BInv, NEW r \in Reqs, Acts(r)
    PROVE  /\ Onward /\ Domains' /\ draining' = draining /\ (~Receive(r) => late' = late)
           /\ \A q \in Reqs \ {r} : Same(q)
<1>1. /\ DOMAIN pc = Reqs /\ DOMAIN msg = Reqs /\ DOMAIN outcome = Reqs /\ DOMAIN reply = Reqs
      /\ DOMAIN guest = Reqs /\ DOMAIN audit = Reqs /\ DOMAIN grant = Reqs
      /\ DOMAIN cache = Scopes
  BY DEF BInv, TypeOK, Domains
<1> USE <1>1 DEF Onward, Domains, Same, Move, requestVars, gateVars, awsVars, worldVars
<1>2. CASE Receive(r)
  BY <1>2 DEF Receive
<1>3. CASE Decide(r) \/ ServedFromCache(r) \/ OpenSheet(r) \/ Accept(r) \/ Refuse(r)
  BY <1>3 DEF Decide, ServedFromCache, OpenSheet, Accept, Refuse, Approve, Deny
<1>4. CASE ServeQuery(r) \/ ServeSSH(r)
  BY <1>4 DEF ServeQuery, ServeSSH, Answered
<1>5. CASE ServeDocker(r)
  BY <1>5 DEF ServeDocker, Answered
<1>6. CASE LookUp(r) \/ ReadProfile(r) \/ ReadExpiry(r)
  BY <1>6 DEF LookUp, ReadProfile, ReadExpiry, Answered
<1>7. CASE AssumeRole(r) \/ StoreCredential(r)
  BY <1>7 DEF AssumeRole, StoreCredential, Answered
<1>8. CASE Respond(r) \/ LogEntry(r)
  BY <1>8 DEF Respond, LogEntry
<1> QED
  BY <1>2, <1>3, <1>4, <1>5, <1>6, <1>7, <1>8 DEF Acts, Handle

-----------------------------------------------------------------------------
(* The types *)

\* Steps at the gate.
LEMMA GateTypes ==
    ASSUME TypeOK, NEW r \in Reqs,
           Decide(r) \/ ServedFromCache(r) \/ OpenSheet(r) \/ Accept(r) \/ Refuse(r)
    PROVE  TypeOK'
<1> USE BrokerAssumption DEF TypeOK, Active, awsVars, worldVars
<1>1. CASE Decide(r)
  <2>1. /\ pc[r] = "gate" /\ \/ pc' = [pc EXCEPT ![r] = "backend"]
                             \/ pc' = [pc EXCEPT ![r] = "answer"]
        /\ \E by \in {"noop", "desktop", "denied"} : outcome' = [outcome EXCEPT ![r] = by]
        /\ UNCHANGED <<guest, audit, grant, gateVars, awsVars, worldVars>>
    <3>1. CASE Gate(r) \in {"noop", "desktop"} /\ Approve(r, Gate(r))
      BY <1>1, <3>1 DEF Decide, Approve
    <3>2. CASE Deny(r)
      BY <1>1, <3>2 DEF Decide, Deny
    <3> QED
      BY <1>1, <3>1, <3>2 DEF Decide
  <2>2. PICK to \in {"backend", "answer"}, by \in {"noop", "desktop", "denied"} :
            pc' = [pc EXCEPT ![r] = to] /\ outcome' = [outcome EXCEPT ![r] = by]
    BY <2>1
  <2>3. pc' \in [Reqs -> Active \cup {"idle", "done", "lost"}]
        /\ outcome' \in [Reqs -> {"none", "denied", "noop", "desktop", "policy", "touchid"}]
    BY <2>2
  <2>4. sheet' # None => pc'[sheet'] = "sheet"
    BY <2>1, <2>2 DEF gateVars
  <2>5. UNCHANGED <<guest, audit, grant, sheet, shown, last, shedOK, client, cfg, clock, file,
                    crashes, draining, late>>
    BY <2>1 DEF gateVars
  <2> QED
    BY <2>3, <2>4, <2>5
<1>2. CASE ServedFromCache(r)
  BY <1>2 DEF ServedFromCache, Approve, gateVars
<1>3. CASE OpenSheet(r)
  BY <1>3 DEF OpenSheet, Move
<1>4. CASE Accept(r)
  <2>1. /\ pc' = [pc EXCEPT ![r] = "backend"] /\ outcome' = [outcome EXCEPT ![r] = "touchid"]
        /\ sheet' = None /\ shown' = 0 /\ last' = shown
        /\ UNCHANGED <<guest, audit, grant, client, cfg, clock, file, crashes, draining, late>>
    BY <1>4 DEF Accept, Approve
  <2>2. shedOK' \in [Scopes -> 0..MaxClock]
    BY <1>4 DEF Accept
  <2> QED
    BY <2>1, <2>2
<1>5. CASE Refuse(r)
  BY <1>5 DEF Refuse, Deny
<1> QED
  BY <1>1, <1>2, <1>3, <1>4, <1>5

\* The guest makes one of three things of an answer.
LEMMA UnderstoodTypes ==
    ASSUME NEW r \in Reqs PROVE Understood(r) \in {"credential", "anonymous", "aborted"}
  BY DEF Understood, Docker!Pull, Docker!HelperGet

\* Steps before the gate and behind it.
LEMMA ServeTypes ==
    ASSUME TypeOK, NEW r \in Reqs, Receive(r) \/ Handle(r),
           ~(Decide(r) \/ ServedFromCache(r) \/ OpenSheet(r))
    PROVE  TypeOK'
<1> USE BrokerAssumption DEF TypeOK, Active, awsVars, worldVars, gateVars, Move, Answered
<1>1. CASE Receive(r)
  BY <1>1 DEF Receive
<1>2. CASE ServeQuery(r) \/ ServeSSH(r) \/ ServeDocker(r)
  <2>1. Move(r, "backend", "answer")
        /\ UNCHANGED <<outcome, guest, audit, grant, gateVars, awsVars, worldVars>>
    BY <1>2 DEF ServeQuery, ServeSSH, ServeDocker
  <2> QED
    BY <2>1
<1>3. CASE LookUp(r) \/ ReadProfile(r)
  <2>1. /\ Move(r, "backend", "answer") \/ Move(r, "backend", "assume")
           \/ Move(r, "backend", "expiry")
        /\ UNCHANGED <<outcome, guest, audit, grant, gateVars, awsVars, worldVars>>
    BY <1>3 DEF LookUp, ReadProfile
  <2> QED
    BY <2>1
<1>4. CASE ReadExpiry(r) \/ StoreCredential(r)
  <2>1. /\ Move(r, "expiry", "answer") \/ Move(r, "store", "answer")
        /\ UNCHANGED <<outcome, guest, audit, grant, gateVars, client, worldVars>>
    BY <1>4 DEF ReadExpiry, StoreCredential
  <2> QED
    BY <2>1
<1>5. CASE AssumeRole(r)
  <2>1. /\ pc[r] = "assume" /\ pc' = [pc EXCEPT ![r] = pc'[r]] /\ pc'[r] \in {"store", "answer"}
        /\ client' \in {"unbuilt", "built", "failed"}
        /\ UNCHANGED <<outcome, guest, audit, grant, gateVars, worldVars>>
    BY <1>5 DEF AssumeRole, Clients
  <2> QED
    BY <2>1
<1>6. CASE Respond(r)
  <2>1. /\ pc[r] = "answer" /\ pc' = [pc EXCEPT ![r] = pc'[r]] /\ pc'[r] \in {"audit", "done"}
        /\ guest' = [guest EXCEPT ![r] = guest'[r]]
        /\ guest'[r] \in {"credential", "anonymous", "aborted", "unreachable"}
        /\ UNCHANGED <<outcome, audit, grant, gateVars, awsVars, worldVars>>
    BY <1>6, UnderstoodTypes DEF Respond
  <2> QED
    BY <2>1
<1>7. CASE LogEntry(r)
  <2>1. /\ Move(r, "audit", "done") /\ audit' = [audit EXCEPT ![r] = audit'[r]]
        /\ audit'[r] \in {"ok", "denied", "error", "anonymous"}
        /\ UNCHANGED <<outcome, guest, grant, gateVars, awsVars, worldVars>>
    BY <1>7 DEF LogEntry, Result
  <2> QED
    BY <2>1
<1> QED
  BY <1>1, <1>2, <1>3, <1>4, <1>5, <1>6, <1>7 DEF Handle

\* What happens around the requests.
World ==
    \/ Tick \/ Login \/ Crash \/ Drained
    \/ \E changed \in SUBSET (Servers \cap Restarted(cfg)) : Restart(changed)

\* The clock, the credentials file, the agent's crashes and its groups.
LEMMA WorldTypes == ASSUME TypeOK, World PROVE TypeOK'
<1> USE BrokerAssumption DEF TypeOK, requestVars, gateVars, awsVars
<1>1. CASE Tick
  BY <1>1 DEF Tick
<1>2. CASE Login
  BY <1>2 DEF Login
<1>3. CASE Crash
  BY <1>3 DEF Crash, Active, Scopes
<1>4. ASSUME NEW changed \in SUBSET (Servers \cap Restarted(cfg)), Restart(changed) PROVE TypeOK'
  BY <1>4 DEF Restart
<1>5. CASE Drained
  BY <1>5 DEF Drained
<1> QED
  BY <1>1, <1>2, <1>3, <1>4, <1>5 DEF World

\* Every variable of the broker keeps its type.
THEOREM TypeCorrect == Spec => []TypeOK
<1>1. Init => TypeOK
  BY BrokerAssumption DEF Init, TypeOK, Scopes
<1>2. ASSUME TypeOK, [Next]_vars PROVE TypeOK'
  <2>1. ASSUME NEW r \in Reqs, Acts(r) PROVE TypeOK'
    BY <1>2, <2>1, GateTypes, ServeTypes DEF Acts
  <2>2. CASE UNCHANGED vars
    BY <1>2, <2>2 DEF vars, requestVars, gateVars, awsVars, worldVars, TypeOK
  <2> QED
    BY <1>2, <2>1, <2>2, WorldTypes DEF Next, Acts, World
<1> QED
  BY <1>1, <1>2, PTL DEF Spec

-----------------------------------------------------------------------------
(* A request's own steps keep its course *)

\* A message that has just come is an operation of a namespace that is served.
LEMMA ReceiveCourse == ASSUME BInv, NEW r \in Reqs, Receive(r) PROVE Course(r)'
<1>1. PICK m \in Traffic(r, cfg) :
        /\ m.ns \in Namespaces(cfg) /\ msg' = [msg EXCEPT ![r] = m]
        /\ Move(r, "idle", IF m.op \in {"sign", "get"} THEN "gate" ELSE "backend")
  BY DEF Receive
<1>2. /\ pc[r] = "idle" /\ msg'[r] = m /\ guest'[r] = "waiting"
      /\ pc'[r] = IF m.op \in {"sign", "get"} THEN "gate" ELSE "backend"
      /\ outcome'[r] = outcome[r] /\ reply'[r] = reply[r] /\ audit'[r] = audit[r] /\ cfg' = cfg
  BY <1>1 DEF Receive, Move, BInv, TypeOK, Domains, worldVars
<1>3. reply[r].code = "none" /\ outcome[r] = "none" /\ audit[r] = "none"
  BY <1>2 DEF BInv, Course, Replied, Judged, Told
<1>4. /\ m.server \in Servers /\ m.shed \in Sheds
      /\ \E o \in Operations : m.ns = o.ns /\ m.op = o.op /\ m.arg = o.arg
  BY TrafficAssumption DEF BInv, TypeOK
<1>5. Asked(r)'
  BY <1>1, <1>2, <1>4 DEF Asked, Gated
<1>6. Replied(r)'
  BY <1>2, <1>3 DEF Replied
<1>7. Judged(r)'
  BY <1>2, <1>3 DEF Judged, Gated
<1>8. Told(r)'
  BY <1>2, <1>3 DEF Told
<1> QED
  BY <1>5, <1>6, <1>7, <1>8 DEF Course

\* A gate that asks for a fingerprint is that of signatures.
LEMMA TouchIDIsForSSH ==
    ASSUME BInv, NEW r \in Reqs, pc[r] \in {"gate", "sheet"}, Gate(r) = "touchid"
    PROVE  msg[r].ns = "ssh" /\ cfg.ssh.policy \in Biometric
<1>1. msg[r].ns \in {"ssh", "aws", "docker"}
  BY DEF BInv, Course, Asked, Namespaces
<1>2. KnownPolicy(cfg.awsPolicy, CredAllowed) /\ KnownPolicy(cfg.dockerPolicy, CredAllowed)
  BY DEF BInv, TypeOK, Starts, Validate
<1>3. EffectivePolicy(Policies(cfg)[msg[r].ns]) \in Biometric
  BY DEF Gate, GateFor
<1>4. CASE msg[r].ns = "ssh"
  BY <1>3, <1>4 DEF Policies, EffectivePolicy, Biometric
<1>5. CASE msg[r].ns # "ssh"
  BY <1>1, <1>2, <1>3, <1>5 DEF Policies, EffectivePolicy, Biometric, KnownPolicy, CredAllowed
<1> QED
  BY <1>4, <1>5

\* A request that is approved in a way its configuration names.
LEMMA ApproveCourse ==
    ASSUME BInv, NEW r \in Reqs, pc[r] \in {"gate", "sheet"}, Onward,
           NEW by, Approve(r, by), by # "denied", Rests(r)', UNCHANGED <<msg, guest, audit>>
    PROVE  Course(r)'
<1>1. /\ pc'[r] = "backend" /\ outcome'[r] = by /\ reply'[r] = reply[r] /\ msg'[r] = msg[r]
      /\ guest'[r] = guest[r] /\ audit'[r] = audit[r] /\ cfg' = cfg
  BY DEF Approve, BInv, TypeOK, Onward
<1>2. reply[r].code = "none" /\ guest[r] = "waiting" /\ audit[r] = "none"
  BY DEF BInv, Course, Replied, Told, Active
<1>3. Asked(r)'
  BY <1>1 DEF BInv, Course, Asked
<1>4. Replied(r)'
  BY <1>1, <1>2 DEF Replied
<1>5. Judged(r)'
  BY <1>1, <1>2 DEF Judged
<1>6. Told(r)'
  BY <1>1, <1>2 DEF Told
<1> QED
  BY <1>3, <1>4, <1>5, <1>6 DEF Course

\* A request that is denied.
LEMMA DenyCourse ==
    ASSUME BInv, NEW r \in Reqs, pc[r] \in {"gate", "sheet"}, Onward,
           Deny(r), UNCHANGED <<msg, guest, audit>>
    PROVE  Course(r)'
<1>1. /\ pc'[r] = "answer" /\ outcome'[r] = "denied" /\ msg'[r] = msg[r]
      /\ guest'[r] = guest[r] /\ audit'[r] = audit[r] /\ cfg' = cfg
      /\ reply'[r].code \in {"DENIED", "REGISTRY_NOT_ALLOWED"}
  BY DEF Deny, BInv, TypeOK, Domains, Onward, Reply
<1>2. guest[r] = "waiting" /\ audit[r] = "none"
  BY DEF BInv, Course, Told, Active
<1>3. Asked(r)'
  BY <1>1 DEF BInv, Course, Asked
<1>4. Replied(r)'
  BY <1>1 DEF Replied
<1>5. Judged(r)'
  BY <1>1 DEF Judged
<1>6. Told(r)'
  BY <1>1, <1>2 DEF Told
<1> QED
  BY <1>3, <1>4, <1>5, <1>6 DEF Course

\* Every gate leaves a request as its outcome says.
LEMMA GateCourse ==
    ASSUME BInv, NEW r \in Reqs, Onward,
           Decide(r) \/ ServedFromCache(r) \/ OpenSheet(r) \/ Accept(r) \/ Refuse(r)
    PROVE  Course(r)'
<1>1. DOMAIN outcome = Reqs /\ DOMAIN grant = Reqs /\ cfg' = cfg
  BY DEF BInv, TypeOK, Onward
<1>2. CASE Decide(r)
  <2>1. CASE Gate(r) \in {"noop", "desktop"} /\ Approve(r, Gate(r))
    <3>1. outcome'[r] = Gate(r) /\ UNCHANGED <<msg, guest, audit>> /\ pc[r] = "gate"
      BY <1>1, <1>2, <2>1 DEF Decide, Approve
    <3>2. Policies(cfg)[msg[r].ns] = IF Gate(r) = "noop" THEN "approve-all" ELSE "shed-desktop"
      BY <2>1 DEF Gate, GateFor, EffectivePolicy
    <3>3. Rests(r)'
      BY <1>1, <2>1, <3>1, <3>2 DEF Rests
    <3> QED
      BY <2>1, <3>1, <3>3, ApproveCourse
  <2>2. CASE Deny(r)
    BY <1>2, <2>2, DenyCourse DEF Decide
  <2> QED
    BY <1>2, <2>1, <2>2 DEF Decide
<1>3. CASE ServedFromCache(r)
  <2>1. /\ pc[r] = "gate" /\ Gate(r) = "touchid" /\ Cached(r) /\ Approve(r, "policy")
        /\ UNCHANGED <<msg, guest, audit, prompts>> /\ outcome'[r] = "policy"
        /\ grant'[r] = clock
    BY <1>1, <1>3 DEF ServedFromCache, Approve, gateVars
  <2>2. msg[r].ns = "ssh" /\ cfg.ssh.policy \in Biometric
    BY <2>1, TouchIDIsForSSH
  <2>3. KeyOf(r) = <<msg[r].server, msg[r].shed>> /\ KeyOf(r) \in Scopes
    BY <2>1 DEF KeyOf, serverShedKey, Scopes, BInv, Course, Asked
  <2>4. \E p \in prompts :
            /\ clock - p.shown < TTL
            /\ \/ cfg.ssh.scope = "per-session"
               \/ cfg.ssh.scope = "per-shed" /\ p.key = <<msg[r].server, msg[r].shed>>
    BY <2>1, <2>3 DEF Cached, Since, BInv, Shared, Approvals
  <2>5. Rests(r)'
    BY <1>1, <2>1, <2>2, <2>4 DEF Rests, TTL
  <2> QED
    BY <2>1, <2>5, ApproveCourse
<1>4. CASE OpenSheet(r)
  <2>1. /\ pc[r] = "gate" /\ pc'[r] = "sheet" /\ Gate(r) = "touchid"
        /\ msg'[r] = msg[r] /\ outcome'[r] = outcome[r] /\ reply'[r] = reply[r]
        /\ guest'[r] = guest[r] /\ audit'[r] = audit[r]
    BY <1>4 DEF OpenSheet, Move, BInv, TypeOK
  <2>2. Gate(r)' = Gate(r)
    BY <2>1, PoliciesKept
  <2>3. Asked(r)'
    BY <1>1, <2>1, <2>2 DEF BInv, Course, Asked, Gated
  <2>4. reply[r].code = "none" /\ outcome[r] = "none" /\ guest[r] = "waiting" /\ audit[r] = "none"
    BY <2>1 DEF BInv, Course, Replied, Judged, Told, Active
  <2> QED
    BY <2>1, <2>3, <2>4 DEF Course, Replied, Judged, Told
<1>5. CASE Accept(r)
  <2>1. /\ pc[r] = "sheet" /\ Approve(r, "touchid") /\ UNCHANGED <<msg, guest, audit>>
        /\ outcome'[r] = "touchid"
    BY <1>1, <1>5 DEF Accept, Approve
  <2>2. \E p \in prompts' : p.req = r
    <3> DEFINE p == [req |-> r, key |-> <<msg[r].server, msg[r].shed>>, shown |-> shown]
    <3>1. p \in prompts' /\ p.req = r
      BY <1>5 DEF Accept
    <3> QED
      BY <3>1
  <2>3. msg[r].ns = "ssh" /\ cfg.ssh.policy \in Biometric
    BY <2>1, TouchIDIsForSSH DEF BInv, Course, Asked
  <2>4. Rests(r)'
    BY <1>1, <2>1, <2>2, <2>3 DEF Rests
  <2> QED
    BY <2>1, <2>4, ApproveCourse
<1>6. CASE Refuse(r)
  BY <1>6, DenyCourse DEF Refuse
<1> QED
  BY <1>2, <1>3, <1>4, <1>5, <1>6

\* An answer without a credential or with one its request is entitled to.
LEMMA AnswerCourse ==
    ASSUME BInv, NEW r \in Reqs, Onward, NEW from \in {"backend", "assume", "store", "expiry"},
           NEW answer, pc[r] = from, pc'[r] = "answer", reply'[r] = answer,
           UNCHANGED <<msg, outcome, guest, audit, grant>>, answer.code # "none",
           answer.code = "GARBLED" => msg[r].ns = "ssh" /\ msg[r].arg = "garbled",
           answer.code = "CREDENTIALS_NOT_FOUND" =>
              /\ msg[r].ns = "docker" /\ msg[r].op = "get"
              /\ Docker!Allowed(DockerPolicy(r), msg[r].arg)
              /\ Docker!Lookup(cfg.dockerFile.helpers, msg[r].arg) = {}
              /\ answer.faulted => cfg.dockerFile.store # Unset,
           answer.code = "OK" /\ msg[r].ns = "aws" /\ msg[r].op = "get" =>
              Passthrough(r) \/ answer.cred.role = AWSPolicy(r).role,
           answer.code = "OK" /\ msg[r].ns = "docker" /\ msg[r].op # "query" =>
              \A k \in answer.cred : Docker!Allowed(DockerPolicy(r), k)
    PROVE  Course(r)'
<1>1. /\ cfg' = cfg /\ Passthrough(r)' = Passthrough(r) /\ Gated(r)' = Gated(r)
      /\ AWSPolicy(r)' = AWSPolicy(r) /\ DockerPolicy(r)' = DockerPolicy(r)
  BY PoliciesKept DEF Onward
<1>2. /\ Asked(r) /\ Replied(r) /\ Judged(r) /\ Told(r) /\ from \in Active \ {"gate", "sheet"}
      /\ from \in Active \ {"audit"}
  BY DEF BInv, Course, Active
<1>3. Rests(r) => Rests(r)'
  BY RestsKept
<1>4. outcome[r] # "denied"
  <2>1. CASE from \in {"backend", "assume"}
    BY <1>2, <2>1 DEF Judged, Replied, Active
  <2>2. CASE from \in {"store", "expiry"}
    <3>1. reply[r].code = "OK"
      BY <1>2, <2>2 DEF Replied
    <3> QED
      BY <1>2, <3>1 DEF Judged
  <2> QED
    BY <2>1, <2>2
<1>5. Gated(r) => Rests(r)
  BY <1>2, <1>4 DEF Judged
<1>6. Asked(r)'
  BY <1>1, <1>2 DEF Asked
<1>7. Replied(r)'
  BY <1>1, <1>3, <1>5 DEF Replied, Gated
<1>8. Judged(r)'
  BY <1>1, <1>3, <1>4, <1>5 DEF Judged
<1>9. Told(r)'
  <2>1. guest[r] = "waiting" /\ audit[r] = "none"
    BY <1>2 DEF Told
  <2> QED
    BY <2>1 DEF Told, Active
<1> QED
  BY <1>6, <1>7, <1>8, <1>9 DEF Course

\* The backends of signatures and registries.
LEMMA ServeCourse ==
    ASSUME BInv, NEW r \in Reqs, Onward,
           ServeQuery(r) \/ ServeSSH(r) \/ ServeDocker(r)
    PROVE  Course(r)'
<1>1. DOMAIN reply = Reqs /\ DOMAIN pc = Reqs
  BY DEF BInv, TypeOK, Domains
<1>2. CASE ServeQuery(r)
  BY <1>1, <1>2, AnswerCourse DEF ServeQuery, Answered, Move, Reply
<1>3. CASE ServeSSH(r)
  <2>1. PICK code \in IF msg[r].arg = "garbled" THEN {"GARBLED"} ELSE SSHCodes(r) :
            Answered(r, "backend", Reply(code, IF code = "OK" THEN msg[r].arg ELSE None))
    BY <1>3 DEF ServeSSH
  <2>2. /\ code \in {"GARBLED", "OK", "FAILED"} /\ (code = "GARBLED" => msg[r].arg = "garbled")
        /\ msg[r].ns = "ssh" /\ UNCHANGED <<msg, outcome, guest, audit, grant>>
    BY <1>3 DEF ServeSSH, SSHCodes, LocalKeys, HostAgent
  <2>3. /\ pc[r] = "backend" /\ pc'[r] = "answer"
        /\ reply'[r] = Reply(code, IF code = "OK" THEN msg[r].arg ELSE None)
    BY <1>1, <2>1 DEF Answered, Move
  <2> QED
    BY <2>2, <2>3, AnswerCourse DEF Reply
<1>4. CASE ServeDocker(r)
  <2>1. msg[r].ns = "docker" /\ UNCHANGED <<msg, outcome, guest, audit, grant>>
    BY <1>4 DEF ServeDocker
  <2>2. CASE msg[r].op = "get"
    <3>1. PICK a \in Docker!GetCredentials(cfg.dockerFile, DockerPolicy(r), msg[r].arg) :
            Answered(r, "backend", [code |-> a.code, faulted |-> a.faulted,
                                    cred |-> IF a.code = "OK" THEN {msg[r].arg} ELSE {}])
      BY <1>4, <2>2 DEF ServeDocker
    <3> DEFINE answer == [code |-> a.code, faulted |-> a.faulted,
                          cred |-> IF a.code = "OK" THEN {msg[r].arg} ELSE {}]
    <3>2. pc[r] = "backend" /\ pc'[r] = "answer" /\ reply'[r] = answer
      BY <1>1, <3>1 DEF Answered, Move
    <3>3. /\ answer.code = a.code /\ answer.faulted = a.faulted
          /\ a.code = "OK" => answer.cred = {msg[r].arg}
      OBVIOUS
    <3> HIDE DEF answer
    <3> QED
      BY <2>1, <2>2, <3>2, <3>3, DockerAnswers, AnswerCourse
  <2>3. CASE msg[r].op = "list"
    <3> DEFINE answer == IF Docker!Readable(cfg.dockerFile)
                         THEN Reply("OK", Docker!ListCredentials(cfg.dockerFile, DockerPolicy(r)))
                         ELSE Reply("INTERNAL_ERROR", {})
    <3>1. pc[r] = "backend" /\ pc'[r] = "answer" /\ reply'[r] = answer
      BY <1>1, <1>4, <2>3 DEF ServeDocker, Answered, Move
    <3>2. /\ answer.code \in {"OK", "INTERNAL_ERROR"}
          /\ answer.code = "OK" => \A k \in answer.cred : Docker!Allowed(DockerPolicy(r), k)
      BY DEF Reply, Docker!ListCredentials
    <3> HIDE DEF answer
    <3> QED
      BY <2>1, <3>1, <3>2, AnswerCourse
  <2> QED
    BY <1>4, <2>2, <2>3 DEF ServeDocker
<1> QED
  BY <1>2, <1>3, <1>4

\* A request that goes on to another step of the AWS backend.
LEMMA AWSCourse ==
    ASSUME BInv, NEW r \in Reqs, Onward,
           LookUp(r) \/ AssumeRole(r) \/ StoreCredential(r) \/ ReadProfile(r) \/ ReadExpiry(r)
    PROVE  Course(r)'
<1>1. DOMAIN reply = Reqs /\ DOMAIN pc = Reqs
  BY DEF BInv, TypeOK, Domains
<1>2. UNCHANGED <<msg, outcome, guest, audit, grant>>
  BY DEF LookUp, AssumeRole, StoreCredential, ReadProfile, ReadExpiry
<1>3. /\ cfg' = cfg /\ Passthrough(r)' = Passthrough(r) /\ Gated(r)' = Gated(r)
      /\ AWSPolicy(r)' = AWSPolicy(r) /\ DockerPolicy(r)' = DockerPolicy(r)
  BY <1>2, PoliciesKept DEF Onward
<1>4. Asked(r) /\ Replied(r) /\ Judged(r) /\ Told(r)
  BY DEF BInv, Course
<1>5. Rests(r) => Rests(r)'
  BY <1>2, RestsKept
<1>6. CASE LookUp(r)
  <2>1. msg[r].ns = "aws" /\ msg[r].op = "get" /\ ~Passthrough(r) /\ pc[r] = "backend"
    BY <1>6 DEF LookUp, Answered, Move
  <2>2. KeyOf(r) \in Scopes /\ KeyOf(r)[1] = msg[r].server /\ KeyOf(r)[2] = msg[r].shed
    BY <1>4, <2>1 DEF KeyOf, serverShedKey, Scopes, Asked
  <2>3. CASE AWSPolicy(r).role = Unset
    BY <1>1, <1>2, <1>6, <2>1, <2>3, AnswerCourse DEF LookUp, Answered, Move, Reply
  <2>4. CASE AWSPolicy(r).role # Unset /\ Fresh(cache[KeyOf(r)])
    <3>1. cache[KeyOf(r)].role = AWSPolicy(r).role
      BY <2>2, <2>4 DEF Fresh, BInv, Shared, CacheOwn, AWSPolicy
    <3>2. pc'[r] = "answer" /\ reply'[r] = Reply("OK", cache[KeyOf(r)])
      BY <1>1, <1>6, <2>4 DEF LookUp, Answered, Move
    <3> QED
      BY <1>2, <2>1, <3>1, <3>2, AnswerCourse DEF Reply
  <2>5. CASE AWSPolicy(r).role # Unset /\ ~Fresh(cache[KeyOf(r)])
    <3>1. pc'[r] = "assume" /\ reply' = reply
      BY <1>1, <1>6, <2>5 DEF LookUp, Move
    <3>2. Asked(r)'
      BY <1>2, <1>3, <1>4, <2>1, <3>1 DEF Asked
    <3>3. Replied(r)'
      BY <1>2, <1>4, <2>1, <3>1 DEF Replied
    <3>4. Judged(r)' /\ Told(r)'
      BY <1>2, <1>3, <1>4, <1>5, <2>1, <3>1 DEF Judged, Told, Active
    <3> QED
      BY <3>2, <3>3, <3>4 DEF Course
  <2> QED
    BY <2>3, <2>4, <2>5
<1>7. CASE AssumeRole(r)
  <2>1. pc[r] = "assume" /\ msg[r].ns = "aws" /\ msg[r].op = "get" /\ ~Passthrough(r)
    BY <1>4, <1>7 DEF AssumeRole, Asked
  <2>2. CASE pc' = [pc EXCEPT ![r] = "store"]
    <3> DEFINE cred == [role |-> AWSPolicy(r).role, exp |-> clock + Duration(r)]
    <3>1. pc'[r] = "store" /\ reply'[r] = Reply("OK", cred)
      BY <1>1, <1>7, <2>2 DEF AssumeRole, Answered, Move
    <3>2. reply'[r].code = "OK" /\ reply'[r].cred.role = AWSPolicy(r).role
      BY <3>1 DEF Reply
    <3>3. Asked(r)'
      BY <1>2, <1>3, <1>4, <2>1, <3>1 DEF Asked
    <3>4. Replied(r)'
      BY <1>2, <1>3, <2>1, <3>1, <3>2 DEF Replied
    <3>5. Judged(r)' /\ Told(r)'
      BY <1>2, <1>3, <1>4, <1>5, <2>1, <3>1, <3>2 DEF Judged, Told, Active, Replied
    <3> QED
      BY <3>3, <3>4, <3>5 DEF Course
  <2>3. CASE Answered(r, "assume", Reply("FAILED", None))
    BY <1>1, <1>2, <2>1, <2>3, AnswerCourse DEF Answered, Move, Reply
  <2> QED
    BY <1>7, <2>2, <2>3 DEF AssumeRole
<1>8. CASE StoreCredential(r)
  <2>1. pc[r] = "store" /\ pc'[r] = "answer" /\ reply' = reply
    BY <1>1, <1>8 DEF StoreCredential, Move
  <2> QED
    BY <1>2, <1>4, <2>1, AnswerCourse DEF Asked, Replied
<1>9. CASE ReadProfile(r)
  <2>1. msg[r].ns = "aws" /\ msg[r].op = "get" /\ Passthrough(r) /\ pc[r] = "backend"
    BY <1>9 DEF ReadProfile, Answered, Move
  <2>2. CASE Answered(r, "backend", Reply("FAILED", None))
    BY <1>1, <1>2, <2>1, <2>2, AnswerCourse DEF Answered, Move, Reply
  <2>3. CASE ~Answered(r, "backend", Reply("FAILED", None))
    <3>1. pc'[r] = "expiry" /\ reply'[r] = Reply("OK", [role |-> file, exp |-> 0])
      BY <1>1, <1>9, <2>3 DEF ReadProfile, Move
    <3>2. reply'[r].code = "OK"
      BY <3>1 DEF Reply
    <3>3. Asked(r)'
      BY <1>2, <1>3, <1>4, <2>1, <3>1 DEF Asked
    <3>4. Replied(r)'
      BY <1>2, <1>3, <2>1, <3>1, <3>2 DEF Replied
    <3>5. Judged(r)' /\ Told(r)'
      BY <1>2, <1>3, <1>4, <1>5, <2>1, <3>1 DEF Judged, Told, Active, Replied, Reply
    <3> QED
      BY <3>3, <3>4, <3>5 DEF Course
  <2> QED
    BY <2>2, <2>3
<1>10. CASE ReadExpiry(r)
  <2>1. pc[r] = "expiry" /\ pc'[r] = "answer" /\ reply'[r] = [reply[r] EXCEPT !.cred.exp = file]
    BY <1>1, <1>10 DEF ReadExpiry, Answered, Move
  <2>2. reply[r].code = "OK"
    BY <1>4, <2>1 DEF Replied
  <2>3. reply'[r].code = "OK"
    BY <2>1, <2>2
  <2> QED
    BY <1>2, <1>4, <2>1, <2>3, AnswerCourse DEF Asked
<1> QED
  BY <1>6, <1>7, <1>8, <1>9, <1>10

\* The answer goes out and the entry is written.
LEMMA EndCourse ==
    ASSUME BInv, NEW r \in Reqs, Onward, Respond(r) \/ LogEntry(r) PROVE Course(r)'
<1>1. DOMAIN guest = Reqs /\ DOMAIN pc = Reqs /\ DOMAIN audit = Reqs
  BY DEF BInv, TypeOK
<1>2. UNCHANGED <<msg, outcome, reply, grant>>
  BY DEF Respond, LogEntry
<1>3. /\ cfg' = cfg /\ Passthrough(r)' = Passthrough(r) /\ Gated(r)' = Gated(r)
      /\ AWSPolicy(r)' = AWSPolicy(r) /\ DockerPolicy(r)' = DockerPolicy(r)
  BY <1>2, PoliciesKept DEF Onward
<1>4. Asked(r) /\ Replied(r) /\ Judged(r) /\ Told(r)
  BY DEF BInv, Course
<1>5. Rests(r) => Rests(r)'
  BY <1>2, RestsKept
<1>6. Audited(r)' = Audited(r) /\ Understood(r)' = Understood(r) /\ Result(r)' = Result(r)
  BY <1>2 DEF Audited, Understood, Result
<1>7. pc[r] \in {"answer", "audit"} /\ pc'[r] \in {"audit", "done"}
  BY <1>1 DEF Respond, LogEntry, Move
<1>8. Asked(r)'
  BY <1>2, <1>3, <1>4, <1>7 DEF Asked
<1>9. Replied(r)'
  BY <1>2, <1>3, <1>4, <1>5, <1>7 DEF Replied
<1>10. Judged(r)'
  BY <1>2, <1>3, <1>4, <1>5, <1>7 DEF Judged, Active
<1>11. Told(r)'
  <2>1. CASE Respond(r)
    <3>1. /\ pc[r] = "answer" /\ pc'[r] = (IF Audited(r) THEN "audit" ELSE "done")
          /\ guest'[r] \in {Understood(r), "unreachable"} /\ audit'[r] = audit[r]
      BY <1>1, <2>1 DEF Respond, Move
    <3>2. Understood(r) = "anonymous" => reply[r].code = "CREDENTIALS_NOT_FOUND"
      BY DEF Understood, Docker!Pull, Docker!HelperGet
    <3> QED
      BY <1>2, <1>4, <1>6, <3>1, <3>2 DEF Told, Active
  <2>2. CASE LogEntry(r)
    <3>1. pc[r] = "audit" /\ pc'[r] = "done" /\ guest' = guest /\ audit'[r] = Result(r)
      BY <1>1, <2>2 DEF LogEntry, Move
    <3> QED
      BY <1>2, <1>4, <1>6, <3>1 DEF Told, Active
  <2> QED
    BY <2>1, <2>2
<1> QED
  BY <1>8, <1>9, <1>10, <1>11 DEF Course

\* A crash loses the requests under way.
LEMMA CrashCourse == ASSUME BInv, NEW r \in Reqs, Crash PROVE Course(r)'
<1>1. UNCHANGED <<msg, outcome, reply, audit, grant, cfg, file>>
  BY DEF Crash
<1>2. /\ pc'[r] = (IF pc[r] \in Active THEN "lost" ELSE pc[r])
      /\ guest'[r] = (IF guest[r] = "waiting" THEN "unreachable" ELSE guest[r])
  BY DEF Crash
<1>3. Asked(r) /\ Replied(r) /\ Judged(r) /\ Told(r)
  BY DEF BInv, Course
<1>4. /\ Passthrough(r)' = Passthrough(r) /\ DockerPolicy(r)' = DockerPolicy(r)
      /\ AWSPolicy(r)' = AWSPolicy(r) /\ Gated(r)' = Gated(r)
  BY <1>1 DEF Passthrough, DockerPolicy, AWSPolicy, Gated
<1>5. msg[r].ns = "docker" /\ Rests(r) => Rests(r)'
  BY <1>1 DEF Rests
<1>6. Asked(r)'
  BY <1>1, <1>2, <1>3 DEF Asked, Active
<1>7. Replied(r)'
  BY <1>1, <1>2, <1>3, <1>4, <1>5 DEF Replied, Active
<1>8. Judged(r)'
  BY <1>1, <1>2, <1>3 DEF Judged, Active
<1>9. Told(r)'
  <2>1. Audited(r)' = Audited(r) /\ Understood(r)' = Understood(r) /\ Result(r)' = Result(r)
    BY <1>1 DEF Audited, Understood, Result
  <2>2. Understood(r) # "waiting"
    BY UnderstoodTypes
  <2> QED
    BY <1>1, <1>2, <1>3, <2>1, <2>2 DEF Told, Active
<1> QED
  BY <1>6, <1>7, <1>8, <1>9 DEF Course

-----------------------------------------------------------------------------
(* What requests share *)

\* A handler takes a message only when it has none.
LEMMA OneAtATimeStep ==
    ASSUME BInv, NEW r \in Reqs, Acts(r) PROVE OneAtATime' /\ LateDrains'
<1>1. \A q \in Reqs \ {r} : pc'[q] = pc[q] /\ msg'[q] = msg[q]
  BY ActsAlone DEF Same
<1>2. draining' = draining /\ late \subseteq Reqs
  BY ActsAlone DEF BInv, TypeOK
<1>3. CASE Receive(r)
  <2>1. PICK m \in Traffic(r, cfg), old \in BOOLEAN :
          /\ old => m.server \in draining
          /\ Free(m.server, m.ns, old) /\ msg' = [msg EXCEPT ![r] = m]
          /\ late' = IF old THEN late \cup {r} ELSE late
          /\ Move(r, "idle", IF m.op \in {"sign", "get"} THEN "gate" ELSE "backend")
    BY <1>3 DEF Receive
  <2>2. msg'[r] = m /\ pc[r] = "idle" /\ pc'[r] # "idle"
    BY <2>1 DEF BInv, TypeOK, Domains, Move
  <2>3. r \notin late
    BY <2>2 DEF BInv, Shared, LateDrains
  <2>4. (r \in late' <=> old) /\ \A q \in Reqs \ {r} : q \in late' <=> q \in late
    BY <2>1, <2>3
  <2>5. OneAtATime'
    BY <1>1, <2>1, <2>2, <2>4 DEF Free, OneAtATime, BInv, Shared
  <2>6. LateDrains'
    BY <1>1, <1>2, <2>1, <2>2, <2>4 DEF LateDrains, BInv, Shared
  <2> QED
    BY <2>5, <2>6
<1>4. CASE ~Receive(r)
  <2>1. msg' = msg /\ pc[r] \in Active /\ pc'[r] # "idle"
    <3>1. msg' = msg /\ pc[r] \in Active
      BY <1>4 DEF Acts, Handle, Decide, ServedFromCache, OpenSheet, ServeQuery, ServeSSH,
                  ServeDocker, LookUp, AssumeRole, StoreCredential, ReadProfile, ReadExpiry,
                  Respond, LogEntry, Accept, Refuse, Answered, Move, Active
    <3>2. pc'[r] # "idle"
      BY <1>4 DEF BInv, TypeOK, Acts, Handle, Decide, ServedFromCache, OpenSheet, ServeQuery,
                  ServeSSH, ServeDocker, LookUp, AssumeRole, StoreCredential, ReadProfile,
                  ReadExpiry, Respond, LogEntry, Accept, Refuse, Approve, Deny, Answered, Move
    <3> QED
      BY <3>1, <3>2
  <2>2. late' = late
    BY <1>4, ActsAlone
  <2> QED
    BY <1>1, <1>2, <2>1, <2>2 DEF OneAtATime, LateDrains, BInv, Shared
<1> QED
  BY <1>3, <1>4

\* Only an accepted sheet is kept as an approval.
LEMMA ApprovalsStep ==
    ASSUME BInv, NEW r \in Reqs, Acts(r) PROVE Approvals'
<1>1. CASE Accept(r)
  <2> DEFINE p == [req |-> r, key |-> <<msg[r].server, msg[r].shed>>, shown |-> shown]
  <2>1. /\ last' = shown /\ shedOK' = [shedOK EXCEPT ![KeyOf(r)] = shown]
        /\ prompts' = prompts \cup {p}
    BY <1>1 DEF Accept
  <2>2. p \in prompts' /\ p.shown = shown /\ p.key = KeyOf(r)
    BY <2>1 DEF KeyOf, serverShedKey
  <2> HIDE DEF p
  <2>3. ASSUME NEW k \in Scopes, shedOK'[k] # 0
        PROVE  \E x \in prompts' : x.key = k /\ x.shown = shedOK'[k]
    <3>1. CASE k = KeyOf(r)
      BY <2>1, <2>2, <3>1 DEF BInv, TypeOK
    <3>2. CASE k # KeyOf(r)
      BY <2>1, <2>3, <3>2 DEF BInv, TypeOK, Shared, Approvals
    <3> QED
      BY <3>1, <3>2
  <2> QED
    BY <2>1, <2>2, <2>3 DEF Approvals
<1>2. CASE ~Accept(r)
  <2>1. UNCHANGED <<last, shedOK, prompts>>
    BY <1>2 DEF Acts, Handle, Receive, Decide, ServedFromCache, OpenSheet, ServeQuery, ServeSSH,
                ServeDocker, LookUp, AssumeRole, StoreCredential, ReadProfile, ReadExpiry,
                Respond, LogEntry, Refuse, gateVars
  <2> QED
    BY <2>1 DEF Approvals, BInv, Shared
<1> QED
  BY <1>1, <1>2

\* A shed's credentials are cached under its own key.
LEMMA CacheOwnStep ==
    ASSUME BInv, NEW r \in Reqs, Acts(r) PROVE CacheOwn'
<1>1. cfg' = cfg
  BY ActsAlone DEF Onward
<1>2. CASE StoreCredential(r)
  <2>1. /\ pc[r] = "store" /\ cache' = [cache EXCEPT ![KeyOf(r)] = reply[r].cred]
    BY <1>2 DEF StoreCredential, Move
  <2>2. /\ KeyOf(r)[1] = msg[r].server /\ KeyOf(r)[2] = msg[r].shed
        /\ reply[r].cred.role = AWSPolicy(r).role
    BY <2>1 DEF KeyOf, serverShedKey, BInv, Course, Asked, Replied
  <2> QED
    BY <1>1, <2>1, <2>2 DEF CacheOwn, BInv, Shared, Domains, AWSPolicy
<1>3. CASE ~StoreCredential(r)
  <2>1. UNCHANGED cache
    BY <1>3 DEF Acts, Handle, Receive, Decide, ServedFromCache, OpenSheet, ServeQuery, ServeSSH,
                ServeDocker, LookUp, AssumeRole, ReadProfile, ReadExpiry,
                Respond, LogEntry, Accept, Refuse, awsVars
  <2> QED
    BY <1>1, <2>1 DEF CacheOwn, BInv, Shared
<1> QED
  BY <1>2, <1>3

\* A step of a request keeps the invariant.
LEMMA ActsStep == ASSUME BInv, TypeOK', NEW r \in Reqs, Acts(r) PROVE BInv'
<1>1. Onward /\ Domains' /\ \A q \in Reqs \ {r} : Same(q)
  BY ActsAlone
<1>2. ASSUME NEW q \in Reqs, q # r PROVE Course(q)'
  BY <1>1, <1>2, CourseKept DEF BInv
<1>3. Course(r)'
  BY <1>1, ReceiveCourse, GateCourse, ServeCourse, AWSCourse, EndCourse
     DEF Acts, Handle
<1>4. Shared'
  BY OneAtATimeStep, ApprovalsStep, CacheOwnStep DEF Shared
<1> QED
  BY <1>1, <1>2, <1>3, <1>4 DEF BInv

\* So do the steps of the world around it.
LEMMA WorldStep == ASSUME BInv, TypeOK', World \/ UNCHANGED vars PROVE BInv'
<1>1. CASE ~Crash
  <2>1. UNCHANGED <<requestVars, gateVars, awsVars, cfg>>
    BY <1>1 DEF World, Tick, Login, Restart, Drained, vars, worldVars
  <2>2. Onward
    BY <2>1 DEF Onward, gateVars
  <2>3. \A q \in Reqs : Same(q)
    BY <2>1 DEF Same, requestVars
  <2>4. \A q \in Reqs : Course(q)'
    BY <2>2, <2>3, CourseKept DEF BInv
  <2>5. Domains' /\ Approvals' /\ CacheOwn'
    BY <2>1 DEF BInv, Domains, Shared, Approvals, CacheOwn, requestVars, gateVars, awsVars
  <2>6. OneAtATime' /\ LateDrains'
    <3>1. UNCHANGED <<pc, msg>>
      BY <2>1 DEF requestVars
    <3>2. CASE Tick \/ Login \/ UNCHANGED vars
      <4>1. UNCHANGED <<draining, late>>
        BY <3>2 DEF Tick, Login, vars, worldVars
      <4> QED
        BY <3>1, <4>1 DEF BInv, Shared, OneAtATime, LateDrains
    <3>3. ASSUME NEW changed, Restart(changed) PROVE OneAtATime' /\ LateDrains'
      <4>1. /\ draining = {} /\ draining' = changed
            /\ late' = {r \in Reqs : pc[r] \in Active /\ msg[r].server \in changed}
        BY <3>3 DEF Restart
      <4>2. \A r \in Reqs : pc[r] \in Active => r \notin late
        BY <4>1 DEF BInv, Shared, LateDrains
      <4> QED
        BY <3>1, <4>1, <4>2 DEF BInv, Shared, OneAtATime, LateDrains, Active
    <3>4. CASE Drained
      <4>1. late' = {} /\ \A r \in late : pc[r] \notin Active
        BY <3>4 DEF Drained
      <4> QED
        BY <3>1, <4>1 DEF BInv, Shared, OneAtATime, LateDrains
    <3> QED
      BY <1>1, <3>2, <3>3, <3>4 DEF World
  <2> QED
    BY <2>4, <2>5, <2>6 DEF BInv, Shared
<1>2. CASE Crash
  <2>1. \A q \in Reqs : Course(q)'
    BY <1>2, CrashCourse
  <2>2. Domains'
    BY <1>2 DEF Crash, BInv, Domains
  <2>3. OneAtATime' /\ LateDrains'
    BY <1>2 DEF Crash, OneAtATime, LateDrains, Active
  <2>4. Approvals' /\ CacheOwn'
    BY <1>2 DEF Crash, Approvals, CacheOwn
  <2> QED
    BY <2>1, <2>2, <2>3, <2>4 DEF BInv, Shared
<1> QED
  BY <1>1, <1>2

\* Every step keeps the invariant of the broker.
THEOREM BInvariance == Spec => []BInv
<1>1. ASSUME Init, TypeOK PROVE BInv
  <2>1. Domains
    BY <1>1 DEF Init, Domains
  <2>2. ASSUME NEW r \in Reqs PROVE Course(r)
    BY <1>1, <2>2 DEF Init, Course, Asked, Replied, Judged, Told, NoReply, Active
  <2>3. Shared
    BY <1>1 DEF Init, Shared, OneAtATime, LateDrains, Approvals, CacheOwn, Active
  <2> QED
    BY <1>1, <2>1, <2>2, <2>3 DEF BInv
<1>2. ASSUME BInv, TypeOK', [Next]_vars PROVE BInv'
  BY <1>2, ActsStep, WorldStep DEF Next, Acts, World
<1> QED
  BY <1>1, <1>2, TypeCorrect, PTL DEF Spec

-----------------------------------------------------------------------------
(* What follows *)

\* No signature and no credential leaves the host without the approval that the
\* configuration of its namespace demands, whatever is asked at once (ApprovalGate).
THEOREM NothingLeavesUnapproved == Spec => []NothingUnapproved
<1>1. BInv => NothingUnapproved
  <2> SUFFICES ASSUME BInv, NEW r \in Reqs, Gated(r), reply[r].code = "OK", pc[r] \in Active
               PROVE  Rests(r)
    BY DEF NothingUnapproved
  <2>1. outcome[r] # "denied" /\ pc[r] \notin {"gate", "sheet"}
    BY DEF BInv, Course, Judged, Replied
  <2> QED
    BY <2>1 DEF BInv, Course, Judged
<1> QED
  BY <1>1, BInvariance, PTL

\* Two requests for one shed that handlers of one group serve are never past the lookup of
\* the cache together, and a second group is there only while Reconcile waits for it
\* (stsBackend.GetCredentials, the loop that feeds it, and Supervisor.Reconcile).
THEOREM CacheFilledByOne == Spec => []OneAssumeRole
<1>1. BInv => OneAssumeRole
  <2> SUFFICES ASSUME BInv, NEW q \in Reqs, NEW r \in Reqs, pc[q] \in {"assume", "store"},
                      pc[r] \in {"assume", "store"}, KeyOf(q) = KeyOf(r),
                      q \in late <=> r \in late
               PROVE  q = r
    BY DEF OneAssumeRole, BInv, Shared, LateDrains
  <2>1. msg[q].server = msg[r].server /\ msg[q].ns = msg[r].ns
    BY DEF KeyOf, serverShedKey, BInv, Course, Asked
  <2> QED
    BY <2>1 DEF BInv, Shared, OneAtATime, Active
<1> QED
  BY <1>1, BInvariance, PTL

\* Docker is told to pull anonymously only for an approved registry without a helper
\* (dockerHelperBackend.GetCredentials).
THEOREM AnonymousHasNoCredential == Spec => []AnonymousIsNoCredential
<1>1. BInv => AnonymousIsNoCredential
  BY DEF BInv, Course, Replied, Told, AnonymousIsNoCredential
<1> QED
  BY <1>1, BInvariance, PTL

\* The audit log and the guest tell the same of a finished request (logAudit).
THEOREM AuditLogAgrees == Spec => []AuditAgrees
<1>1. BInv => AuditAgrees
  <2> SUFFICES ASSUME BInv, NEW r \in Reqs, pc[r] = "done",
                      guest[r] \in {"credential", "anonymous", "aborted"}
               PROVE  CASE audit[r] = "ok" -> guest[r] = "credential"
                        [] audit[r] = "anonymous" -> guest[r] = "anonymous"
                        [] audit[r] \in {"denied", "error"} -> guest[r] = "aborted"
                        [] OTHER -> \/ msg[r].op = "query"
                                    \/ /\ guest[r] = "aborted"
                                       /\ msg[r].arg = "garbled" \/ msg[r].op = "list"
    BY DEF AuditAgrees
  <2>1. /\ guest[r] = Understood(r)
        /\ audit[r] = IF Audited(r) THEN Result(r) ELSE "none"
        /\ outcome[r] = "denied" => reply[r].code \notin {"OK", "CREDENTIALS_NOT_FOUND"}
        /\ reply[r].code = "GARBLED" => msg[r].ns = "ssh" /\ msg[r].arg = "garbled"
        /\ reply[r].code = "CREDENTIALS_NOT_FOUND" => msg[r].ns = "docker" /\ msg[r].op = "get"
    BY DEF BInv, Course, Told, Judged, Replied
  <2>2. Understood(r) = CASE reply[r].code = "OK" -> "credential"
                          [] reply[r].code = "CREDENTIALS_NOT_FOUND" -> "anonymous"
                          [] OTHER -> "aborted"
    BY <2>1 DEF Understood, Docker!Pull, Docker!HelperGet
  <2>3. CASE Audited(r)
    BY <2>1, <2>2, <2>3 DEF Result
  <2>4. CASE ~Audited(r)
    BY <2>1, <2>2, <2>4 DEF Audited
  <2> QED
    BY <2>3, <2>4
<1> QED
  BY <1>1, BInvariance, PTL

\* The i-th layer of a path is the innermost that has the field.
Speaks(path, f, i) == path[i][f] # Unset /\ \A j \in 1..(i - 1) : path[j][f] = Unset

\* The innermost layer is the one in force.
LEMMA FirstInForce ==
    ASSUME NEW path, DOMAIN path \subseteq Nat \ {0}, NEW f, NEW i \in DOMAIN path,
           Speaks(path, f, i)
    PROVE  InForce(path, f) = path[i][f]
<1>1. \A k \in DOMAIN path : Speaks(path, f, k) => k = i
  BY DEF Speaks
<1>2. (CHOOSE k \in DOMAIN path : Speaks(path, f, k)) = i
  BY <1>1
<1> QED
  BY <1>2 DEF InForce, Speaks

\* The walk from the top level inwards finds what the innermost layer with the field says.
LEMMA WalkInForce ==
    ASSUME NEW tree, NEW server, NEW shed, NEW f \in DOMAIN tree.top, tree.top[f] # Unset
    PROVE  Walk(tree, server, shed)[f] = InForce(Path(tree, server, shed), f)
<1> DEFINE sv == tree.servers[server]
           path == Path(tree, server, shed)
           found == Walk(tree, server, shed)[f]
<1>1. CASE server \notin DOMAIN tree.servers
  <2>1. path = <<tree.top>> /\ found = tree.top[f]
    BY <1>1 DEF Path, Walk
  <2>2. DOMAIN path = 1..1 /\ path[1] = tree.top
    BY <2>1
  <2> HIDE DEF path, found
  <2>3. Speaks(path, f, 1)
    BY <2>2 DEF Speaks
  <2>4. InForce(path, f) = path[1][f]
    BY <2>2, <2>3, FirstInForce
  <2> QED
    BY <2>1, <2>2, <2>4 DEF path, found
<1>2. CASE server \in DOMAIN tree.servers /\ shed \notin DOMAIN sv.sheds
  <2>1. path = <<sv.top, tree.top>> /\ Walk(tree, server, shed) = Layer(tree.top, sv.top)
    BY <1>2 DEF Path, Walk
  <2>2. DOMAIN path = 1..2 /\ path[1] = sv.top /\ path[2] = tree.top
    BY <2>1
  <2>3. found = IF path[1][f] = Unset THEN path[2][f] ELSE path[1][f]
    BY <2>1, <2>2 DEF Layer
  <2> HIDE DEF path, sv, found
  <2>4. CASE path[1][f] = Unset
    <3>1. Speaks(path, f, 2)
      BY <2>2, <2>4 DEF Speaks
    <3>2. InForce(path, f) = path[2][f]
      BY <2>2, <3>1, FirstInForce
    <3> QED
      BY <2>3, <2>4, <3>2 DEF path, found
  <2>5. CASE path[1][f] # Unset
    <3>1. Speaks(path, f, 1)
      BY <2>2, <2>5 DEF Speaks
    <3>2. InForce(path, f) = path[1][f]
      BY <2>2, <3>1, FirstInForce
    <3> QED
      BY <2>3, <2>5, <3>2 DEF path, found
  <2> QED
    BY <2>4, <2>5
<1>3. CASE server \in DOMAIN tree.servers /\ shed \in DOMAIN sv.sheds
  <2>1. /\ path = <<sv.sheds[shed], sv.top, tree.top>>
        /\ Walk(tree, server, shed) = Layer(Layer(tree.top, sv.top), sv.sheds[shed])
    BY <1>3 DEF Path, Walk
  <2>2. DOMAIN path = 1..3 /\ path[1] = sv.sheds[shed] /\ path[2] = sv.top /\ path[3] = tree.top
    BY <2>1
  <2>3. found = IF path[1][f] # Unset THEN path[1][f]
                ELSE IF path[2][f] # Unset THEN path[2][f] ELSE path[3][f]
    <3>1. /\ f \in DOMAIN Layer(tree.top, sv.top)
          /\ Layer(tree.top, sv.top)[f] = IF sv.top[f] = Unset THEN tree.top[f] ELSE sv.top[f]
      BY DEF Layer
    <3>2. found = IF sv.sheds[shed][f] = Unset THEN Layer(tree.top, sv.top)[f]
                  ELSE sv.sheds[shed][f]
      BY <2>1, <3>1 DEF Layer
    <3> QED
      BY <2>2, <3>1, <3>2
  <2> HIDE DEF path, sv, found
  <2>4. CASE path[1][f] # Unset
    <3>1. Speaks(path, f, 1)
      BY <2>2, <2>4 DEF Speaks
    <3>2. InForce(path, f) = path[1][f]
      BY <2>2, <3>1, FirstInForce
    <3> QED
      BY <2>3, <2>4, <3>2 DEF path, found
  <2>5. CASE path[1][f] = Unset /\ path[2][f] # Unset
    <3>1. Speaks(path, f, 2)
      BY <2>2, <2>5 DEF Speaks
    <3>2. InForce(path, f) = path[2][f]
      BY <2>2, <3>1, FirstInForce
    <3> QED
      BY <2>3, <2>5, <3>2 DEF path, found
  <2>6. CASE path[1][f] = Unset /\ path[2][f] = Unset
    <3>1. Speaks(path, f, 3)
      BY <2>2, <2>6 DEF Speaks
    <3>2. InForce(path, f) = path[3][f]
      BY <2>2, <3>1, FirstInForce
    <3> QED
      BY <2>3, <2>6, <3>2 DEF path, found
  <2> QED
    BY <2>4, <2>5, <2>6
<1> QED
  BY <1>1, <1>2, <1>3

\* A shed gets credentials for its own role, from a namespace that is served whatever level
\* gives the role, and registries of its own allowlist, whatever sheds of the same name
\* there are (serverShedKey, Enabled, DockerConfig.Resolve).
THEOREM EachItsOwn == Spec => []OwnConfiguration
<1>1. BInv => OwnConfiguration
  <2>1. ASSUME BInv, NEW server \in Servers, NEW shed \in Sheds,
               LET p == ResolveAWS(cfg.aws, server, shed)
               IN p.mode = "passthrough" \/ p.role # Unset
        PROVE  "aws" \in Namespaces(cfg)
    <3>1. {"mode", "role"} \subseteq DOMAIN cfg.aws.top
      BY <2>1, TrafficAssumption DEF BInv, TypeOK
    <3> QED
      BY <2>1, <3>1, EveryRoleIsServed
  <2> SUFFICES ASSUME BInv, NEW r \in Reqs, reply[r].code = "OK"
               PROVE  /\ msg[r].ns = "aws" /\ msg[r].op = "get"
                           => Passthrough(r) \/ reply[r].cred.role = AWSPolicy(r).role
                      /\ msg[r].ns = "docker" /\ msg[r].op # "query" =>
                           LET path == Path(cfg.docker, msg[r].server, msg[r].shed)
                           IN \A k \in reply[r].cred :
                                 \/ InForce(path, "allowAll")
                                 \/ k.host \in {q.host : q \in InForce(path, "registries")}
    BY <2>1 DEF OwnConfiguration
  <2>2. ASSUME msg[r].ns = "aws", msg[r].op = "get", ~Passthrough(r)
        PROVE  reply[r].cred.role = AWSPolicy(r).role
    BY <2>2 DEF BInv, Course, Replied
  <2>3. ASSUME msg[r].ns = "docker", msg[r].op # "query", NEW k \in reply[r].cred
        PROVE  LET path == Path(cfg.docker, msg[r].server, msg[r].shed)
               IN \/ InForce(path, "allowAll")
                  \/ k.host \in {q.host : q \in InForce(path, "registries")}
    <3> DEFINE path == Path(cfg.docker, msg[r].server, msg[r].shed)
    <3>1. Docker!Allowed(DockerPolicy(r), k)
      BY <2>3 DEF BInv, Course, Replied
    <3>2. /\ {"registries", "allowAll"} \subseteq DOMAIN cfg.docker.top
          /\ cfg.docker.top["registries"] # Unset /\ cfg.docker.top["allowAll"] # Unset
      BY TrafficAssumption DEF BInv, TypeOK
    <3>3. /\ DockerPolicy(r)["registries"] = InForce(path, "registries")
          /\ DockerPolicy(r)["allowAll"] = InForce(path, "allowAll")
      BY <3>2, WalkInForce DEF DockerPolicy, ResolveDocker
    <3> HIDE DEF path
    <3>4. \/ InForce(path, "allowAll")
          \/ Docker!Normalize(k) \in {Docker!Normalize(q) : q \in InForce(path, "registries")}
      BY <3>1, <3>3 DEF Docker!Allowed
    <3>5. ASSUME NEW q, Docker!Normalize(k) = Docker!Normalize(q) PROVE k.host = q.host
      BY <3>5 DEF Docker!Normalize
    <3> QED
      BY <3>4, <3>5 DEF path
  <2> QED
    BY <2>2, <2>3
<1> QED
  BY <1>1, BInvariance, PTL

-----------------------------------------------------------------------------
(* The lock of the native gate *)

\* The lock is held exactly by the request whose sheet is up: one sheet for all servers.
OneSheet == \A r \in Reqs : pc[r] = "sheet" <=> sheet = r

\* Every step takes the lock with the sheet and gives it up with it.
LEMMA OneSheetStep ==
    ASSUME BInv, OneSheet, [Next]_vars PROVE OneSheet'
<1>1. DOMAIN pc = Reqs /\ None \notin Reqs
  BY BrokerAssumption DEF BInv, TypeOK
<1>2. ASSUME NEW r \in Reqs, Acts(r) PROVE OneSheet'
  <2>1. \A q \in Reqs \ {r} : pc'[q] = pc[q]
    BY <1>2, ActsAlone DEF Same
  <2>2. CASE OpenSheet(r)
    BY <1>1, <2>1, <2>2 DEF OpenSheet, Move, OneSheet
  <2>3. CASE Accept(r) \/ Refuse(r)
    BY <1>1, <2>1, <2>3 DEF Accept, Refuse, Approve, Deny, OneSheet
  <2>4. CASE ~(OpenSheet(r) \/ Accept(r) \/ Refuse(r))
    <3>1. UNCHANGED sheet /\ pc[r] # "sheet" /\ pc'[r] # "sheet"
      <4>1. CASE Receive(r) \/ Decide(r) \/ ServedFromCache(r)
        BY <1>1, <4>1 DEF Receive, Decide, ServedFromCache, Approve, Deny, Move, gateVars
      <4>2. CASE ServeQuery(r) \/ ServeSSH(r) \/ ServeDocker(r)
        BY <1>1, <4>2 DEF ServeQuery, ServeSSH, ServeDocker, Answered, Move, gateVars
      <4>3. CASE LookUp(r) \/ ReadProfile(r) \/ ReadExpiry(r)
        BY <1>1, <4>3 DEF LookUp, ReadProfile, ReadExpiry, Answered, Move, gateVars
      <4>4. CASE AssumeRole(r) \/ StoreCredential(r) \/ Respond(r) \/ LogEntry(r)
        BY <1>1, <4>4 DEF AssumeRole, StoreCredential, Respond, LogEntry, Answered, Move, gateVars
      <4> QED
        BY <1>2, <2>4, <4>1, <4>2, <4>3, <4>4 DEF Acts, Handle
    <3> QED
      BY <2>1, <3>1 DEF OneSheet
  <2> QED
    BY <2>2, <2>3, <2>4
<1>3. ASSUME World \/ UNCHANGED vars, ~Crash PROVE OneSheet'
  BY <1>3 DEF World, Tick, Login, Restart, Drained, vars, requestVars, gateVars, OneSheet
<1>4. ASSUME Crash PROVE OneSheet'
  BY <1>1, <1>4 DEF Crash, OneSheet, Active
<1> QED
  BY <1>2, <1>3, <1>4 DEF Next, Acts, World

\* The safety core of Settles: a signature that waits for the lock waits for a sheet that
\* is up, and there is one sheet at a time for all servers; no way out of the gate, nor a
\* crash, leaves the lock behind (touchIDGate.Approve).
THEOREM LockGoesWithSheet == Spec => []OneSheet
<1>1. Init => OneSheet
  BY BrokerAssumption DEF Init, OneSheet
<1>2. BInv /\ OneSheet /\ [Next]_vars => OneSheet'
  BY OneSheetStep
<1> QED
  BY <1>1, <1>2, BInvariance, PTL DEF Spec

=============================================================================
