--------------------------------- MODULE Policy ---------------------------------
(***************************************************************************)
(* What the configuration of shed-host-agent decides (config.go,           *)
(* approval_select.go, ssh_backend.go): which configurations load, the     *)
(* gate of each namespace, and the AWS and Docker policy of a shed, where  *)
(* the overrides of a server and of a shed are layered over the top level. *)
(*                                                                         *)
(* A layer is a record of fields, and a field an override leaves out is    *)
(* Unset (an empty string, a nil list or a nil pointer).  A tree is        *)
(*   [top: layer, servers: [server -> [top: layer, sheds: [shed -> layer]]]] *)
(***************************************************************************)
EXTENDS Naturals

CONSTANTS
    Unset,        \* a field that an override, or the top level, leaves out
    Bad           \* a duration that does not parse, or is not positive where it must be

-----------------------------------------------------------------------------
(* AWSConfig.Resolve, DockerConfig.Resolve *)

\* A field that is set replaces what is inherited; it is not merged with it.
Layer(base, over) == [f \in DOMAIN base |-> IF over[f] = Unset THEN base[f] ELSE over[f]]

\* Mutant: the shed's override is looked for under every server.
Walk_AnyServer(tree, server, shed) ==
    LET holders == {s \in DOMAIN tree.servers : shed \in DOMAIN tree.servers[s].sheds}
    IN IF holders # {} THEN Layer(tree.top, tree.servers[CHOOSE s \in holders : TRUE].sheds[shed])
       ELSE tree.top

\* Top level, then the server, then the shed of that server.
Walk(tree, server, shed) ==
    IF server \notin DOMAIN tree.servers THEN tree.top
    ELSE LET sv == tree.servers[server] IN
         IF shed \in DOMAIN sv.sheds
         THEN Layer(Layer(tree.top, sv.top), sv.sheds[shed])
         ELSE Layer(tree.top, sv.top)

ResolveDocker(tree, server, shed) == Walk(tree, server, shed)

\* normalizeAWSMode comes last, so that a child may inherit passthrough.
ResolveAWS(tree, server, shed) ==
    [Walk(tree, server, shed) EXCEPT !.mode = IF @ = Unset THEN "assume-role" ELSE @]

Layers(tree) ==
    {tree.top} \cup UNION {{tree.servers[s].top} \cup
        {tree.servers[s].sheds[h] : h \in DOMAIN tree.servers[s].sheds} :
            s \in DOMAIN tree.servers}

\* Mutant: only the top level is looked at.
Enabled_TopOnly(tree) == tree.top.mode = "passthrough" \/ tree.top.role # Unset

\* AWSConfig.Enabled: some path may select passthrough or a role.
Enabled(tree) == \E l \in Layers(tree) : l.mode = "passthrough" \/ l.role # Unset

-----------------------------------------------------------------------------
(* Approval policies *)

EffectivePolicy(policy) == IF policy = Unset THEN "deny-all" ELSE policy

Biometric == {"biometrics", "biometrics-or-password"}
CredAllowed == {"deny-all", "approve-all", "shed-desktop"}
SSHAllowed == CredAllowed \cup Biometric

\* Mutant: an unknown policy is taken for approve-all.
GateFor_FailsOpen(policy) ==
    CASE EffectivePolicy(policy) \in Biometric -> "touchid"
      [] EffectivePolicy(policy) = "shed-desktop" -> "desktop"
      [] OTHER -> "noop"

\* gateFor; the approval channel always exists in the daemon.
GateFor(policy) ==
    CASE EffectivePolicy(policy) = "approve-all" -> "noop"
      [] EffectivePolicy(policy) \in Biometric -> "touchid"
      [] EffectivePolicy(policy) = "shed-desktop" -> "desktop"
      [] OTHER -> "denyAll"

\* parseDurationOr: a duration that is left out or does not parse is the default.
ParsedOr(duration, default) == IF duration \in {Unset, Bad} THEN default ELSE duration

-----------------------------------------------------------------------------
(* Loading *)

\* validatePolicy
KnownPolicy(policy, allowed) == policy = Unset \/ policy \in allowed

\* AWSConfig.validate: no removed aws.sheds, and known modes at every level.
ValidAWS(tree, removedSheds) ==
    /\ ~removedSheds
    /\ \A l \in Layers(tree) : l.mode \in {Unset, "assume-role", "passthrough"}

\* ApprovalTimeoutDuration: a positive duration, or the default.
ValidTimeout(timeout) == timeout = Unset \/ (timeout # Bad /\ timeout > 0)

Validate(cfg) ==
    /\ KnownPolicy(cfg.ssh.policy, SSHAllowed)
    /\ KnownPolicy(cfg.awsPolicy, CredAllowed) /\ KnownPolicy(cfg.dockerPolicy, CredAllowed)
    /\ ValidAWS(cfg.aws, cfg.removedSheds)
    /\ ValidTimeout(cfg.timeout)

\* ResolveSSHBackend: the mode in use, or "none" when the agent does not start.
SSHBackend(mode, sockSet, sockAnswers) ==
    CASE mode = "agent-forward" -> IF sockSet THEN mode ELSE "none"
      [] mode = "local-keys" -> mode
      [] mode = Unset -> IF sockSet /\ sockAnswers THEN "agent-forward" ELSE "local-keys"
      [] OTHER -> "none"

\* main: the agent runs when its configuration loads and it has an SSH backend.
Starts(cfg) ==
    Validate(cfg) /\ SSHBackend(cfg.ssh.mode, cfg.sockSet, cfg.sockAnswers) # "none"

\* NewDockerBackend fails when an explicit config_path is missing.
DockerServed(cfg) == cfg.dockerPath # "missing"

\* The namespaces main has a backend for.
Namespaces(cfg) ==
    {"ssh"} \cup (IF Enabled(cfg.aws) THEN {"aws"} ELSE {})
            \cup (IF DockerServed(cfg) THEN {"docker"} ELSE {})

Policies(cfg) == [ssh |-> cfg.ssh.policy, aws |-> cfg.awsPolicy, docker |-> cfg.dockerPolicy]

=============================================================================
