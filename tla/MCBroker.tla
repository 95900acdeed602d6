-------------------------------- MODULE MCBroker --------------------------------
(* Brokers for TLC: one configuration per hazard. *)
EXTENDS Broker, TLC

Key(host, form) == [host |-> host, form |-> form]
MCRegistries == {Key("hub", "url"), Key("ghcr", "bare")}

AWSLayer(mode, role, dur) == [mode |-> mode, role |-> role, dur |-> dur]
DockerLayer(registries, allowAll) == [registries |-> registries, allowAll |-> allowAll]
Server(top, sheds) == [top |-> top, sheds |-> sheds]
NoServers == [s \in {} |-> None]

NoAWS == [top |-> AWSLayer(Unset, Unset, Unset), servers |-> NoServers]
NoDocker == [top |-> DockerLayer({}, FALSE), servers |-> NoServers]
NoFile == [state |-> "absent", helpers |-> NoServers, store |-> Unset, auths |-> NoServers]

Base ==
    [ssh |-> [policy |-> Unset, scope |-> "per-session", ttl |-> Bad, mode |-> "local-keys",
              keys |-> {"k1"}],
     awsPolicy |-> Unset, dockerPolicy |-> Unset, removedSheds |-> FALSE,
     aws |-> NoAWS, docker |-> NoDocker, dockerFile |-> NoFile, dockerPath |-> "missing",
     timeout |-> Unset, sockSet |-> TRUE, sockAnswers |-> FALSE]

\* Touch ID for the session, with the default TTL, and per shed.
Session == [Base EXCEPT !.ssh.policy = "biometrics"]
PerShed == [Base EXCEPT !.ssh.policy = "biometrics-or-password", !.ssh.scope = "per-shed",
                        !.ssh.ttl = 1]
Forwarded == [Base EXCEPT !.ssh.policy = "shed-desktop", !.ssh.mode = "agent-forward"]

\* Roles layered by server and shed, and a server in passthrough mode.
Roles ==
    [Base EXCEPT !.awsPolicy = "approve-all",
        !.aws = [top |-> AWSLayer(Unset, 1, 2),
                 servers |-> "b" :> Server(AWSLayer(Unset, 2, Bad),
                                           "y" :> AWSLayer("passthrough", Unset, 1))]]
\* AWS is enabled by the role of one shed only.
OneShed ==
    [Base EXCEPT !.awsPolicy = "shed-desktop",
        !.aws = [top |-> NoAWS.top,
                 servers |-> "b" :> Server(NoAWS.top, "x" :> AWSLayer(Unset, 2, 2))]]

\* Docker: a helper, a store and inline entries; one shed has its own allowlist.
Files ==
    [state : {"present"}, helpers : {NoServers, Key("hub", "bare") :> "desktop"},
     store : {Unset, "osxkeychain"},
     auths : {NoServers, Key("hub", "v1") :> "valid" @@ Key("hub", "slash") :> "empty",
              Key("ghcr", "url") :> "undecodable"}]
    \cup {NoFile, [NoFile EXCEPT !.state = "unreadable"]}
Pulls ==
    {[Base EXCEPT !.dockerPolicy = "approve-all", !.dockerPath = "default", !.dockerFile = f,
        !.docker = [top |-> DockerLayer({Key("hub", "bare")}, FALSE),
                    servers |-> "b" :> Server(DockerLayer(Unset, Unset),
                        "x" :> DockerLayer({Key("ghcr", "url")}, Unset)
                        @@ "y" :> DockerLayer(Unset, TRUE))]] : f \in Files}

\* Configurations that do not load.
Refused ==
    {[Base EXCEPT !.awsPolicy = "biometrics", !.aws = Roles.aws],
     [Base EXCEPT !.ssh.policy = "biometric"], [Base EXCEPT !.removedSheds = TRUE],
     [Base EXCEPT !.timeout = 0], [Base EXCEPT !.aws.top.mode = "assume"],
     [Base EXCEPT !.ssh.mode = "agent"]}

Ask(ns, op, args, scopes) ==
    {[ns |-> ns, op |-> op, arg |-> a, server |-> k[1], shed |-> k[2]] : a \in args, k \in scopes}
First == CHOOSE r \in Reqs : TRUE
Twins == {<<"a", "x">>, <<"b", "x">>}
Tenants == Twins \cup {<<"b", "y">>}

\* Each configuration is asked what it is there for.
MCTraffic(r, c) ==
    CASE c.ssh.policy \in Biometric -> Ask("ssh", "sign", {"k1"}, Tenants)
      [] c.dockerPath # "missing" ->
            IF r = First
            THEN Ask("docker", "get", Registries, Tenants) \cup Ask("docker", "list", {None}, Tenants)
            ELSE Ask("docker", "query", {None}, {<<"a", "x">>})
      [] c.awsPolicy # Unset -> Ask("aws", "get", {None}, IF c = OneShed \/ r = First THEN Twins
                                                          ELSE {<<"b", "x">>, <<"b", "y">>})
      [] OTHER -> Ask("ssh", "sign", Keys, Twins) \cup Ask("ssh", "list", {None}, {<<"b", "x">>})

\* A server is given a new target where handlers of two of its groups could meet.
MCRestarted(c) == IF c \in {Roles, PerShed} THEN {"b"} ELSE {}

MCConfigs == {Base, Session, PerShed, Forwarded, Roles, OneShed} \cup Pulls \cup Refused

=============================================================================
