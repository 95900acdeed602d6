# TLA+ models of shed-extensions

This directory holds TLA+ models of the credential broker in this repository,
the TLC configurations that check them on small instances, and proofs, checked
by TLAPS, that the safety properties hold for every value of the constants.

    tlc -workers 2 -config ApprovalRefinement.cfg MCApprovalChannel.tla
    tlapm ApprovalChannelProofs.tla

`PROJECT.json` maps every definition to the lines it models, and lists the runs,
the mutants that show each property can fail, the theorems, the hazards and the
places where code and documentation disagree.

## The system

`shed-host-agent` runs on the developer's machine and brokers credentials for
development VMs ("sheds") on one or more shed servers. A shed never holds a key:
small helpers in it (`shed-ext-ssh-agent`, `shed-ext-aws-credentials`,
`docker-credential-shed`) send requests over a message bus to the agent, which
asks for approval, uses a backend, logs and answers. Besides it there is
`shed-ext-rc`, which runs remote-control sessions in tmux.

| Part | State it keeps | Operations | Interacts with |
|---|---|---|---|
| Approval channel: `desktop_server.go`, `desktop_gate.go`, `desktop_protocol.go` | the active consumer connection, the table of pending requests, a ring of recent events, all under `mu` | `handleConn` (hello, promote, replay, read loop, demote), `resolve`, `RequestApproval`, `handleTokenGet`, `forwardAudit` | called by gates; calls control tokens; subscribes to the audit log; shed-desktop at the other end of a socket |
| Credential sources: `credmint.go` | cached token and expiry, terminal error, the mint in flight, under `mu` | `Token`, `forceTokenWithExpiry`, `Invalidate`, `refresh`, `doMint` | called by bus subscriptions, egress subscribers, control tokens, a refresh loop; mints over SSH |
| Control tokens: `controltoken.go` | a credential source per server | `Token`, `sourceFor` | called by `token.get` |
| Egress subscriber: `egress_handler.go` | backoff | `Run`, `stream` | a credential source; the audit log |
| Supervisor: `supervisor.go` | table of watcher groups, `closed`, under `mu` | `Reconcile`, `Shutdown`, `Health` | called by the watch loop; starts handlers, refresh loop and egress subscriber of each server |
| Discovery and watch loop: `discovery.go`, `watcher.go`, `main.go` | watch, debounce timer | `runWatchLoop`, `computeDesired` | reads the shed CLI's configuration; drives the supervisor |
| Audit log: `audit.go` | file, subscribers | `LogEntry`, `Subscribe` | called by handlers and egress; feeds the approval channel |
| Handlers: `ssh_handler.go`, `aws_handler.go`, `docker_handler.go` | none | one request: gate, backend, audit, response | gates, backends, audit |
| Gates: `approval*.go`, `touchid_*.go` | Touch ID: approvals by scope, with expiry | `Approve` | handlers |
| Backends: `aws_backend.go`, `docker_backend.go`, `ssh_backend*.go` | AWS: cached sessions by role and shed | `GetCredentials`, `Get`, `List`, `Sign` | STS, docker helpers, keys |
| Configuration: `config.go` | none | `LoadConfig`, `Resolve*`, `Validate` | everything, at start |
| Sockets and status: `sockets.go`, `status*.go` | socket paths | bind, probe, unlink; report | a second agent, the `status` command |
| Guest helpers: `internal/awsproxy`, `internal/sshagent`, `internal/dockercred`, `cmd/*` | none | request and response | message bus |
| Remote-control sessions: `internal/rc`, `internal/clirc` | tmux sessions, the Claude configuration file | create, prompt, list, kill | tmux, other invocations |

### What is hard

- **Approval channel.** A new connection takes over from the old while requests
  are out and the old handler is still running; answers, demotion, the timeout
  and the deferred clean-up race for one pending entry and one channel; every
  lock is released before a send.
  Correct if: nothing is allowed that the app did not approve; nothing is lost;
  nobody waits for a connection that is gone; the newest connection is served.
- **Credential sources.** Many callers, one mint; tokens expire, are rejected, or
  are revoked by a restart the agent is not told of; a host-key mismatch is final.
  Correct if: one mint at a time; a rejected or revoked token is not served
  again; every caller returns and every stream gets back to work.
- **Supervisor and discovery.** Reconciles, exits and a shutdown overlap; the
  source is read while others write it, and half an entry may parse; a watch is set
  up after the first read and may lose events; the one goroutine that reconciles
  waits for handlers, some of which wait for a user.
  Correct if: no group is lost or left running; what runs is what the source
  lists; a server that did not change is not restarted.
- **Audit feed.** A ring is replayed to a new connection while new events are sent
  to it; slow subscribers lose events; a write may fail half-way.
  Correct if: no event falls between the replay and the live feed.
- **Requests through the broker.** Handlers of several servers, and of two groups of
  one server while it is replaced, share gates, caches, a file that others rewrite,
  and a sheet that waits for the user; configuration is layered over servers and
  sheds; an answer may be lost, and a crash may come between an answer and its audit
  entry.
  Correct if: nothing leaves without the approval configured; a shed gets what its
  own configuration entitles it to; log and guest agree; every request settles.
- **Socket binding.** Agents probe, remove and bind the same two paths.
  Correct if: nobody takes a live agent's clients away; a crash is recovered from.
- **Remote-control sessions.** Commands are processes that look at a tmux session and
  then type into whatever its name finds by then, be it a session created anew or one
  whose name merely begins so; they share one paste buffer, and rewrite a file that
  Claude rewrites too. What they see is text on a screen: a dialog may have the
  keyboard, and a key may be dropped.
  Correct if: text goes where the checks were made; exit codes tell the truth; no
  dialog is declined; concurrent rewrites keep each other's entries.

`PROJECT.json` lists these one by one under `hazards`, each at its line.

## The modules

### ApprovalChannel, DelegatedGate

`DelegatedGate` is the promise: a request is put to at most one connection, gets
one verdict, is allowed only by an approving answer to it on that connection,
and may be denied at any time. `ApprovalChannel` is the code, and
`GateRefined` says that it implements the promise with `asked <- to` and
`answers <- said`.

| Code | Model |
|---|---|
| `DesktopServer.consumer`, `pending` | `consumer`, `pending` (the owner of each entry) |
| program counter and locals of `handleConn` | `hpc`, `old` (in `promote`), `claim` (what `resolve` holds between unlock and send) |
| program counter and locals of `RequestApproval` and `desktopGate.Approve` | `rpc`, `to`, `dec`, then `verdict`, `decidedBy` |
| the channel of capacity one in a pending entry | `ch`, a set with at most one member |
| the socket | `agentEnd`, `appEnd`, `inbox`, `got` |
| critical section of `promote`, `resolve`, `demote`, of registration, of the deferred delete | `Promote`, `Resolve`, `Demote`, `Register`/`NoConsumer`, `Return` |
| send, close or channel operation outside the lock | `SendHelloAck`, `Supersede`, `Deliver`, `SendRequest`, `Receive`, `Close` |
| the three ways the read loop ends | `ScanEnds`, `LineTooLong` |

The app may answer anything it has seen, on any of its connections and as often
as it likes. A write may fail at any time. `expires_at`, scope and TTL of a
decision, pings and audit events do not influence these variables; they are left
out. The agent's context is not in the model because `RequestApproval` is called
with `context.Background()` and the handlers do not look at theirs.

### CredentialSource

One source with any mix of its callers: `Streams` (a loop that asks for a token,
connects and invalidates on 401), `Asks` (`token.get`, which forces a mint) and
the refresh loop. The three sources of the code are instances of it: the bus
source has streams and the refresh loop, an egress source one stream, a control
source only asks. A token is named by its mint; `mepoch` is the server's epoch
the token was minted in, and a restart makes every earlier token bad. The SSH
exchange ends in a token, a passing error or a host-key mismatch. Time is the
action `ComesNear`. `bad`, `shut`, `joined`, `asked` and `rejected` are history:
what was true when the caller entered the critical section, which is what the
properties compare the result with.

### AuditFeed

From `LogEntry` over the bounded subscription to `forwardAudit`, the ring, and
`replay` on a new connection. `queue` is the subscription's channel, `fpc`,
`hand` and `target` are `forwardAudit`'s position and locals, `hpc`, `old`, `want`
and `evs` a handler's, from its promotion on (the handshake and the approvals of
the same connection are in `ApprovalChannel`). Entries are numbered as they are
logged. `got` is what the app can read: a write that meets its deadline may leave
part of a frame behind (`torn`), and the next frame is glued to it and lost, be it
an event, a ping or a request (`OtherFrame`). `forwarded`, `upto` and `failed`
are history. Cancelling the context and the return of `Listen` that follows are
one action.

### Supervisor, DiscoveryWatch

A group is a name and a generation; `gstate` tells whether its goroutines run,
have been cancelled or have exited. `Reconcile` and `Shutdown` are one action for
the critical section and one for the return after every cancelled group is done.
`DiscoveryWatch` extends `Supervisor` with the watch loop, its modes, the
debounce timer, and a source that others rewrite. Its `Apply`, `Applied`, `Stop` and
`Stopped` contain the supervisor's own actions, so that module composes the two.

| Code, or its surroundings | Model |
|---|---|
| `LoadDiscoveredServers`, `ResolveTargets`, the selector, entries without a host | `Read` over `file`; `Torn` is what does not parse. A missing file, an empty one and one with no servers read alike |
| a write by rename | `Rename` |
| a write in place | `BeginWrite`, `WriteOn`, `EndWrite`; a read in between finds `Torn` or a `Partial` version: any of its entries, and at most one of them cut short. YAML cut at a line's end parses, so a cut entry is one without a host or a target that `Cut` tells is left of the whole one, without port, `api_url`, fingerprint or token |
| fsnotify's event, debounce | `event`, `timer`; with `Overflows` an event may be lost (`watcher.go:96-100` logs the error and reads nothing) |
| a handler in the Touch ID sheet or at the host's SSH agent, which end with no deadline nor context | `Block`, `Unblock`; a group of `blocked` does not exit, and `drain` waits for it |

`written`, `inplace`, `listed` and `missed` are history: the versions there were, those
written in place, what each server was listed as whenever the source parsed, and
whether the loop was told nothing of the last change.

### Policy, DockerBackend, Broker

`Policy` and `DockerBackend` hold no state: they are the decisions of `config.go`,
`approval_select.go`, `main.go` and `docker_backend.go` as operators over
configurations, which are records with `Unset` for what is left out. `Broker`
extends the one and instantiates the other. An actor is a request; `msg`, `reply`,
`guest` and `audit` are what it asks, what the handler answers, what the helper in
the guest makes of that, and the result in the audit entry.

| Code | Model |
|---|---|
| `Run` loops: one message at a time per namespace of a group | `Free`, `Receive` |
| `Supervisor.Reconcile`: new groups start, then the cancelled ones are waited for | `Restart`, `Drained`; `late` are the requests that loops of the cancelled group serve or still take from their channels, beside its successor's |
| `Approve` of the constant and the delegated gate | `Approve`, `Deny` (the delegated gate is `DelegatedGate`'s promise) |
| `touchIDGate`: `mu`, `lastApproval`, `shedApprovals`, the `now` read before the prompt | `sheet`, `last`, `shedOK`, `shown`; `ServedFromCache`, `OpenSheet`, `Accept`, `Refuse` |
| `stsBackend`: `cache`, `clientOnce` | `cache`, `client`; `LookUp`, `AssumeRole` and `StoreCredential`, which are two critical sections with a call in between |
| `getPassthroughCreds`, which reads the credentials file twice, the keys first | `ReadProfile`, `ReadExpiry`, with `Login` in between |
| `GetCredentials`, `ListCredentials` of the Docker backend, a helper's outcome | `ServeDocker` over `DockerBackend` |
| the two SSH backends | `LocalKeys`, `HostAgent`, `ServeSSH`; `AtHostAgent` is a request at the host's agent, which has no deadline |
| the answer, then the audit entry | `Respond`, `LogEntry`; `Crash` may fall between them |

`grant` and `prompts` are history: when a kept approval served a request, and which
prompts the user accepted.

### RcSession

A command is a process; every call of tmux is a step and may fail. A session is named
by the command that created it, which stands for its UUID; `live` says which session
has a slug, `pane` what it shows. `pc` runs through `Create` with `waitUntilReady`,
`Prompt`, `AcceptTrust` and `Kill`.

| Code, or its surroundings | Model |
|---|---|
| `tmux -t rc-<slug>` without `=`: the session of that name, or else the only one whose name begins so | `At` over `live` and `Longer`; `new-session` takes the name as it is |
| `capture-pane` with 200 lines of history | `Captures`: what the pane shows, and any of what it showed before (the URL, dialogs that were answered) |
| `ClassifyPane`, `IsBypassAcceptPrompt` | `ClassifyPane` over what was captured: a URL anywhere is `ready`, whatever has the keyboard |
| `loadSession`, first the pane and then the environment | `Capture` (`looked`, `screen`), `Check` |
| `acceptBypassPrompt` and its retry | `Down`, `DownEnter`, `accepted`; a second Down may wrap round (`bypass1`) or not |
| `sendLine`, `sendBlock` | `SendKeys`, `SetBuffer`, `PasteBuffer`, `Enter`; `buffer` is the one paste buffer, `line` and `sent` what was typed and submitted |
| an Enter in a pane | `Submits`, `Answers` (a dialog takes it), `Ends` (`No, exit`), `Ignored` (nothing takes it, also a REPL that ingests the text) |
| Claude's screens | `Show` for those of its start; `Interrupted` for a dialog over a session that is up, and a broker that reconnects |
| `PreseedClaudeConfig` | `PreseedRead`, `PreseedWrite`, `PreseedFails`; `file`, `lock` and `copy` are `.claude.json`, the flock beside it and what was read |

Claude's dialogs and its own rewriting of the file, and cut connections, are external.
`typed`, `ended`, `missed`, `dropped` and `late` are history: texts typed and where,
sessions ended and how, commands whose Enter Claude dropped or a later dialog took,
entries of the file that were lost, and prompts for a session that was over when they
were given.

### AgentSockets

An agent is a run of the program with one goroutine per socket (`pc`), and each call
to the operating system (`lstat`, dial, remove, bind, listen, close) is a step.
`path` holds the agent whose socket file is there, running or not. That bind and
listen are two steps matters: in between a probe finds the socket stale. `found`,
`robbed` and `orderly` are history: who was serving when an agent probed, whose file
an agent removed, and whether no agent came or went while another was under way. On a
signal the sockets close while `main` is in the watch loop's return and the
supervisor's `Shutdown`, which a blocked handler may hold up (`Shutdown`, `Answered`,
`shut`); only then does it wait for the sockets (`Exit`).

### MC modules

`MCApprovalChannel`, `MCAuditFeed`, `MCSupervisor` and `MCRcSession` add symmetry sets;
`MCDiscoveryWatch` defines the versions the source is given (`All`, and `Kept` with a
server listed alike in each) and what is left of a cut entry (`HostAlone`),
`MCRcSession` what commands are asked, in three scenarios (`Creates`, `Prompts`,
`Trusts`), and that one slug is the beginning of another,
`MCBroker` the configurations and, for each, the requests it is
there for and the server that is given a new target. `MCCredentialSource` and
`MCAgentSockets` only stand beside their modules so that instances stay out of them.
Symmetry is used only in runs without liveness.

## The runs

| Run | Question | Bounds |
|---|---|---|
| `ApprovalRefinement` | `GateRefined`, `ApproveIsAnswered` (with the decider named), `NoDecisionLost`, `NobodyForgotten` (with `PendingOwnerLive`), `NewestIsConsumer`, `HandshakeFirst`, `AbandonedRequestSettles` | 2 connections, 1 request, 1 unread answer per connection, 2 values of `decided_by` |
| `ApprovalAttribution` (violation) | is a decider named only when somebody decided? | 2 connections, 1 request |
| `AuditFeed` | `CaughtUp`, `InOrderAfterReplay` | 2 connections, 3 entries, channel of 2, ring of 2, replays of 1 and 3, 1 failed write |
| `CredentialCallers` | `SingleFlight`, `TerminalFailsClosed`, `RejectedNotServed`, `ForceIsFresh`, `StaleOnlyByJoin`, `AskReturns` | 1 stream, 1 ask, 3 mints, 1 restart, 1 failure, 1 expiry, 1 refresh |
| `CredentialRecovery` | `StreamRecovers` | 2 streams, 8 mints, 1 restart, 1 failure, 1 expiry |
| `SupervisorConcurrent` | `RunningIsInTable`, `CancelledIsAwaited`, `NothingAfterShutdown` | 3 callers, 2 servers, 2 targets, 3 generations each |
| `DiscoveryServers` | `OnlyListed`, `ErrorsKeepServers`, `ConvergesOnceWatched`, `StopsClean` | all modes, 3 servers of which 2 are selected, 2 versions, cut entries, 2 writes or parts of one, lost events, 1 blocked handler, 5 generations |
| `DiscoveryLostWindow` (violation) | does fsnotify always converge? (`Converges`) | 1 write |
| `DiscoveryTornRead` (violation) | does a read in the middle of a write keep the servers? (`NeverDropped`) | 1 write |
| `Broker` | `NothingUnapproved`, `OwnConfiguration`, `OneAssumeRole`, `AnonymousIsNoCredential`, `AuditAgrees`, `Settles` | 2 requests, 2 servers with sheds of one name, 1 configuration per hazard (and 6 that do not load), groups replaced where roles are served, clock to 3, 1 login, 1 crash |
| `RcSession` | `TypedWhereChecked`, `BypassNotRefused`, `PromptTold`, `PreseedsMerge` | 3 commands, 2 pairs of slugs, of each one the beginning of the other, 1 session that is there, 2 directories, 2 rewrites by Claude, 1 scenario at a time: creates that wait, with accept and kill; prompts with and without an id, with creates and kills; creates that only write the file |
| `AgentSockets` | `LiveIsKept`, `OneAgentWhenOrderly`, `AloneServes`, `SignalEnds` | 2 agents, 2 sockets |

The type invariants are part of the runs: `TypeOK` is checked on its own where it is
proved too, and as a conjunct of another invariant elsewhere (`InOrderAfterReplay`;
`OnlyListed`, which covers `SupTypeOK`; `OneAssumeRole`, `BypassNotRefused`, `LiveIsKept`).

**Why these bounds.** A takeover needs two connections; a second answer to one request
needs two values of an answer; with both every pair of critical sections overlaps.
That requests are not confused with one another is proved for any number of them.
The same goes for every safety property of the runs that pass ("What is proved" says by
which argument): there the runs show that the properties are not vacuous and that the
mutants break them, and the proofs reach the instances the runs do not. In `AuditFeed` three
entries overflow the ring of two and the channel of two, and the replays are
shorter and longer than the ring. In `CredentialCallers` the stream,
the request and the refresh loop are enough to have a mint joined, a cached token replaced under a waiting caller, and a late
401; the same properties are proved for any number of callers. In
`CredentialRecovery` eight mints are more than the failures, restart, expiry and
late invalidations can use up: an invalidation for an old token that arrives late
discards the newer one, so two streams may cost each other a mint per failure, and
with too few mints the run would stop for that reason alone. In
`DiscoveryServers` two writes are a write in place with a part of it read in between,
or two renames with a reconcile under way; its generations are as many as the
contents reads can find one after the other, so `MaxGen` never holds a reconcile back.
One blocked handler is enough to hold the loop up.
In `Broker` two requests race for one cache
entry, one sheet or one file, and each configuration is asked for what its hazard
needs: kept approvals with a TTL for the session and per shed, a role by server
and one by a single shed, passthrough, an allowlist of one shed, Docker files of
every shape. Servers are given new targets where handlers of two groups could meet in
the cache. The clock reaches past the shorter TTLs and into the refresh margin. In
`RcSession` the constraint `Scenarios` keeps apart what does not interact: `Prompts` is
the only scenario that starts with a session, whose kill and new creation by two
other commands, under its name or one that begins with it, are the least that puts
another session under a prompt; two pastes and a third command share the buffer. In
`Creates` two creates of slugs that tmux takes for one another meet a command that
answers or ends what they wait for. In `Trusts` two creates and a cut-off third share
the file with Claude. Only what `Next` may be asked is cut down by it: every action is
taken whole. In `AgentSockets` two agents are enough for one to rob
the other and for the robbed one to remove its successor's file; both
invariants are proved for any number of agents. Deadlock is not checked because every
model may stop: connections, requests, mints and writes are finite in number, and
the watch goroutine, requests, commands and agents end.

### Fairness

- `ApprovalChannel`: handlers and requests that can move do. Go runs every
  goroutine and every write has a deadline (`consumerWriteTimeout`). Nothing is
  assumed of the app or of the approval timer, so `AbandonedRequestSettles` holds
  without the timeout coming to the rescue.
- `CredentialSource`: callers and mints move (the SSH exchange has a deadline), a
  stream to a server that has restarted ends. Refreshes, restarts, failures and
  expiry are not fair.
- `DiscoveryWatch`: the watch goroutine moves, its timer fires or its ticker
  ticks, and `Stop` is strongly fair, because `select` chooses at random among
  ready cases and so does not pass over `ctx.Done()` for ever. A cancelled group
  exits unless one of its handlers is in the Touch ID sheet or at the host's SSH agent
  (`Exits`): what else it waits in has a deadline or ends with the context, those two
  have and do neither, and nothing is assumed of who answers them. `HeldUp` is the
  loop's wait for such a handler, and both liveness properties except it. Writers are
  not fair: a write in place may stay unfinished, and while the source does not parse
  there is nothing to converge to.
- `Broker`: handlers that have a request go on, since the calls to STS, to helpers and
  to the delegated gate have deadlines. The user owes the sheet no answer, nor the
  host's SSH agent the handler (`~AtHostAgent(r)` in the fairness), and `Settles`
  excepts both.
- `AgentSockets`: goroutines run and `main` goes on when what it waits for has come.
  Nobody has to start or stop an agent, nor to answer a handler that holds the shutdown
  up, which `SignalEnds` excepts.

### What the runs found

1. `ApprovalAttribution`: when the app goes away, `demote` answers its requests
   with an empty decision, and `desktopGate.Approve` names the decider `"user"`.
   The audit log then shows a denial by the user that nobody made.
2. `DiscoveryLostWindow`: the first read comes before the watch, and nothing is
   read once the watch is in place. A change in between stays unseen until the
   next one.
3. `DiscoveryTornRead`: a write in place is read half-way. A file that it has emptied
   parses as no servers; one that ends at a line's end parses with the servers so far,
   the last of them perhaps without port, `api_url` or fingerprint. The reconcile stops
   the others or restarts one with a target no version gave. Writes by rename (which
   the shed CLI uses) and what does not parse do no harm (`ErrorsKeepServers`).

Where a property states an exception, the code takes it. What a reader might not expect:

- `LiveIsKept`: two agents that start together may both find a socket stale; one then
  removes the file the other has just bound, and the robbed agent, when it is stopped,
  removes its successor's. `docs/reference/host-agent-ipc.md:24` has it that a second
  agent "never silently steals the first's clients"; that holds of an agent that was
  serving when it was probed. A refused bind is final, so an agent started while
  another stops may run with one socket or with none (`AloneServes` speaks of agents
  that have the paths to themselves from the start), and `status` may then answer for
  another agent than the one that approves (`OneAgentWhenOrderly`).
- `AuditAgrees`: an approved signature whose key does not decode leaves no audit entry,
  and the answer goes out before the entry, so that a crash may leave none.
- `AnonymousIsNoCredential`: that Docker's default store failed is hidden behind
  `CREDENTIALS_NOT_FOUND`, and the guest pulls anonymously.
- Passthrough reads the keys before the expiry, each from the file opened anew
  (`ReadProfile`, `ReadExpiry`). A `Login` in between gives the guest the old keys with
  the new expiry, so that they die before the guest is told they do. There is no property
  to state of it; `docs/reference/aws-credentials.md:105` says that passthrough reads the
  hint "to report accurate expiry".
- `OneAssumeRole`: the loops of a cancelled group and of its successor may assume a role
  for one shed at a time, and the older session may then replace the newer in the cache.
- `Settles`: a sheet that nobody answers holds up the signatures of every server, and an
  SSH agent that does not answer those that it is asked for.
- `ConvergesOnceWatched`: an event that is lost with fsnotify's queue is not made up for.
  Like `StopsClean` and `SignalEnds` it speaks of handlers that come back: the reconcile
  waits for the groups it has cancelled after the unlock ("so a slow handler can't block
  other reconciles", `supervisor.go:172-173`), but in the only goroutine that reconciles,
  so a handler behind a sheet that nobody answers keeps every later change from being
  applied, and the agent from shutting down.
- `OnlyListed`: a read of a write in place may broker for a server without its port or
  fingerprint until the write is done.
- `TypedWhereChecked`, `BypassNotRefused`: the id and the state of a session are checked
  before the text is sent; when its slug is killed and created anew in between, the
  text, or `create --wait`'s key presses for a dialog, go to the new session
  (`docs/reference/rc-helper.md:29`: the id "guards against a killed-and-recreated
  `rc-<slug>`"). The same happens without a kill when the slug is only the beginning of
  the session's name and one is created under it. A session is ready once its URL is on the screen, so text may
  go into a dialog that came up after its start; the properties speak of the screens of
  the start. After an Enter that failed, Down is sent once more, and whether Claude's
  menu wraps round to `No, exit` then is not known here.
- `PromptTold`: beside those cases exit code 0 is wrong when Claude swallowed the text or
  the Enter, where `ops.go:292-293` would not have "a false success". Two prompts that
  paste at a time share the one buffer (`tmux.go:139`), and one may send the other's
  text; its exit code then is about the text it sent.
- `kill` of a slug that no session has ends the session whose name begins with it
  (`tmux.go:110`), where `ops.go:304` has it that "a missing session is success". `At` and
  `Kill` do so too; the properties count that session's loss of its slug like any other.
- `PreseedsMerge`: `flock` keeps concurrent creates apart, but not Claude, whose write
  between a preseed's read and its rename is lost.

## What is proved

Each proof module proves its theorems for every set of connections, requests,
callers, names, targets, agents, commands and configurations, and every bound. The
assumptions are those in the modules: `None` is not a connection, a target, a request,
an agent or a command; `""` is a value of `decided_by`; `hello_ack` is not a request;
bounds are natural numbers (the ring and the clock at least 1); streams and asks are
different callers; a session that was there is not named like a command, and no two of
them have one slug (tmux refuses a second session of a name); which slugs begin with
which (`Longer`) and what may be left of a cut entry (`Cut`) are any relations at all; of the verbs only `prompt`
takes a session id, and `claude` starts a claude-rc session without a prompt
(`AskAssumption`, from the flags of `clirc.go`); the modes of the watch are the three of
the code; what a request may ask (`Traffic`) is an operation some helper has, of a
server and shed there is; a layer of the AWS configuration has the three fields of
`AWSConfig`, and the top level of Docker's leaves nothing out (`AllowAll` is no pointer
there, and a nil list is an empty one).

**ApprovalChannelProofs.** `TypeCorrect`, `PendingOwnerAlwaysLive` and
`NewestAlwaysConsumer` are inductive given the types. `ApproveIsAnswered` is not:
it needs to know where a decision in a channel comes from. `IInv` adds that

- a request not yet registered has no entry, no channel content and no claim
  (`Untouched`), and one that is registered has a connection that it was asked on
  (`Asked`);
- an unread or claimed answer was said on its connection (`AnswersSaid`), a claim
  is for a request that belongs to the claiming connection and whose entry and
  channel are empty, and no two connections claim the same (`Claims`);
- every decision in a channel or returned from it is either `demote`'s denial or
  backed by an answer on the request's own connection (`Witnessed`);
- a request that is pending has an empty channel (`ChannelFree`).

From it follow `AllowedIsAnswered` and `DecisionsAreDelivered`. `HandshakeFirst`
has an invariant of its own (`SentInv`: a connection past its ack has been greeted,
a request is sent only to such a connection). `ChannelImplementsGate` is the
refinement, `Spec => GateRefined`, one mapped step of the gate, or a stutter, for
each action. `NobodyIsForgotten` is the safety half of `AbandonedRequestSettles`: a
request still out when its connection's handler is past `demote` has a decision in its
channel. It rests on `Wakeable`: a request that is out has its pending entry, where
`demote` will find it, or a handler has its answer in hand (only while it delivers, and
one at a time: `OneClaim`), or its decision is there. With `PendingOwnerLive`, a handler
past `demote` leaves only the last.

**CredentialSourceProofs.** `CInv` says how mints, the cache and the callers hang
together: mints are numbered without gaps and only those started have a result
(`Numbered`); the cached token is that of a completed mint and was never rejected
(`Cached`); a caller that has a token has one that is not in its `bad`
(`Given`); the mint a caller waits for is not complete in its `bad` and, unless it
was joined, began after the caller asked (`Waiting`); nobody asked in a later epoch
(`InPast`). `OneMintAtATime`, `MismatchIsFinal`, `RejectedIsNotServed`,
`ForcedIsFresh` and `StaleOnlyWhenJoined` follow. `MintsOnlyAdvance` is about steps: a
mint goes forward and keeps its result, so all who joined it are answered alike. From it
follows `WaitersAreAwaited`: whoever waits, waits for a mint that was started. That is
what can be proved of `AskReturns`; that the mint then comes to its end is fairness.

**SupervisorProofs.** `SupInv`: the table holds generations already started, each
with a target (`Generations`), an idle caller waits for nothing (`IdleFree`), a
Shutdown under way has closed the supervisor (`ShutdownCloses`); with it
`NoGroupIsLost`, `CancelledGroupsAwaited` and `ShutdownIsFinal`. `GroupsRunOnce` is about
steps: a group runs once and for one target, and none starts once the supervisor is
closed. It rests on the started groups being the generations so far (`Started`).

**DiscoveryWatchProofs.** `DrivesSupervisor`: every behaviour of the watch loop is one of
the supervisor, so what is proved of the supervisor holds under it; the types are
taken from there too. `DInv` adds that each target the source holds, at any point of a
write, and each that was read comes from a version that gives it, whole or cut short in
that version's own write in place (`FromSource`), and so does that of each group in the
table (`GroupsListed`); and that what was read, and what is brokered for, is a way the
source has listed the server (`Known`). `BrokersOnlyListed` and `KeepsListed` follow. The
latter is about reads that end in an error; reads that parse half a file do drop
servers, which is what `DiscoveryTornRead` finds. Two theorems are the safety halves of what the runs check
under fairness. `ChangesAreKept`: with fsnotify, when the servers are not those listed in
a source that parses, an event or the debounce timer is still to come, or the loop was
told nothing of the change (`NoChangeForgotten`, which is inductive because after `Apply`
what is brokered for is exactly what was read, `ApplyServes`). `StopLeavesNothing`: when
`main` is through with Shutdown no group is left (`NothingLeft`). For this the supervisor's
invariant does not suffice, since another caller might still wait for a group; that the
loop is the only caller, and where it is, is `OneCaller`.

**AuditFeedProofs.** `FInv`: entries come out of the channel in the order they were logged,
the one in hand between those forwarded and those in the channel (`Ordered`, `HandNext`); the ring
is the end of what was forwarded (`RingIsLast`); a connection gets only what was
forwarded, and is replayed only what was forwarded before its copy (`FromFeed`);
what it got since the copy is in order and older than the event on its way to it (`LateInOrder`);
what the consumer asked for and has not got is still to be replayed or in hand (`Whole`),
and a torn frame is the mark of a failed write (`TornIsFailed`). `LateOnceInOrder` and
`NothingLost` follow.

**BrokerProofs.** What the configuration decides is proved of every tree of layers:
`WalkFromLayers` says that each field a shed resolves to comes from a layer, and
`EveryRoleIsServed` that a role on any path has the AWS namespace served. `BInv` is a conjunction over the requests, because a step of one leaves the
others alone (`CourseKept`): what a request asks and where it is (`Asked`), what it is answered
(`Replied`), what its outcome rests on (`Judged`) and what the guest and the log are
told (`Told`). The shared state has four conjuncts: a loop has one request at
a time (`OneAtATime`), the loops of a cancelled group are those of a server that is being
drained (`LateDrains`), kept approvals are dated as sheets the user accepted
(`Approvals`), and cached credentials are for the role their shed resolves to
(`CacheOwn`). `OneAssumeRole` rests on the first two alone, for the cache has no guard of
its own. `NothingLeavesUnapproved`, `EachItsOwn`, `CacheFilledByOne`,
`AnonymousHasNoCredential` and `AuditLogAgrees` are the five invariants of the run.
`LockGoesWithSheet` is the safety half of `Settles`: the native gate's lock is held
exactly while its sheet is up (`OneSheet`), so nothing waits for a lock left behind.

**RcSessionProofs.** `CreatesKeepEntries`: a command between its read and its rename
holds the lock (`Holds`), what it has read lacks nothing the file has since but Claude's
own entry (`CopyCurrent`), and what Claude is about to write back is in the file
(`ClaudeBehind`).

The other three invariants of the run are about texts and dialogs, and none of them is
near inductive: what was typed is right because of what the command saw some steps
before, and that is still so because of what may happen to a session in between. Their
proof has four layers, each of which uses those before it.

- `TypesInv`: the types, and for each place a command can be in, the verb and flags that
  bring it there (`Placed`).
- `TmuxInv`: a slug is given exactly to the session that lives under it (`Slugged`),
  though commands may find that session by less than its name; and what a pane can show
  follows from its session: it is up, or at another dialog of its start, only past its
  bypass dialog (`Shapes`, `Safe`). The same lemma (`TmuxStep`) says how a session may
  evolve in a step (`Evolves`): it does not come back; once up it is up, with whatever
  dialogs over it, until it is over; and the bypass dialog is left only by accepting it
  or by the session's end, and never returns to its first selection by itself.
- `Courses`: what a command knows from its steps so far. The session it is about was
  created (`Found`); the dialog it is about to answer is where it put it, or behind it
  (`Dialog`); what it read on the screen before its checks still holds (`Read`); once it
  sends its text its session rests, which is to be up or over, or was found by the
  beginning of its name (`Ready`); and its session id was not that of a session long
  over (`Timely`). Each of these survives the steps of others by `Evolves`.
- `TextInv`: every entry of the histories is right when it is made and stays right
  (`TypedOK`, `EndedOK`): a command whose text or Enter went astray is `Elsewhere`, and
  stays so. A text in the buffer is a block's (`Buffered`), so a command types its own or,
  if its own is a block too, another's. A text that a prompt has typed waits on its line,
  was submitted or swallowed, or its command is elsewhere (`Pending`); the exit code says which (`Told`); and whoever
  submitted anything exits with 0 (`Sends`).

`TextTypedWhereChecked`, `BypassIsNotRefused` and `PromptsAreTold` follow.

**AgentSocketsProofs.** `SInv` says of each path whose file may be there: only a running or crashed
agent's (`Absent`, `OwnFile`); an agent past `lstat` saw no other file (`NoFile`), one
about to remove saw nobody serve (`Stale`), one that listens has its file or was
robbed (`HasFile`). `LiveAgentsAreKept` follows. For `OrderlyAgentsAgree` the state has a
second invariant while no two agents were under way together: at most one is busy
and at most one owns paths (`OneBusy`, `OneOwner`), whoever else looks at a path finds it
served (`Barred`, `RefusedByFile`), and nothing changes between an agent's look and its
act (`Steady`). Main's shutdown changes none of it (`ShutdownSteps`). `AloneIsNotRefused` is the safety half of `AloneServes`: an agent alone as
it starts is on its way to both paths (`Boots`), and no step of its own takes it off.

Only model-checked: the liveness properties (`AbandonedRequestSettles`, `AskReturns`,
`StreamRecovers`, `ConvergesOnceWatched`, `StopsClean`, `Settles`, `AloneServes`,
`SignalEnds`), which rest on fairness and are beyond this prover. Where the text above
gives a safety half, what is left to TLC is that the steps still owed are taken.

## Not modelled, and the plan

Not modelled for good: cryptography, key files and the encodings of the guest helpers'
protocols (stateless I/O), what the status socket writes (reads only), the SDK's
message bus and SSE subscriptions, the protocol's data types, YAML decoding with its
defaults and deprecated keys, `list` and `probe` of the remote-control commands
(they only print).

Abstractions within what is modelled:

- `AuditFeed`: `Promote` is for a connection that has asked for audit events; one that
  has not takes over alike, and is in `ApprovalChannel`.
- `Broker`: the key of the AWS cache is a pair of server and shed where the code joins
  the two into a string. Messages whose payload does not parse are refused before the
  gate, without an audit entry, and are left out.
- `RcSession`: tmux also matches patterns (`fnmatch`) and, for a pane, window names; the
  slugs are such that only prefixes occur. A user at the terminal who answers a dialog
  of a start, or types, is left out; one who answers a later dialog is `Interrupted`.
- `AgentSockets`: the backlog of a socket that is served is never full. A fatal error of
  `Accept` and the errors of `Lstat` and `Listen` that no other agent causes are left out.

What is left, in this order:

1. **ControlTokens** — sources by server name, replaced when an endpoint changes
   while callers wait on the old one. A caller gets a token from a source with the
   endpoint it resolved, whichever that is; single flight across the two is lost.
2. **Egress** — the backoff, and the long wait for a server without the feature.
3. **ApprovalChannel, extended** — `token.get` on the same connection, `expires_at`
   against the timer.
4. One more proof: the safety half of `StreamRecovers` (of the tokens still to be given
   out, only those of mints already answered can be of an earlier epoch).
