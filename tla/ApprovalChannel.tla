---------------------------- MODULE ApprovalChannel ----------------------------
(***************************************************************************)
(* The approval channel of shed-host-agent (desktop_server.go and          *)
(* desktop_gate.go).  One goroutine per accepted connection (handleConn)   *)
(* greets the app, makes it the single active consumer and reads its       *)
(* answers; one goroutine per credential request (desktopGate.Approve ->   *)
(* RequestApproval) sends the request to the consumer and blocks for the   *)
(* answer.  They share, under DesktopServer.mu, the consumer pointer and   *)
(* the table of pending requests.  Every critical section of the code is   *)
(* one action here; every send, close and channel operation made outside   *)
(* the lock is an action of its own.                                       *)
(*                                                                         *)
(* The app is the environment: it connects, answers any request it has     *)
(* seen, on any of its connections, as often as it likes, stops reading    *)
(* and goes away.  Pings, audit events and token.get have no effect on     *)
(* this state.                                                             *)
(***************************************************************************)
EXTENDS Naturals, Sequences, FiniteSets

CONSTANTS
    Conns,      \* connections accepted in the agent's lifetime
    Reqs,       \* approval requests; each has a fresh id (newID)
    By,         \* values of decided_by in an app's answer, "" included
    None,       \* the nil connection
    MaxInbox,   \* bound: answers unread in a connection's stream
    MaxAnswers  \* bound: different answers the app ever gives

ASSUME NoneNotConn == None \notin Conns
ASSUME ByAssumption == "" \in By

VARIABLES
    consumer,   \* DesktopServer.consumer
    pending,    \* DesktopServer.pending: the owner of each entry, None if absent
    hpc,        \* where the handleConn goroutine of a connection is
    old,        \* the local `old` of promote
    claim,      \* the answer resolve has claimed and not yet delivered
    agentEnd,   \* the agent has not closed its end of the connection
    appEnd,     \* the app has not closed its end of the connection
    inbox,      \* answers the app has sent and the read loop has not read
    got,        \* frames the app has read on the connection
    said,       \* history: the app's answers, each with its connection
    newest,     \* history: the connection promoted last
    rpc,        \* where the RequestApproval call of a request is
    to,         \* its local `consumer`
    ch,         \* its channel, buffered with capacity one
    dec,        \* its return value: a decision, or {} for an error
    verdict,    \* what desktopGate.Approve returned
    decidedBy   \* ApprovalOutcome.DecidedBy

serverVars == <<consumer, pending>>
handlerVars == <<hpc, old, claim>>
socketVars == <<agentEnd, appEnd, inbox, got, said>>
requestVars == <<rpc, to, ch, dec, verdict, decidedBy>>
vars == <<serverVars, handlerVars, socketVars, newest, requestVars>>

Decision == [approved : BOOLEAN, by : By]
Answer == [req : Reqs, approved : BOOLEAN, by : By]

\* The frames that matter here: the accepting hello_ack and the requests.
Ack == "hello_ack"
Frame == {Ack} \cup Reqs

ASSUME AckNotReq == Ack \notin Reqs

Full(channel) == channel # {}

\* `select { case ch <- d: default: }` on a channel of capacity one.
TrySend(channel, d) == IF Full(channel) THEN channel ELSE {d}

Init ==
    /\ consumer = None
    /\ pending = [r \in Reqs |-> None]
    /\ hpc = [c \in Conns |-> "none"]
    /\ old = [c \in Conns |-> None]
    /\ claim = [c \in Conns |-> {}]
    /\ agentEnd = [c \in Conns |-> FALSE]
    /\ appEnd = [c \in Conns |-> FALSE]
    /\ inbox = [c \in Conns |-> <<>>]
    /\ got = [c \in Conns |-> {}]
    /\ said = {}
    /\ newest = None
    /\ rpc = [r \in Reqs |-> "idle"]
    /\ to = [r \in Reqs |-> None]
    /\ ch = [r \in Reqs |-> {}]
    /\ dec = [r \in Reqs |-> {}]
    /\ verdict = [r \in Reqs |-> "none"]
    /\ decidedBy = [r \in Reqs |-> ""]

(***************************************************************************)
(* consumerConn.send.  A write succeeds only while both ends are open.  It *)
(* fails when an end is closed, or at its deadline when the app does not   *)
(* read, which may happen on any write.                                    *)
(***************************************************************************)
SendOk(c, f) ==
    /\ agentEnd[c] /\ appEnd[c]
    /\ got' = [got EXCEPT ![c] = @ \cup {f}]

SendFail == UNCHANGED got

-----------------------------------------------------------------------------
(* Listen and handleConn *)

\* Once the context is cancelled or Accept fails no new connection comes; the
\* handlers that are running do not look at the context.
Accept(c) ==
    /\ hpc[c] = "none"
    /\ hpc' = [hpc EXCEPT ![c] = "greeting"]
    /\ agentEnd' = [agentEnd EXCEPT ![c] = TRUE]
    /\ appEnd' = [appEnd EXCEPT ![c] = TRUE]
    /\ UNCHANGED <<serverVars, old, claim, inbox, got, said, newest,
                   requestVars>>

\* Mutant: the connection is promoted without its hello_ack.
Hello_NoAck(c) ==
    /\ hpc[c] = "greeting"
    /\ hpc' = [hpc EXCEPT ![c] = "promoting"]
    /\ UNCHANGED <<serverVars, old, claim, socketVars, newest, requestVars>>

Hello(c) ==
    /\ hpc[c] = "greeting"
    /\ hpc' = [hpc EXCEPT ![c] = "acking"]
    /\ UNCHANGED <<serverVars, old, claim, socketVars, newest, requestVars>>

\* No hello within the grace period, or something else than a hello.
HelloFails(c) ==
    /\ hpc[c] = "greeting"
    /\ hpc' = [hpc EXCEPT ![c] = "closing"]
    /\ UNCHANGED <<serverVars, old, claim, socketVars, newest, requestVars>>

SendHelloAck(c) ==
    /\ hpc[c] = "acking"
    /\ \/ SendOk(c, Ack) /\ hpc' = [hpc EXCEPT ![c] = "promoting"]
       \/ SendFail /\ hpc' = [hpc EXCEPT ![c] = "closing"]
    /\ UNCHANGED <<serverVars, old, claim, agentEnd, appEnd, inbox, said,
                   newest, requestVars>>

\* promote, the critical section.
Promote(c) ==
    /\ hpc[c] = "promoting"
    /\ consumer' = c
    /\ newest' = c
    /\ IF consumer # None /\ consumer # c
         THEN /\ old' = [old EXCEPT ![c] = consumer]
              /\ hpc' = [hpc EXCEPT ![c] = "superseding"]
         ELSE /\ UNCHANGED old
              /\ hpc' = [hpc EXCEPT ![c] = "replaying"]
    /\ UNCHANGED <<pending, claim, socketVars, requestVars>>

\* promote, after the unlock: tell the old consumer (whether or not the write
\* succeeds, and the app need not listen) and close its connection.
Supersede(c) ==
    /\ hpc[c] = "superseding"
    /\ agentEnd' = [agentEnd EXCEPT ![old[c]] = FALSE]
    /\ old' = [old EXCEPT ![c] = None]
    /\ hpc' = [hpc EXCEPT ![c] = "replaying"]
    /\ UNCHANGED <<serverVars, claim, appEnd, inbox, got, said, newest,
                   requestVars>>

\* replay writes audit events, which are not modelled here; the read loop
\* starts when it is through.
Replay(c) ==
    /\ hpc[c] = "replaying"
    /\ hpc' = [hpc EXCEPT ![c] = "serving"]
    /\ UNCHANGED <<serverVars, old, claim, socketVars, newest, requestVars>>

\* Mutant: the frame itself is handed over, request id and all.
DecisionOf_Frame(a) == a

DecisionOf(a) == [approved |-> a.approved, by |-> a.by]

\* Mutant: whoever answers first resolves the request, owner or not.
Resolve_AnyOwner(c) ==
    /\ hpc[c] = "serving"
    /\ inbox[c] # <<>>
    /\ inbox' = [inbox EXCEPT ![c] = Tail(@)]
    /\ LET a == Head(inbox[c]) IN
         IF pending[a.req] # None
           THEN /\ pending' = [pending EXCEPT ![a.req] = None]
                /\ claim' = [claim EXCEPT ![c] = {a}]
                /\ hpc' = [hpc EXCEPT ![c] = "delivering"]
           ELSE UNCHANGED <<pending, claim, hpc>>
    /\ UNCHANGED <<consumer, old, agentEnd, appEnd, got, said, newest,
                   requestVars>>

\* Mutant: the entry stays in the table until RequestApproval returns.
Resolve_KeepsEntry(c) ==
    /\ hpc[c] = "serving"
    /\ inbox[c] # <<>>
    /\ inbox' = [inbox EXCEPT ![c] = Tail(@)]
    /\ LET a == Head(inbox[c]) IN
         IF pending[a.req] = c
           THEN /\ claim' = [claim EXCEPT ![c] = {a}]
                /\ hpc' = [hpc EXCEPT ![c] = "delivering"]
           ELSE UNCHANGED <<claim, hpc>>
    /\ UNCHANGED <<serverVars, old, agentEnd, appEnd, got, said, newest,
                   requestVars>>

\* The read loop takes an approval_response; resolve's critical section.
Resolve(c) ==
    /\ hpc[c] = "serving"
    /\ inbox[c] # <<>>
    /\ inbox' = [inbox EXCEPT ![c] = Tail(@)]
    /\ LET a == Head(inbox[c]) IN
         IF pending[a.req] = c
           THEN /\ pending' = [pending EXCEPT ![a.req] = None]
                /\ claim' = [claim EXCEPT ![c] = {a}]
                /\ hpc' = [hpc EXCEPT ![c] = "delivering"]
           ELSE UNCHANGED <<pending, claim, hpc>>
    /\ UNCHANGED <<consumer, old, agentEnd, appEnd, got,
                   said, newest, requestVars>>

\* resolve, after the unlock.
Deliver(c) ==
    /\ hpc[c] = "delivering"
    /\ \E a \in claim[c] : ch' = [ch EXCEPT ![a.req] = TrySend(@, DecisionOf(a))]
    /\ claim' = [claim EXCEPT ![c] = {}]
    /\ hpc' = [hpc EXCEPT ![c] = "serving"]
    /\ UNCHANGED <<serverVars, old, socketVars, newest, rpc, to, dec, verdict,
                   decidedBy>>

\* The scanner stops: the agent has closed its end (lines it has buffered may
\* or may not have been read), or the app has and everything is read.
ScanEnds(c) ==
    /\ hpc[c] = "serving"
    /\ \/ ~agentEnd[c]
       \/ ~appEnd[c] /\ inbox[c] = <<>>
    /\ hpc' = [hpc EXCEPT ![c] = "demoting"]
    /\ UNCHANGED <<serverVars, old, claim, socketVars, newest, requestVars>>

\* Mutant: a demote that runs after a takeover returns early.
Demote_ActiveOnly(c) ==
    /\ hpc[c] = "demoting"
    /\ hpc' = [hpc EXCEPT ![c] = "closing"]
    /\ IF consumer = c
         THEN /\ consumer' = None
              /\ ch' = [r \in Reqs |->
                          IF pending[r] = c
                            THEN TrySend(ch[r], [approved |-> FALSE, by |-> ""])
                            ELSE ch[r]]
              /\ pending' = [r \in Reqs |->
                               IF pending[r] = c THEN None ELSE pending[r]]
         ELSE UNCHANGED <<consumer, ch, pending>>
    /\ UNCHANGED <<old, claim, socketVars, newest, rpc, to, dec, verdict,
                   decidedBy>>

\* Mutant: demote clears whatever consumer there is.
Demote_AnyConsumer(c) ==
    /\ hpc[c] = "demoting"
    /\ consumer' = None
    /\ ch' = [r \in Reqs |->
                IF pending[r] = c
                  THEN TrySend(ch[r], [approved |-> FALSE, by |-> ""])
                  ELSE ch[r]]
    /\ pending' = [r \in Reqs |-> IF pending[r] = c THEN None ELSE pending[r]]
    /\ hpc' = [hpc EXCEPT ![c] = "closing"]
    /\ UNCHANGED <<old, claim, socketVars, newest, rpc, to, dec, verdict,
                   decidedBy>>

\* Mutant: demote removes the entries and tells nobody.
Demote_Silent(c) ==
    /\ hpc[c] = "demoting"
    /\ consumer' = IF consumer = c THEN None ELSE consumer
    /\ pending' = [r \in Reqs |-> IF pending[r] = c THEN None ELSE pending[r]]
    /\ hpc' = [hpc EXCEPT ![c] = "closing"]
    /\ UNCHANGED <<old, claim, socketVars, newest, requestVars>>

\* The deferred demote, one critical section.
Demote(c) ==
    /\ hpc[c] = "demoting"
    /\ consumer' = IF consumer = c THEN None ELSE consumer
    /\ ch' = [r \in Reqs |->
                IF pending[r] = c
                  THEN TrySend(ch[r], [approved |-> FALSE, by |-> ""])
                  ELSE ch[r]]
    /\ pending' = [r \in Reqs |-> IF pending[r] = c THEN None ELSE pending[r]]
    /\ hpc' = [hpc EXCEPT ![c] = "closing"]
    /\ UNCHANGED <<old, claim, socketVars, newest, rpc, to, dec,
                   verdict, decidedBy>>

\* The deferred conn.Close.
Close(c) ==
    /\ hpc[c] = "closing"
    /\ hpc' = [hpc EXCEPT ![c] = "closed"]
    /\ agentEnd' = [agentEnd EXCEPT ![c] = FALSE]
    /\ UNCHANGED <<serverVars, old, claim, appEnd, inbox, got, said,
                   newest, requestVars>>

-----------------------------------------------------------------------------
(* desktopGate.Approve and RequestApproval *)

NoConsumer(r) ==
    /\ rpc[r] = "idle"
    /\ consumer = None
    /\ rpc' = [rpc EXCEPT ![r] = "done"]
    /\ verdict' = [verdict EXCEPT ![r] = "deny"]
    /\ UNCHANGED <<serverVars, handlerVars, socketVars, newest, to, ch, dec,
                   decidedBy>>

Register(r) ==
    /\ rpc[r] = "idle"
    /\ consumer # None
    /\ pending' = [pending EXCEPT ![r] = consumer]
    /\ to' = [to EXCEPT ![r] = consumer]
    /\ rpc' = [rpc EXCEPT ![r] = "sending"]
    /\ UNCHANGED <<consumer, handlerVars, socketVars, newest, ch,
                   dec, verdict, decidedBy>>

SendRequest(r) ==
    /\ rpc[r] = "sending"
    /\ \/ SendOk(to[r], r) /\ rpc' = [rpc EXCEPT ![r] = "waiting"]
       \/ SendFail /\ rpc' = [rpc EXCEPT ![r] = "returning"]
    /\ UNCHANGED <<serverVars, handlerVars, agentEnd, appEnd, inbox, said,
                   newest, to, ch, dec, verdict, decidedBy>>

Receive(r) ==
    /\ rpc[r] = "waiting"
    /\ Full(ch[r])
    /\ dec' = [dec EXCEPT ![r] = ch[r]]
    /\ ch' = [ch EXCEPT ![r] = {}]
    /\ rpc' = [rpc EXCEPT ![r] = "returning"]
    /\ UNCHANGED <<serverVars, handlerVars, socketVars, newest, to, verdict,
                   decidedBy>>

\* The select may take the timer even when the channel is ready.
Timeout(r) ==
    /\ rpc[r] = "waiting"
    /\ rpc' = [rpc EXCEPT ![r] = "returning"]
    /\ UNCHANGED <<serverVars, handlerVars, socketVars, newest, to, ch, dec,
                   verdict, decidedBy>>

\* desktopGate.Approve: an answer without decided_by is the user's.
DecidedByOf(d) == IF d.by = "" THEN "user" ELSE d.by

\* Mutant: an error is not a denial.
Return_FailsOpen(r) ==
    /\ rpc[r] = "returning"
    /\ pending' = [pending EXCEPT ![r] = None]
    /\ rpc' = [rpc EXCEPT ![r] = "done"]
    /\ verdict' = [verdict EXCEPT ![r] =
                     IF \E d \in dec[r] : ~d.approved THEN "deny" ELSE "allow"]
    /\ UNCHANGED <<consumer, handlerVars, socketVars, newest, to, ch, dec,
                   decidedBy>>

\* Mutant: the outcome of an approval forgets who decided.
Return_DropsDecider(r) ==
    /\ rpc[r] = "returning"
    /\ pending' = [pending EXCEPT ![r] = None]
    /\ rpc' = [rpc EXCEPT ![r] = "done"]
    /\ verdict' = [verdict EXCEPT ![r] =
                     IF \E d \in dec[r] : d.approved THEN "allow" ELSE "deny"]
    /\ decidedBy' = [decidedBy EXCEPT ![r] = IF dec[r] = {} THEN "" ELSE "user"]
    /\ UNCHANGED <<consumer, handlerVars, socketVars, newest, to, ch, dec>>

\* The deferred delete, then the rest of desktopGate.Approve.
Return(r) ==
    /\ rpc[r] = "returning"
    /\ pending' = [pending EXCEPT ![r] = None]
    /\ rpc' = [rpc EXCEPT ![r] = "done"]
    /\ \/ /\ dec[r] = {}
          /\ verdict' = [verdict EXCEPT ![r] = "deny"]
          /\ UNCHANGED decidedBy
       \/ \E d \in dec[r] :
            /\ verdict' = [verdict EXCEPT ![r] = IF d.approved THEN "allow" ELSE "deny"]
            /\ decidedBy' = [decidedBy EXCEPT ![r] = DecidedByOf(d)]
    /\ UNCHANGED <<consumer, handlerVars, socketVars, newest, to, ch,
                   dec>>

-----------------------------------------------------------------------------
(* The app *)

Respond(c, a) ==
    /\ agentEnd[c] /\ appEnd[c]
    /\ \E k \in Conns : a.req \in got[k]
    /\ Len(inbox[c]) < MaxInbox
    /\ <<c, a>> \in said \/ Cardinality(said) < MaxAnswers
    /\ inbox' = [inbox EXCEPT ![c] = Append(@, a)]
    /\ said' = said \cup {<<c, a>>}
    /\ UNCHANGED <<serverVars, handlerVars, agentEnd, appEnd, got,
                   newest, requestVars>>

\* A line over maxFrameBytes ends the scan, whatever follows it.
LineTooLong(c) ==
    /\ hpc[c] = "serving"
    /\ hpc' = [hpc EXCEPT ![c] = "demoting"]
    /\ UNCHANGED <<serverVars, old, claim, socketVars, newest, requestVars>>

Disconnect(c) ==
    /\ appEnd[c]
    /\ appEnd' = [appEnd EXCEPT ![c] = FALSE]
    /\ UNCHANGED <<serverVars, handlerVars, agentEnd, inbox, got, said,
                   newest, requestVars>>

-----------------------------------------------------------------------------
Handler(c) ==
    \/ Hello(c) \/ HelloFails(c) \/ SendHelloAck(c) \/ Promote(c)
    \/ Supersede(c) \/ Replay(c) \/ Resolve(c) \/ Deliver(c) \/ ScanEnds(c)
    \/ Demote(c) \/ Close(c)

Request(r) ==
    \/ NoConsumer(r) \/ Register(r) \/ SendRequest(r) \/ Receive(r)
    \/ Timeout(r) \/ Return(r)

App ==
    \E c \in Conns : Disconnect(c) \/ LineTooLong(c) \/ \E a \in Answer : Respond(c, a)

Next ==
    \/ \E c \in Conns : Accept(c) \/ Handler(c)
    \/ \E r \in Reqs : Request(r)
    \/ App

Spec == Init /\ [][Next]_vars

(***************************************************************************)
(* Fairness.  The Go scheduler runs every goroutine that can run, and      *)
(* every write ends within consumerWriteTimeout, so handlers and requests  *)
(* that are past their first step keep moving.  Nothing is assumed of the  *)
(* app, and nothing of the approval timer: what is shown below about       *)
(* abandoned requests does not rest on the timeout.                        *)
(***************************************************************************)
Moving(r) == SendRequest(r) \/ Receive(r) \/ Return(r)

FairSpec ==
    /\ Spec
    /\ \A c \in Conns : WF_vars(Handler(c))
    /\ \A r \in Reqs : WF_vars(Moving(r))

-----------------------------------------------------------------------------
HandlerPC == {"none", "greeting", "acking", "promoting", "superseding",
              "replaying", "serving", "delivering", "demoting", "closing",
              "closed"}

\* Every variable has its type.
TypeOK ==
    /\ consumer \in Conns \cup {None}
    /\ pending \in [Reqs -> Conns \cup {None}]
    /\ hpc \in [Conns -> HandlerPC]
    /\ old \in [Conns -> Conns \cup {None}]
    /\ claim \in [Conns -> SUBSET Answer]
    /\ agentEnd \in [Conns -> BOOLEAN]
    /\ appEnd \in [Conns -> BOOLEAN]
    /\ inbox \in [Conns -> Seq(Answer)]
    /\ got \in [Conns -> SUBSET Frame]
    /\ said \subseteq Conns \X Answer
    /\ newest \in Conns \cup {None}
    /\ rpc \in [Reqs -> {"idle", "sending", "waiting", "returning", "done"}]
    /\ to \in [Reqs -> Conns \cup {None}]
    /\ ch \in [Reqs -> SUBSET Decision]
    /\ dec \in [Reqs -> SUBSET Decision]
    /\ verdict \in [Reqs -> {"none", "allow", "deny"}]
    /\ decidedBy \in [Reqs -> By \cup {"user"}]

\* The part of handleConn in which a connection may be the consumer.
Promoted(c) == hpc[c] \in {"superseding", "replaying", "serving", "delivering",
                           "demoting"}

\* A request is allowed only if the app approved that request on the very
\* connection it was sent to, and the audit log attributes the decision as that
\* answer did (resolve's owner check, desktopGate.Approve).
ApproveIsAnswered ==
    \A r \in Reqs : verdict[r] = "allow" =>
        \E a \in Answer :
            /\ <<to[r], a>> \in said
            /\ a.req = r /\ a.approved /\ decidedBy[r] = DecidedByOf(a)

\* Nobody is left waiting on a connection whose handler has gone: the consumer
\* and the owner of every pending request have not run demote yet.
PendingOwnerLive ==
    /\ consumer # None => Promoted(consumer)
    /\ \A r \in Reqs : pending[r] # None => Promoted(pending[r])

\* demote never leaves a request to its timer: whoever is still to be failed has a
\* handler to do it, and a request that is still out when the handler of its
\* connection is past demote finds a decision in its channel, whether the connection
\* was the consumer or had been superseded, and whatever answer was being delivered.
NobodyForgotten ==
    /\ PendingOwnerLive
    /\ \A r \in Reqs :
         rpc[r] \in {"sending", "waiting"} /\ ~Promoted(to[r]) => Full(ch[r])

\* The `default` branches of resolve and demote are never taken: whoever removes
\* the pending entry is the only one to send on that request's channel.
NoDecisionLost ==
    /\ \A r \in Reqs : pending[r] # None => ch[r] = {}
    /\ \A c \in Conns : \A a \in claim[c] :
          /\ ch[a.req] = {}
          /\ \A k \in Conns \ {c} : \A b \in claim[k] : b.req # a.req

\* The connection promoted last is the consumer until its own handler demotes
\* it: an older connection's demote never deregisters it.
NewestIsConsumer ==
    newest # None /\ Promoted(newest) => consumer = newest

\* No approval_request reaches an app before the hello_ack of its connection.
HandshakeFirst ==
    \A c \in Conns : got[c] \cap Reqs # {} => Ack \in got[c]

\* A request whose connection is gone (superseded, or closed by the app) comes
\* back, denied or answered, without waiting for the approval timeout.
Abandoned(r) ==
    /\ rpc[r] \in {"sending", "waiting"}
    /\ ~agentEnd[to[r]] \/ ~appEnd[to[r]]

AbandonedRequestSettles ==
    \A r \in Reqs : Abandoned(r) ~> rpc[r] = "done"

\* The channel implements the gate the rest of the agent relies on: whatever
\* the handlers and requests do, in whatever order, is a step of DelegatedGate.
Gate == INSTANCE DelegatedGate WITH asked <- to, answers <- said

GateRefined == Gate!GateSpec

\* The outcome names a decider only when the app answered this request on the
\* connection it was sent to (desktop_gate.go: "No decision was made ...").
DeciderAnswered ==
    \A r \in Reqs : decidedBy[r] # "" =>
        \E a \in Answer : <<to[r], a>> \in said /\ a.req = r

=============================================================================
