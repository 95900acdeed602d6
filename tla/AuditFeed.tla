-------------------------------- MODULE AuditFeed --------------------------------
(***************************************************************************)
(* The activity feed of shed-host-agent: from an AuditLogger (audit.go)    *)
(* over a bounded subscription to DesktopServer.forwardAudit, which keeps  *)
(* a ring of recent events and sends each to the active consumer, and      *)
(* replay, which sends a new connection the last events of the ring        *)
(* (desktop_server.go).  Handlers log concurrently, but each entry under   *)
(* AuditLogger.mu, so entries are numbered in the order they are logged.   *)
(*                                                                         *)
(* A connection is modelled from its promotion on; the handshake and the   *)
(* approvals of the same connection are in ApprovalChannel.  A write that  *)
(* meets its deadline may leave part of a frame behind, and the next frame *)
(* is then glued to it and unreadable for the app.                         *)
(***************************************************************************)
EXTENDS Naturals, Sequences, SequencesExt

CONSTANTS
    Conns,      \* connections of the app
    None,       \* the nil connection
    Replays,    \* values of hello.replay_events
    QueueMax,   \* capacity of the subscription (256)
    RingMax,    \* DesktopServer.ringMax (100)
    MaxEntries, \* bound: entries logged
    MaxFailures \* bound: writes that meet their deadline

ASSUME NoneNotConn == None \notin Conns
ASSUME FeedAssumption ==
    /\ Replays \subseteq Nat /\ QueueMax \in Nat /\ RingMax \in Nat \ {0}
    /\ MaxEntries \in Nat /\ MaxFailures \in Nat

VARIABLES
    logged,     \* entries logged so far
    subscribed, \* the subscription: "no", "yes", or "closed" by unsub
    queue,      \* its channel
    fpc,        \* where forwardAudit is
    hand,       \* its local `ev`
    target,     \* its local `consumer`
    ring,       \* DesktopServer.ring
    consumer,   \* DesktopServer.consumer
    hpc,        \* where the handleConn goroutine of a connection is
    old,        \* the local `old` of promote
    want,       \* hello.replay_events
    evs,        \* replay: events still to be sent
    open,       \* neither end of the connection is closed
    torn,       \* the stream to the app ends in an unfinished frame
    got,        \* events the app has read, in order
    failures,   \* writes that met their deadline so far
    forwarded,  \* history: events in the order they entered the ring
    upto,       \* history: how many there were as replay copied the ring
    failed      \* history: connections with a write that failed

logVars == <<logged, subscribed, queue>>
feedVars == <<fpc, hand, target, ring, forwarded>>
connVars == <<hpc, old, want, evs, upto>>
wireVars == <<torn, got, failures, failed>>
vars == <<logVars, feedVars, consumer, connVars, open, wireVars>>

Init ==
    /\ logged = 0 /\ subscribed = "no" /\ queue = <<>>
    /\ fpc = "none" /\ hand = 0 /\ target = None
    /\ ring = <<>> /\ forwarded = <<>>
    /\ consumer = None
    /\ hpc = [c \in Conns |-> "none"]
    /\ old = [c \in Conns |-> None]
    /\ want = [c \in Conns |-> 0]
    /\ evs = [c \in Conns |-> <<>>]
    /\ upto = [c \in Conns |-> 0]
    /\ open = [c \in Conns |-> FALSE]
    /\ torn = [c \in Conns |-> FALSE]
    /\ got = [c \in Conns |-> <<>>]
    /\ failures = 0 /\ failed = {}

\* The last n members of a sequence.
LastOf(n, s) == SubSeq(s, IF Len(s) > n THEN Len(s) - n + 1 ELSE 1, Len(s))

-----------------------------------------------------------------------------
(* consumerConn.send *)

\* The write goes through; after an unfinished frame the app cannot read it.
SendOk(c, e) ==
    /\ open[c]
    /\ got' = IF torn[c] THEN got ELSE [got EXCEPT ![c] = Append(@, e)]
    /\ torn' = [torn EXCEPT ![c] = FALSE]
    /\ UNCHANGED <<failures, failed>>

\* The connection is closed.
SendClosed(c) ==
    /\ ~open[c]
    /\ failed' = failed \cup {c}
    /\ UNCHANGED <<got, torn, failures>>

\* The write meets its deadline, with some of the frame sent or none.
SendTimesOut(c) ==
    /\ open[c]
    /\ failures < MaxFailures
    /\ failures' = failures + 1
    /\ failed' = failed \cup {c}
    /\ \E t \in {torn[c], TRUE} : torn' = [torn EXCEPT ![c] = t]
    /\ UNCHANGED got

SendEvent(c, e) == SendOk(c, e) \/ SendClosed(c) \/ SendTimesOut(c)

-----------------------------------------------------------------------------
(* AuditLogger *)

Subscribe ==
    /\ subscribed = "no"
    /\ subscribed' = "yes"
    /\ fpc' = "idle"
    /\ UNCHANGED <<logged, queue, hand, target, ring, forwarded, consumer, connVars,
                   open, wireVars>>

\* The non-blocking send of publish: a full channel drops the entry.
Publish(e) ==
    IF subscribed = "yes" /\ Len(queue) < QueueMax THEN Append(queue, e) ELSE queue

LogEntry ==
    /\ logged < MaxEntries
    /\ logged' = logged + 1
    /\ queue' = Publish(logged + 1)
    /\ UNCHANGED <<subscribed, feedVars, consumer, connVars, open, wireVars>>

\* The agent's context is cancelled: Listen returns, its unsub closes the channel.
Unsubscribe ==
    /\ subscribed = "yes"
    /\ subscribed' = "closed"
    /\ UNCHANGED <<logged, queue, feedVars, consumer, connVars, open, wireVars>>

-----------------------------------------------------------------------------
(* forwardAudit *)

Receive ==
    /\ fpc = "idle" /\ queue # <<>>
    /\ hand' = Head(queue)
    /\ queue' = Tail(queue)
    /\ fpc' = "received"
    /\ UNCHANGED <<logged, subscribed, target, ring, forwarded, consumer, connVars, open, wireVars>>

\* The critical section.
Enring ==
    /\ fpc = "received"
    /\ forwarded' = Append(forwarded, hand)
    /\ ring' = LastOf(RingMax, Append(ring, hand))
    /\ target' = consumer
    /\ fpc' = IF consumer = None THEN "idle" ELSE "sending"
    /\ UNCHANGED <<logVars, hand, consumer, connVars, open, wireVars>>

Forward ==
    /\ fpc = "sending"
    /\ SendEvent(target, hand)
    /\ fpc' = "idle" /\ target' = None
    /\ UNCHANGED <<logVars, hand, ring, forwarded, consumer, connVars, open>>

\* With the context cancelled, forwardAudit may go on until the channel is empty.
FeedStops ==
    /\ fpc = "idle"
    /\ subscribed = "closed"
    /\ fpc' = "stopped"
    /\ UNCHANGED <<logVars, hand, target, ring, forwarded, consumer, connVars, open, wireVars>>

-----------------------------------------------------------------------------
(* handleConn: promote, replay, the read loop, demote *)

Promote(c) ==
    /\ hpc[c] = "none" /\ subscribed = "yes"
    /\ consumer' = c
    /\ open' = [open EXCEPT ![c] = TRUE]
    /\ old' = [old EXCEPT ![c] = consumer]
    /\ hpc' = [hpc EXCEPT ![c] = IF consumer = None THEN "replay" ELSE "superseding"]
    /\ \E n \in Replays : want' = [want EXCEPT ![c] = n]
    /\ UNCHANGED <<logVars, feedVars, evs, upto, wireVars>>

Supersede(c) ==
    /\ hpc[c] = "superseding"
    /\ open' = [open EXCEPT ![old[c]] = FALSE]
    /\ old' = [old EXCEPT ![c] = None]
    /\ hpc' = [hpc EXCEPT ![c] = "replay"]
    /\ UNCHANGED <<logVars, feedVars, consumer, want, evs, upto, wireVars>>

\* Mutant: replay takes the oldest events.
Replay_Oldest(c) ==
    /\ hpc[c] = "replay"
    /\ evs' = [evs EXCEPT ![c] = SubSeq(ring, 1, IF Len(ring) > want[c] THEN want[c] ELSE Len(ring))]
    /\ upto' = [upto EXCEPT ![c] = Len(forwarded)]
    /\ hpc' = [hpc EXCEPT ![c] = "replaying"]
    /\ UNCHANGED <<logVars, feedVars, consumer, old, want, open, wireVars>>

\* replay, the critical section.
Replay(c) ==
    /\ hpc[c] = "replay"
    /\ evs' = [evs EXCEPT ![c] = LastOf(want[c], ring)]
    /\ upto' = [upto EXCEPT ![c] = Len(forwarded)]
    /\ hpc' = [hpc EXCEPT ![c] = "replaying"]
    /\ UNCHANGED <<logVars, feedVars, consumer, old, want, open, wireVars>>

\* Mutant: replay goes through the ring itself instead of a copy.
ReplayEvent_Live(c) ==
    /\ hpc[c] = "replaying" /\ evs[c] # <<>>
    /\ SendEvent(c, Head(evs[c]))
    /\ evs' = [evs EXCEPT ![c] = SelectSeq(ring, LAMBDA e : e > Head(evs[c]))]
    /\ UNCHANGED <<logVars, feedVars, consumer, hpc, old, want, upto, open>>

ReplayEvent(c) ==
    /\ hpc[c] = "replaying" /\ evs[c] # <<>>
    /\ SendEvent(c, Head(evs[c]))
    /\ evs' = [evs EXCEPT ![c] = Tail(@)]
    /\ UNCHANGED <<logVars, feedVars, consumer, hpc, old, want, upto, open>>

Serve(c) ==
    /\ hpc[c] = "replaying" /\ evs[c] = <<>>
    /\ hpc' = [hpc EXCEPT ![c] = "serving"]
    /\ UNCHANGED <<logVars, feedVars, consumer, old, want, evs, upto, open, wireVars>>

\* Pings, approval requests and token responses go over the same connection: one
\* that goes through ends an unfinished frame, one that does not may leave another.
OtherFrame(c) ==
    /\ hpc[c] \notin {"none", "closed"}
    /\ \/ /\ open[c]
          /\ torn' = [torn EXCEPT ![c] = FALSE]
          /\ UNCHANGED <<got, failures, failed>>
       \/ SendTimesOut(c)
    /\ UNCHANGED <<logVars, feedVars, consumer, connVars, open>>

\* The read loop ends: the connection is closed, or a line is over maxFrameBytes.
Demote(c) ==
    /\ hpc[c] = "serving"
    /\ consumer' = IF consumer = c THEN None ELSE consumer
    /\ hpc' = [hpc EXCEPT ![c] = "demoted"]
    /\ UNCHANGED <<logVars, feedVars, old, want, evs, upto, open, wireVars>>

\* The deferred conn.Close.
Close(c) ==
    /\ hpc[c] = "demoted"
    /\ open' = [open EXCEPT ![c] = FALSE]
    /\ hpc' = [hpc EXCEPT ![c] = "closed"]
    /\ UNCHANGED <<logVars, feedVars, consumer, old, want, evs, upto, wireVars>>

-----------------------------------------------------------------------------
(* The app *)

Disconnect(c) ==
    /\ open[c]
    /\ open' = [open EXCEPT ![c] = FALSE]
    /\ UNCHANGED <<logVars, feedVars, consumer, connVars, wireVars>>

-----------------------------------------------------------------------------
ForwardAudit == Receive \/ Enring \/ Forward

Handler(c) ==
    \/ Promote(c) \/ Supersede(c) \/ Replay(c) \/ ReplayEvent(c) \/ Serve(c)
    \/ Demote(c) \/ Close(c)

Next ==
    \/ Subscribe \/ LogEntry \/ Unsubscribe
    \/ ForwardAudit \/ FeedStops
    \/ \E c \in Conns : Handler(c) \/ OtherFrame(c) \/ Disconnect(c)

Spec == Init /\ [][Next]_vars

-----------------------------------------------------------------------------
Entries == 1..MaxEntries

\* Every variable has its type.
TypeOK ==
    /\ logged \in 0..MaxEntries
    /\ subscribed \in {"no", "yes", "closed"}
    /\ queue \in Seq(Entries) /\ Len(queue) <= QueueMax
    /\ fpc \in {"none", "idle", "received", "sending", "stopped"}
    /\ hand \in 0..MaxEntries /\ target \in Conns \cup {None}
    /\ ring \in Seq(Entries) /\ Len(ring) <= RingMax
    /\ consumer \in Conns \cup {None}
    /\ hpc \in [Conns -> {"none", "superseding", "replay", "replaying", "serving", "demoted",
                      "closed"}]
    /\ old \in [Conns -> Conns \cup {None}]
    /\ want \in [Conns -> Replays \cup {0}]
    /\ evs \in [Conns -> Seq(Entries)]
    /\ upto \in [Conns -> Nat]
    /\ open \in [Conns -> BOOLEAN] /\ torn \in [Conns -> BOOLEAN]
    /\ got \in [Conns -> Seq(Entries)]
    /\ forwarded \in Seq(Entries)
    /\ failures \in 0..MaxFailures /\ failed \subseteq Conns

\* The events a connection has, or is about to be sent by forwardAudit.
Seen(c) == ToSet(got[c]) \cup (IF fpc = "sending" /\ target = c THEN {hand} ELSE {})

\* While it is the consumer, a connection that is past its replay and has had no
\* failed write lacks none of the events it asked for: the last want[c] (as far as
\* the ring reaches) at the time of the replay, and every one since.  No event falls
\* between the replay and the live feed, whatever they overlap with.
CaughtUp ==
    \A c \in Conns : consumer = c /\ hpc[c] = "serving" /\ c \notin failed =>
        ToSet(LastOf(Len(forwarded) - upto[c]
                       + (IF want[c] < RingMax THEN want[c] ELSE RingMax), forwarded))
            \subseteq Seen(c)

\* An event that comes out of order, or twice, is one that replay and the live feed
\* overlapped in: those forwarded after the replay's copy come once and in order.  (It
\* takes the types along.)
InOrderAfterReplay ==
    TypeOK /\ \A c \in Conns : hpc[c] \in {"replaying", "serving", "demoted", "closed"} =>
        LET copied == ToSet(SubSeq(forwarded, 1, upto[c]))
            late(i) == got[c][i] \notin copied IN
          \A i, j \in DOMAIN got[c] :
              i < j /\ late(i) /\ late(j) => got[c][i] < got[c][j]

=============================================================================
