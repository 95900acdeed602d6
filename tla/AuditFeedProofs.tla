------------------------- MODULE AuditFeedProofs -------------------------
(***************************************************************************)
(* Proofs about AuditFeed for any set of connections, any capacity of the  *)
(* subscription, any size of the ring and any number of entries and        *)
(* failing writes: a consumer lacks nothing it asked for, and what comes   *)
(* after its replay's copy comes once and in order.                        *)
(***************************************************************************)
EXTENDS AuditFeed, SequenceTheorems, TLAPS

-----------------------------------------------------------------------------
(* Sequences *)

\* Appending leaves the members in place and puts one behind them.
LEMMA AppendFacts ==
    ASSUME NEW S, NEW s \in Seq(S), NEW e \in S
    PROVE  /\ Append(s, e) \in Seq(S)
           /\ Len(s) \in Nat /\ Len(Append(s, e)) = Len(s) + 1
           /\ DOMAIN s = 1..Len(s) /\ DOMAIN Append(s, e) = 1..(Len(s) + 1)
           /\ \A i \in 1..Len(s) : Append(s, e)[i] = s[i]
           /\ Append(s, e)[Len(s) + 1] = e
  OBVIOUS

\* Taking the head off moves the others forward by one.
LEMMA TailFacts ==
    ASSUME NEW S, NEW s \in Seq(S), s # <<>>
    PROVE  /\ Head(s) \in S /\ Head(s) = s[1]
           /\ Tail(s) \in Seq(S)
           /\ Len(s) \in Nat \ {0} /\ Len(Tail(s)) = Len(s) - 1
           /\ DOMAIN s = 1..Len(s) /\ DOMAIN Tail(s) = 1..(Len(s) - 1)
           /\ \A i \in 1..(Len(s) - 1) : Tail(s)[i] = s[i + 1]
  BY HeadTailProperties, LenProperties, EmptySeq

\* LastOf is a suffix, no longer than it should be.
LEMMA LastOfFacts ==
    ASSUME NEW S, NEW s \in Seq(S), NEW n \in Nat
    PROVE  /\ LastOf(n, s) \in Seq(S)
           /\ Len(s) \in Nat /\ Len(LastOf(n, s)) = IF Len(s) > n THEN n ELSE Len(s)
           /\ DOMAIN LastOf(n, s) = 1..Len(LastOf(n, s))
           /\ \A i \in 1..Len(LastOf(n, s)) :
                LastOf(n, s)[i] = s[Len(s) - Len(LastOf(n, s)) + i]
<1> DEFINE m == IF Len(s) > n THEN Len(s) - n + 1 ELSE 1
<1>1. Len(s) \in Nat /\ m \in Int /\ m >= 1 /\ m <= Len(s) + 1
      /\ Len(s) - m + 1 = IF Len(s) > n THEN n ELSE Len(s)
  BY LenProperties
<1>2. \A i \in m..Len(s) : s[i] \in S
  BY <1>1, ElementOfSeq
<1>3. LastOf(n, s) = SubSeq(s, m, Len(s))
  BY DEF LastOf
<1>4. /\ LastOf(n, s) \in Seq(S)
      /\ Len(LastOf(n, s)) = Len(s) - m + 1
      /\ \A i \in 1..(Len(s) - m + 1) : LastOf(n, s)[i] = s[m + i - 1]
  <2> HIDE DEF m
  <2> QED
    BY <1>1, <1>2, <1>3, SubSeqProperties
<1>5. DOMAIN LastOf(n, s) = 1..Len(LastOf(n, s))
  BY <1>4, LenProperties
<1>6. \A i \in 1..Len(LastOf(n, s)) : m + i - 1 = Len(s) - Len(LastOf(n, s)) + i
  <2> HIDE DEF m
  <2> QED
    BY <1>1, <1>4
<1> QED
  BY <1>1, <1>4, <1>5, <1>6

\* The members of the first n of a sequence.
LEMMA FirstsFacts ==
    ASSUME NEW S, NEW s \in Seq(S), NEW n \in 0..Len(s)
    PROVE  ToSet(SubSeq(s, 1, n)) = {s[i] : i \in 1..n}
<1>1. Len(s) \in Nat /\ \A i \in 1..n : s[i] \in S
  BY LenProperties, ElementOfSeq
<1>2. /\ SubSeq(s, 1, n) \in Seq(S) /\ Len(SubSeq(s, 1, n)) = n
      /\ \A i \in 1..n : SubSeq(s, 1, n)[i] = s[i]
  BY <1>1, SubSeqProperties
<1>3. DOMAIN SubSeq(s, 1, n) = 1..n
  BY <1>2, LenProperties
<1> QED
  BY <1>2, <1>3 DEF ToSet

-----------------------------------------------------------------------------
(* Types *)

\* An event forwardAudit has taken from the channel is an entry, and one it is about to
\* send has a connection to go to; forwardAudit starts with the subscription.
HandIsEntry ==
    /\ fpc \in {"received", "sending"} => hand \in Entries
    /\ fpc = "sending" => target \in Conns
    /\ subscribed = "no" => fpc = "none"

\* What TypeOK says of the wire to the app.
WireTypes ==
    /\ torn \in [Conns -> BOOLEAN] /\ got \in [Conns -> Seq(Entries)]
    /\ failures \in 0..MaxFailures /\ failed \subseteq Conns

\* Whatever becomes of a write, the wire keeps its types.
LEMMA SendTypes ==
    ASSUME TypeOK, NEW c \in Conns, NEW e \in Entries, SendEvent(c, e)
    PROVE  WireTypes'
<1>1. WireTypes
  BY DEF TypeOK, WireTypes
<1>2. CASE SendOk(c, e)
  BY <1>1, <1>2, AppendFacts DEF SendOk, WireTypes
<1>3. CASE SendClosed(c)
  BY <1>1, <1>3 DEF SendClosed, WireTypes
<1>4. CASE SendTimesOut(c)
  <2>1. failures + 1 \in 0..MaxFailures
    BY <1>1, <1>4, FeedAssumption DEF SendTimesOut, WireTypes
  <2> QED
    BY <1>1, <1>4, <2>1 DEF SendTimesOut, WireTypes
<1> QED
  BY <1>2, <1>3, <1>4 DEF SendEvent

\* The number of events a connection asks for is a number.
LEMMA WantIsNat == ASSUME TypeOK, NEW c \in Conns PROVE want[c] \in Nat
<1>1. want \in [Conns -> Replays \cup {0}]
  BY DEF TypeOK
<1>2. Replays \cup {0} \subseteq Nat
  BY FeedAssumption
<1> QED
  BY <1>1, <1>2

\* Every step keeps the types.
LEMMA TypeStep == ASSUME TypeOK, HandIsEntry, [Next]_vars PROVE TypeOK' /\ HandIsEntry'
<1> USE DEF TypeOK, HandIsEntry, vars, logVars, feedVars, connVars, wireVars
<1>1. CASE Subscribe
  BY <1>1 DEF Subscribe
<1>2. CASE LogEntry
  <2>1. logged + 1 \in Entries /\ logged' \in 0..MaxEntries
    BY <1>2, FeedAssumption DEF LogEntry, Entries
  <2>2. queue' \in Seq(Entries) /\ Len(queue') <= QueueMax
    <3>1. CASE subscribed = "yes" /\ Len(queue) < QueueMax
      <4>1. queue' = Append(queue, logged + 1)
        BY <1>2, <3>1 DEF LogEntry, Publish
      <4> QED
        BY <2>1, <3>1, <4>1, AppendFacts, FeedAssumption
    <3> QED
      BY <1>2, <3>1 DEF LogEntry, Publish
  <2> QED
    BY <1>2, <2>1, <2>2 DEF LogEntry
<1>3. CASE Unsubscribe
  BY <1>3 DEF Unsubscribe
<1>4. CASE Receive
  <2>1. /\ Head(queue) \in Entries /\ Tail(queue) \in Seq(Entries)
        /\ Len(queue) \in Nat /\ Len(Tail(queue)) = Len(queue) - 1
    BY <1>4, TailFacts DEF Receive
  <2>2. hand' \in 0..MaxEntries
    BY <1>4, <2>1 DEF Receive, Entries
  <2>3. Len(queue') <= QueueMax
    BY <1>4, <2>1, FeedAssumption DEF Receive
  <2> QED
    BY <1>4, <2>1, <2>2, <2>3 DEF Receive
<1>5. CASE Enring
  <2>1. Append(forwarded, hand) \in Seq(Entries) /\ Append(ring, hand) \in Seq(Entries)
    BY <1>5, AppendFacts DEF Enring
  <2>2. ring' \in Seq(Entries) /\ Len(ring') <= RingMax
    <3> DEFINE r == Append(ring, hand)
    <3>1. /\ LastOf(RingMax, r) \in Seq(Entries) /\ Len(r) \in Nat
          /\ Len(LastOf(RingMax, r)) = IF Len(r) > RingMax THEN RingMax ELSE Len(r)
      <4> HIDE DEF r
      <4> QED
        BY <2>1, LastOfFacts, FeedAssumption DEF r
    <3>2. ring' = LastOf(RingMax, r)
      BY <1>5 DEF Enring
    <3> QED
      BY <3>1, <3>2, FeedAssumption
  <2> QED
    BY <1>5, <2>1, <2>2, NoneNotConn DEF Enring
<1>6. CASE Forward
  <2>1. WireTypes'
    BY <1>6, SendTypes DEF Forward
  <2> QED
    BY <1>6, <2>1 DEF Forward, WireTypes
<1>7. CASE FeedStops
  BY <1>7 DEF FeedStops
<1>8. ASSUME NEW c \in Conns, Handler(c) \/ OtherFrame(c) \/ Disconnect(c)
      PROVE  TypeOK' /\ HandIsEntry'
  <2>1. CASE Promote(c)
    BY <2>1 DEF Promote
  <2>2. CASE Supersede(c)
    BY <2>2 DEF Supersede
  <2>3. CASE Replay(c)
    <3>1. want[c] \in Nat
      BY WantIsNat
    <3>2. LastOf(want[c], ring) \in Seq(Entries) /\ Len(forwarded) \in Nat
      BY <3>1, LastOfFacts, LenProperties
    <3> QED
      BY <2>3, <3>2 DEF Replay
  <2>4. CASE ReplayEvent(c)
    <3>1. Head(evs[c]) \in Entries /\ Tail(evs[c]) \in Seq(Entries)
      BY <2>4, TailFacts DEF ReplayEvent
    <3>2. WireTypes'
      BY <2>4, <3>1, SendTypes DEF ReplayEvent
    <3> QED
      BY <2>4, <3>1, <3>2 DEF ReplayEvent, WireTypes
  <2>5. CASE Serve(c)
    BY <2>5 DEF Serve
  <2>6. CASE OtherFrame(c)
    <3>1. CASE SendTimesOut(c)
      <4>1. failures + 1 \in 0..MaxFailures
        BY <3>1, FeedAssumption DEF SendTimesOut
      <4>2. torn' \in [Conns -> BOOLEAN] /\ failed' \subseteq Conns
        BY <3>1 DEF SendTimesOut
      <4>3. /\ failures' = failures + 1 /\ got' = got
            /\ UNCHANGED <<logVars, feedVars, consumer, connVars, open>>
        BY <2>6, <3>1 DEF OtherFrame, SendTimesOut
      <4> QED
        BY <4>1, <4>2, <4>3
    <3> QED
      BY <2>6, <3>1 DEF OtherFrame
  <2>7. CASE Demote(c)
    BY <2>7 DEF Demote
  <2>8. CASE Close(c)
    BY <2>8 DEF Close
  <2>9. CASE Disconnect(c)
    BY <2>9 DEF Disconnect
  <2> QED
    BY <1>8, <2>1, <2>2, <2>3, <2>4, <2>5, <2>6, <2>7, <2>8, <2>9 DEF Handler
<1>9. CASE UNCHANGED vars
  BY <1>9
<1> QED
  BY <1>1, <1>2, <1>3, <1>4, <1>5, <1>6, <1>7, <1>8, <1>9 DEF Next, ForwardAudit

\* The types hold as the agent starts.
LEMMA TypeInit == ASSUME Init PROVE TypeOK /\ HandIsEntry
<1>1. <<>> \in Seq(Entries) /\ Len(<<>>) = 0
  BY EmptySeq
<1> QED
  BY <1>1, FeedAssumption DEF Init, TypeOK, HandIsEntry

\* The types hold in every reachable state.
THEOREM TypeCorrect == Spec => [](TypeOK /\ HandIsEntry)
  BY TypeInit, TypeStep, PTL DEF Spec

-----------------------------------------------------------------------------
(* The invariant *)

\* Entries come out of the channel in the order they were logged: what is still in it
\* is newer than all that was forwarded.
Ordered ==
    /\ \A i, j \in 1..Len(forwarded) : i < j => forwarded[i] < forwarded[j]
    /\ \A i, j \in 1..Len(queue) : i < j => queue[i] < queue[j]
    /\ \A j \in 1..Len(queue) : queue[j] <= logged
    /\ \A i \in 1..Len(forwarded) :
         forwarded[i] <= logged /\ \A j \in 1..Len(queue) : forwarded[i] < queue[j]

\* The event in hand stands between those forwarded and those in the channel, and is
\* the last one forwarded while it is sent.
HandNext ==
    /\ fpc = "received" =>
         /\ hand <= logged
         /\ \A i \in 1..Len(forwarded) : forwarded[i] < hand
         /\ \A j \in 1..Len(queue) : hand < queue[j]
    /\ fpc = "sending" => Len(forwarded) > 0 /\ hand = forwarded[Len(forwarded)]

\* The ring holds the last of the events forwarded.
RingIsLast ==
    /\ Len(ring) = IF Len(forwarded) > RingMax THEN RingMax ELSE Len(forwarded)
    /\ \A k \in 1..Len(ring) : ring[k] = forwarded[Len(forwarded) - Len(ring) + k]

\* All that a connection gets was forwarded, what it is replayed before the copy.
FromFeed ==
    \A c \in Conns :
        /\ upto[c] <= Len(forwarded)
        /\ \A i \in 1..Len(got[c]) : \E k \in 1..Len(forwarded) : got[c][i] = forwarded[k]
        /\ \A i \in 1..Len(evs[c]) : \E k \in 1..upto[c] : evs[c][i] = forwarded[k]

Past == {"replaying", "serving", "demoted", "closed"}

\* An event forwarded after replay copied the ring for a connection.
Late(c, e) == \A k \in 1..upto[c] : e # forwarded[k]

\* The late events of a connection are in order, with the one on its way to it.
LateInOrder ==
    \A c \in Conns : hpc[c] \in Past =>
        /\ \A i, j \in 1..Len(got[c]) :
             i < j /\ Late(c, got[c][i]) /\ Late(c, got[c][j]) => got[c][i] < got[c][j]
        /\ fpc = "sending" /\ target = c =>
             \A i \in 1..Len(got[c]) :
                 Late(c, got[c][i]) /\ Late(c, hand) => got[c][i] < hand

\* A connection has an event, or forwardAudit is about to send it.
Has(c, e) == (\E i \in 1..Len(got[c]) : got[c][i] = e) \/ (fpc = "sending" /\ target = c /\ hand = e)

\* How many events a connection may be replayed.
Asked(c) == IF want[c] < RingMax THEN want[c] ELSE RingMax

\* An unfinished frame is left by a failed write.
TornIsFailed == \A c \in Conns : torn[c] => c \in failed

\* A connection is served once it has been sent all it is replayed.
Replayed == \A c \in Conns : hpc[c] = "serving" => Len(evs[c]) = 0

\* An event the consumer asked for and has not got is still to be replayed.
Whole ==
    \A c \in Conns : consumer = c /\ hpc[c] \in {"replaying", "serving"} /\ c \notin failed =>
        \A k \in 1..Len(forwarded) :
            /\ k > upto[c] => Has(c, forwarded[k])
            /\ k <= upto[c] /\ k > upto[c] - Asked(c) =>
                 Has(c, forwarded[k]) \/ \E i \in 1..Len(evs[c]) : evs[c][i] = forwarded[k]

Types == TypeOK /\ HandIsEntry

FInv ==
    /\ Types /\ Ordered /\ HandNext /\ RingIsLast /\ FromFeed
    /\ LateInOrder /\ TornIsFailed /\ Replayed /\ Whole

-----------------------------------------------------------------------------
(* Order *)

\* Lengths are numbers.
LEMMA Lengths ==
    ASSUME Types
    PROVE  /\ Len(forwarded) \in Nat /\ Len(queue) \in Nat /\ Len(ring) \in Nat
           /\ logged \in Nat
           /\ \A i \in 1..Len(forwarded) : forwarded[i] \in Nat
           /\ \A i \in 1..Len(queue) : queue[i] \in Nat
           /\ \A c \in Conns : /\ Len(got[c]) \in Nat /\ Len(evs[c]) \in Nat
                              /\ \A i \in 1..Len(got[c]) : got[c][i] \in Nat
<1>1. Entries \subseteq Nat
  BY FeedAssumption DEF Entries
<1>2. \A q \in Seq(Entries) : Len(q) \in Nat /\ \A i \in 1..Len(q) : q[i] \in Nat
  BY <1>1, LenProperties, ElementOfSeq
<1>3. forwarded \in Seq(Entries) /\ queue \in Seq(Entries) /\ ring \in Seq(Entries)
  BY DEF Types, TypeOK
<1>4. logged \in Nat
  BY FeedAssumption DEF Types, TypeOK
<1>5. \A c \in Conns : got[c] \in Seq(Entries) /\ evs[c] \in Seq(Entries)
  BY DEF Types, TypeOK
<1> QED
  BY <1>2, <1>3, <1>4, <1>5

\* Every step keeps the order of the entries.
LEMMA OrderedStep ==
    ASSUME Types, Types', Ordered, HandNext, [Next]_vars
    PROVE  Ordered' /\ HandNext'
<1> USE DEF Ordered, HandNext
<1>1. CASE LogEntry
  <2>1. /\ UNCHANGED <<forwarded, hand, fpc>> /\ logged' = logged + 1
        /\ \/ UNCHANGED queue
           \/ queue' = Append(queue, logged + 1)
    BY <1>1 DEF LogEntry, Publish, feedVars
  <2>a. /\ Len(forwarded) \in Nat /\ Len(queue) \in Nat /\ logged \in Nat
        /\ \A i \in 1..Len(forwarded) : forwarded[i] \in Nat
        /\ \A i \in 1..Len(queue) : queue[i] \in Nat
    BY Lengths
  <2>b. ASSUME NEW n \in Nat, n <= logged PROVE n <= logged' /\ n < logged + 1
    BY <2>1, <2>a, <2>b
  <2>2. CASE UNCHANGED queue
    <3>1. hand \in Nat
      BY FeedAssumption DEF Types, TypeOK
    <3>2. \A j \in 1..Len(queue) : queue[j] <= logged'
      BY <2>a, <2>b
    <3>3. \A i \in 1..Len(forwarded) : forwarded[i] <= logged'
      BY <2>a, <2>b
    <3>4. fpc = "received" => hand <= logged'
      BY <2>b, <3>1
    <3> QED
      BY <2>1, <2>2, <3>2, <3>3, <3>4
  <2>3. CASE queue' = Append(queue, logged + 1)
    <3>1. logged + 1 \in Entries /\ queue \in Seq(Entries)
      BY <1>1, Lengths, FeedAssumption DEF LogEntry, Types, TypeOK, Entries
    <3>2. /\ Len(queue') = Len(queue) + 1 /\ queue'[Len(queue) + 1] = logged + 1
          /\ \A i \in 1..Len(queue) : queue'[i] = queue[i]
      BY <2>3, <3>1, AppendFacts
    <3>3. ASSUME NEW i \in 1..Len(queue') PROVE i \in 1..Len(queue) \/ i = Len(queue) + 1
      BY <2>a, <3>2
    <3>4. \A i, j \in 1..Len(queue') : i < j => queue'[i] < queue'[j]
      <4> SUFFICES ASSUME NEW i \in 1..Len(queue'), NEW j \in 1..Len(queue'), i < j
                   PROVE  queue'[i] < queue'[j]
        OBVIOUS
      <4>1. i \in 1..Len(queue)
        BY <2>a, <3>2
      <4> QED
        BY <2>a, <2>b, <3>2, <3>3, <4>1
    <3>5. \A j \in 1..Len(queue') : queue'[j] <= logged'
      <4> TAKE j \in 1..Len(queue')
      <4>1. CASE j \in 1..Len(queue)
        <5>1. queue'[j] = queue[j] /\ queue[j] \in Nat /\ queue[j] <= logged
          BY <2>a, <3>2, <4>1
        <5> QED
          BY <2>b, <5>1
      <4>2. CASE j = Len(queue) + 1
        BY <2>1, <2>a, <3>2, <4>2
      <4> QED
        BY <3>3, <4>1, <4>2
    <3>6. \A i \in 1..Len(forwarded') :
              forwarded'[i] <= logged' /\ \A j \in 1..Len(queue') : forwarded'[i] < queue'[j]
      BY <2>1, <2>a, <2>b, <3>2, <3>3
    <3>7. fpc' = "received" => hand' <= logged' /\ \A j \in 1..Len(queue') : hand' < queue'[j]
      <4>1. hand \in Nat
        BY FeedAssumption DEF Types, TypeOK
      <4> QED
        BY <2>1, <2>a, <2>b, <3>2, <3>3, <4>1
    <3> QED
      BY <2>1, <3>4, <3>5, <3>6, <3>7
  <2> QED
    BY <2>1, <2>2, <2>3
<1>2. CASE Receive
  <2>1. /\ UNCHANGED <<forwarded, logged>> /\ hand' = Head(queue) /\ queue' = Tail(queue)
        /\ fpc' = "received" /\ queue # <<>> /\ queue \in Seq(Entries)
    BY <1>2 DEF Receive, Types, TypeOK
  <2>2. /\ hand' = queue[1] /\ Len(queue') = Len(queue) - 1 /\ Len(queue) > 0
        /\ \A i \in 1..(Len(queue) - 1) : queue'[i] = queue[i + 1]
    BY <2>1, TailFacts
  <2> QED
    BY <2>1, <2>2, Lengths
<1>3. CASE Enring
  <2>1. /\ fpc = "received" /\ fpc' \in {"idle", "sending"} /\ UNCHANGED <<queue, logged, hand>>
        /\ forwarded' = Append(forwarded, hand) /\ forwarded \in Seq(Entries)
        /\ hand \in Entries /\ hand \in Nat
    BY <1>3, FeedAssumption DEF Enring, Types, TypeOK, HandIsEntry, logVars, Entries
  <2>2. /\ Len(forwarded') = Len(forwarded) + 1 /\ forwarded'[Len(forwarded) + 1] = hand
        /\ \A i \in 1..Len(forwarded) : forwarded'[i] = forwarded[i]
    BY <2>1, AppendFacts
  <2> QED
    BY <2>1, <2>2, Lengths
<1>4. CASE /\ UNCHANGED <<queue, logged, forwarded, hand>>
           /\ fpc' = fpc \/ fpc' \in {"idle", "stopped"}
  BY <1>4
<1>5. \/ LogEntry \/ Receive \/ Enring
      \/ /\ UNCHANGED <<queue, logged, forwarded, hand>>
         /\ fpc' = fpc \/ fpc' \in {"idle", "stopped"}
  BY DEF Next, vars, logVars, feedVars, ForwardAudit, Handler, Subscribe, Unsubscribe, Forward,
         FeedStops, Promote, Supersede, Replay, ReplayEvent, Serve, OtherFrame, Demote, Close,
         Disconnect
<1> QED
  BY <1>1, <1>2, <1>3, <1>4, <1>5

\* The ring stays the last of what was forwarded.
LEMMA RingStep ==
    ASSUME Types, RingIsLast, [Next]_vars
    PROVE  RingIsLast'
<1> USE DEF RingIsLast
<1>1. CASE Enring
  <2> DEFINE r == Append(ring, hand)
  <2>1. /\ forwarded' = Append(forwarded, hand) /\ ring' = LastOf(RingMax, r)
        /\ forwarded \in Seq(Entries) /\ ring \in Seq(Entries) /\ hand \in Entries
    BY <1>1 DEF Enring, Types, TypeOK, HandIsEntry
  <2>2. /\ Len(forwarded') = Len(forwarded) + 1 /\ forwarded'[Len(forwarded) + 1] = hand
        /\ \A i \in 1..Len(forwarded) : forwarded'[i] = forwarded[i]
    BY <2>1, AppendFacts
  <2>3. /\ r \in Seq(Entries) /\ Len(r) = Len(ring) + 1 /\ r[Len(ring) + 1] = hand
        /\ \A i \in 1..Len(ring) : r[i] = ring[i]
    BY <2>1, AppendFacts
  <2> HIDE DEF r
  <2>4. RingMax \in Nat \ {0}
    BY FeedAssumption
  <2>5. /\ Len(ring') = IF Len(r) > RingMax THEN RingMax ELSE Len(r)
        /\ \A i \in 1..Len(ring') : ring'[i] = r[Len(r) - Len(ring') + i]
    BY <2>1, <2>3, <2>4, LastOfFacts
  <2>6. Len(forwarded) \in Nat /\ Len(ring) \in Nat
    BY Lengths
  <2>7. Len(ring') = IF Len(forwarded') > RingMax THEN RingMax ELSE Len(forwarded')
    BY <2>2, <2>3, <2>4, <2>5, <2>6
  <2>8. \A k \in 1..(Len(ring) + 1) :
            r[k] = forwarded'[Len(forwarded') - (Len(ring) + 1) + k]
    <3> TAKE k \in 1..(Len(ring) + 1)
    <3>1. CASE k = Len(ring) + 1
      <4>1. Len(forwarded') - (Len(ring) + 1) + k = Len(forwarded) + 1
        BY <2>2, <2>6, <3>1
      <4> QED
        BY <2>2, <2>3, <3>1, <4>1
    <3>2. CASE k \in 1..Len(ring)
      <4>1. /\ Len(forwarded') - (Len(ring) + 1) + k = Len(forwarded) - Len(ring) + k
            /\ Len(forwarded) - Len(ring) + k \in 1..Len(forwarded)
        BY <2>2, <2>4, <2>6, <3>2
      <4> QED
        BY <2>2, <2>3, <3>2, <4>1
    <3> QED
      BY <2>6, <3>1, <3>2
  <2>9. ASSUME NEW k \in 1..Len(ring') PROVE ring'[k] = forwarded'[Len(forwarded') - Len(ring') + k]
    <3>0. Len(ring') \in Nat /\ Len(r) \in Nat /\ Len(ring') <= Len(r) /\ Len(forwarded') \in Nat
      BY <2>2, <2>3, <2>4, <2>5, <2>6
    <3> DEFINE n == Len(ring')
               m == Len(ring)
               f == Len(forwarded)
    <3>1. /\ Len(r) - Len(ring') + k \in 1..(Len(ring) + 1)
          /\ Len(forwarded') - (Len(ring) + 1) + (Len(r) - Len(ring') + k)
             = Len(forwarded') - Len(ring') + k
      <4>1. /\ n \in Nat /\ m \in Nat /\ f \in Nat /\ n <= m + 1 /\ k \in 1..n
            /\ Len(r) = m + 1 /\ Len(forwarded') = f + 1
        BY <2>2, <2>3, <2>6, <3>0
      <4> HIDE DEF n, m, f
      <4>2. m + 1 - n + k \in 1..(m + 1)
        BY <4>1
      <4>3. f + 1 - (m + 1) + (m + 1 - n + k) = f + 1 - n + k
        BY <4>1
      <4>4. /\ Len(r) - n + k = m + 1 - n + k
            /\ Len(forwarded') - (m + 1) + (Len(r) - n + k) = f + 1 - (m + 1) + (m + 1 - n + k)
            /\ Len(forwarded') - n + k = f + 1 - n + k
        BY <4>1
      <4>5. /\ Len(r) - n + k \in 1..(m + 1)
            /\ Len(forwarded') - (m + 1) + (Len(r) - n + k) = Len(forwarded') - n + k
        BY <4>2, <4>3, <4>4
      <4> QED
        BY <4>5 DEF n, m, f
    <3> QED
      BY <2>5, <2>8, <3>1
  <2> QED
    BY <2>7, <2>9
<1>2. CASE UNCHANGED <<ring, forwarded>>
  BY <1>2
<1>3. Enring \/ UNCHANGED <<ring, forwarded>>
  BY DEF Next, vars, logVars, feedVars, ForwardAudit, Handler, Subscribe, LogEntry, Unsubscribe,
         Receive, Forward, FeedStops, Promote, Supersede, Replay, ReplayEvent, Serve, OtherFrame,
         Demote, Close, Disconnect
<1> QED
  BY <1>1, <1>2, <1>3

-----------------------------------------------------------------------------
(* What a connection gets *)

\* A write leaves what a connection has got, or puts the event behind it; one that does
\* not fail, and finds no unfinished frame, puts it there.
LEMMA SendGot ==
    ASSUME Types, TornIsFailed, NEW c \in Conns, NEW e \in Entries, SendEvent(c, e)
    PROVE  /\ \A d \in Conns : d # c => got'[d] = got[d]
           /\ \/ got'[c] = got[c]
              \/ /\ Len(got'[c]) = Len(got[c]) + 1 /\ got'[c][Len(got[c]) + 1] = e
                 /\ \A i \in 1..Len(got[c]) : got'[c][i] = got[c][i]
           /\ failed \subseteq failed'
           /\ c \notin failed' => /\ Len(got'[c]) = Len(got[c]) + 1
                                 /\ got'[c][Len(got[c]) + 1] = e
           /\ TornIsFailed'
<1> DEFINE Grows == /\ Len(got'[c]) = Len(got[c]) + 1 /\ got'[c][Len(got[c]) + 1] = e
                    /\ \A i \in 1..Len(got[c]) : got'[c][i] = got[c][i]
<1>1. /\ got \in [Conns -> Seq(Entries)] /\ torn \in [Conns -> BOOLEAN]
  BY DEF Types, TypeOK
<1>2. got' = [got EXCEPT ![c] = Append(@, e)] => Grows /\ \A d \in Conns : d # c => got'[d] = got[d]
  BY <1>1, AppendFacts
<1>3. CASE SendOk(c, e)
  <2>1. /\ failed' = failed /\ torn' = [torn EXCEPT ![c] = FALSE]
        /\ got' = IF torn[c] THEN got ELSE [got EXCEPT ![c] = Append(@, e)]
    BY <1>3 DEF SendOk
  <2>2. TornIsFailed'
    BY <1>1, <2>1 DEF TornIsFailed
  <2>3. torn[c] => c \in failed'
    BY <2>1 DEF TornIsFailed
  <2> HIDE DEF Grows
  <2>4. /\ \A d \in Conns : d # c => got'[d] = got[d]
        /\ got'[c] = got[c] \/ Grows
        /\ ~torn[c] => Grows
    BY <1>2, <2>1
  <2> QED
    BY <2>1, <2>2, <2>3, <2>4 DEF Grows
<1>4. CASE SendClosed(c) \/ SendTimesOut(c)
  <2>1. got' = got /\ failed' = failed \cup {c} /\ \A d \in Conns : d # c => torn'[d] = torn[d]
    BY <1>1, <1>4 DEF SendClosed, SendTimesOut
  <2> QED
    BY <2>1 DEF TornIsFailed
<1> QED
  BY <1>3, <1>4 DEF SendEvent

\* Every step but these leaves what connections have got and are replayed.
OtherFeed == UNCHANGED <<got, evs, upto, forwarded>>

\* All that a connection gets goes on coming from the feed.
LEMMA FromFeedStep ==
    ASSUME Types, TornIsFailed, HandNext, RingIsLast, FromFeed, [Next]_vars
    PROVE  FromFeed'
<1> USE DEF FromFeed
<1>0. forwarded \in Seq(Entries) /\ evs \in [Conns -> Seq(Entries)] /\ upto \in [Conns -> Nat]
  BY DEF Types, TypeOK
<1>1. CASE Enring
  <2>1. /\ UNCHANGED <<got, evs, upto>> /\ forwarded' = Append(forwarded, hand)
        /\ hand \in Entries
    BY <1>1 DEF Enring, Types, HandIsEntry, connVars, wireVars
  <2>2. /\ Len(forwarded) \in Nat /\ Len(forwarded') = Len(forwarded) + 1
        /\ \A i \in 1..Len(forwarded) : forwarded'[i] = forwarded[i]
    BY <1>0, <2>1, AppendFacts
  <2>3. \A k \in 1..Len(forwarded) : k \in 1..Len(forwarded')
    BY <2>2
  <2>4. ASSUME NEW c \in Conns
        PROVE  /\ upto[c] <= Len(forwarded')
               /\ \A k \in 1..upto[c] : k \in 1..Len(forwarded)
    BY <1>0, <2>2
  <2>5. ASSUME NEW c \in Conns
        PROVE  \A i \in 1..Len(got[c]) : \E k \in 1..Len(forwarded') : got[c][i] = forwarded'[k]
    <3> TAKE i \in 1..Len(got[c])
    <3>1. PICK k \in 1..Len(forwarded) : got[c][i] = forwarded[k]
      OBVIOUS
    <3> QED
      BY <2>2, <2>3, <3>1
  <2>6. ASSUME NEW c \in Conns
        PROVE  \A i \in 1..Len(evs[c]) : \E k \in 1..upto[c] : evs[c][i] = forwarded'[k]
    <3> TAKE i \in 1..Len(evs[c])
    <3>1. PICK k \in 1..upto[c] : evs[c][i] = forwarded[k]
      OBVIOUS
    <3> QED
      BY <2>2, <2>4, <3>1
  <2> QED
    BY <2>1, <2>4, <2>5, <2>6
<1>2. CASE Forward
  <2>1. /\ target \in Conns /\ hand \in Entries /\ SendEvent(target, hand)
        /\ UNCHANGED <<evs, upto, forwarded>>
        /\ Len(forwarded) > 0 /\ hand = forwarded[Len(forwarded)]
    BY <1>2 DEF Forward, Types, HandIsEntry, HandNext, connVars
  <2>2. /\ \A d \in Conns : d # target => got'[d] = got[d]
        /\ \/ got'[target] = got[target]
           \/ /\ Len(got'[target]) = Len(got[target]) + 1
              /\ got'[target][Len(got[target]) + 1] = hand
              /\ \A i \in 1..Len(got[target]) : got'[target][i] = got[target][i]
    BY <2>1, SendGot
  <2>3. Len(forwarded) \in 1..Len(forwarded) /\ Len(got[target]) \in Nat
    BY <2>1, Lengths
  <2>4. ASSUME NEW i \in 1..Len(got'[target])
        PROVE  \E k \in 1..Len(forwarded) : got'[target][i] = forwarded[k]
    <3>1. CASE i \in 1..Len(got[target]) /\ got'[target][i] = got[target][i]
      BY <2>1, <3>1
    <3>2. CASE got'[target][i] = hand
      BY <2>1, <2>3, <3>2
    <3>3. \/ i \in 1..Len(got[target]) /\ got'[target][i] = got[target][i]
          \/ got'[target][i] = hand
      <4>1. Len(got'[target]) = Len(got[target]) + 1 =>
                i \in 1..Len(got[target]) \/ i = Len(got[target]) + 1
        BY <2>3
      <4> QED
        BY <2>2, <4>1
    <3> QED
      BY <3>1, <3>2, <3>3
  <2>5. ASSUME NEW d \in Conns
        PROVE  /\ upto'[d] <= Len(forwarded')
               /\ \A i \in 1..Len(got'[d]) : \E k \in 1..Len(forwarded') : got'[d][i] = forwarded'[k]
               /\ \A i \in 1..Len(evs'[d]) : \E k \in 1..upto'[d] : evs'[d][i] = forwarded'[k]
    <3>1. CASE d = target
      BY <2>1, <2>4, <3>1
    <3>2. CASE d # target
      BY <2>1, <2>2, <3>2
    <3> QED
      BY <3>1, <3>2
  <2> QED
    BY <2>5
<1>3. ASSUME NEW c \in Conns, ReplayEvent(c) PROVE FromFeed'
  <2>1. /\ evs[c] # <<>> /\ SendEvent(c, Head(evs[c])) /\ evs' = [evs EXCEPT ![c] = Tail(@)]
        /\ UNCHANGED <<upto, forwarded>>
    BY <1>3 DEF ReplayEvent, feedVars
  <2>2. /\ Head(evs[c]) \in Entries /\ Head(evs[c]) = evs[c][1] /\ Len(evs[c]) \in Nat \ {0}
        /\ evs'[c] = Tail(evs[c]) /\ Len(evs'[c]) = Len(evs[c]) - 1
        /\ \A i \in 1..(Len(evs[c]) - 1) : evs'[c][i] = evs[c][i + 1]
        /\ \A d \in Conns : d # c => evs'[d] = evs[d]
    BY <1>0, <2>1, TailFacts
  <2>3. /\ \A d \in Conns : d # c => got'[d] = got[d]
        /\ \/ got'[c] = got[c]
           \/ /\ Len(got'[c]) = Len(got[c]) + 1 /\ got'[c][Len(got[c]) + 1] = Head(evs[c])
              /\ \A i \in 1..Len(got[c]) : got'[c][i] = got[c][i]
    BY <2>1, <2>2, SendGot
  <2>4. /\ Len(forwarded) \in Nat /\ Len(got[c]) \in Nat /\ upto[c] \in Nat
    BY <1>0, Lengths
  <2>5. \E k \in 1..Len(forwarded) : Head(evs[c]) = forwarded[k]
    <3>1. PICK k \in 1..upto[c] : evs[c][1] = forwarded[k]
      BY <2>2
    <3> QED
      BY <2>2, <2>4, <3>1
  <2>6. ASSUME NEW i \in 1..Len(got'[c])
        PROVE  \E k \in 1..Len(forwarded) : got'[c][i] = forwarded[k]
    <3>1. CASE i \in 1..Len(got[c]) /\ got'[c][i] = got[c][i]
      BY <3>1
    <3>2. CASE got'[c][i] = Head(evs[c])
      BY <2>5, <3>2
    <3>3. \/ i \in 1..Len(got[c]) /\ got'[c][i] = got[c][i]
          \/ got'[c][i] = Head(evs[c])
      <4>1. Len(got'[c]) = Len(got[c]) + 1 => i \in 1..Len(got[c]) \/ i = Len(got[c]) + 1
        BY <2>4
      <4> QED
        BY <2>3, <4>1
    <3> QED
      BY <3>1, <3>2, <3>3
  <2>7. ASSUME NEW i \in 1..Len(evs'[c])
        PROVE  \E k \in 1..upto[c] : evs'[c][i] = forwarded[k]
    <3>1. i \in 1..(Len(evs[c]) - 1) /\ i + 1 \in 1..Len(evs[c])
      BY <2>2
    <3> QED
      BY <2>2, <3>1
  <2>8. ASSUME NEW d \in Conns
        PROVE  /\ upto'[d] <= Len(forwarded')
               /\ \A i \in 1..Len(got'[d]) : \E k \in 1..Len(forwarded') : got'[d][i] = forwarded'[k]
               /\ \A i \in 1..Len(evs'[d]) : \E k \in 1..upto'[d] : evs'[d][i] = forwarded'[k]
    <3>1. upto'[d] = upto[d] /\ forwarded' = forwarded /\ upto[d] <= Len(forwarded)
      BY <2>1
    <3>2. \A i \in 1..Len(got'[d]) : \E k \in 1..Len(forwarded) : got'[d][i] = forwarded[k]
      BY <2>3, <2>6
    <3>3. \A i \in 1..Len(evs'[d]) : \E k \in 1..upto[d] : evs'[d][i] = forwarded[k]
      <4>1. CASE d = c
        BY <2>7, <4>1
      <4>2. CASE d # c
        <5>1. evs'[d] = evs[d]
          BY <2>2, <4>2
        <5> QED
          BY <5>1
      <4> QED
        BY <4>1, <4>2
    <3> QED
      BY <3>1, <3>2, <3>3
  <2> QED
    BY <2>8
<1>4. ASSUME NEW c \in Conns, Replay(c) PROVE FromFeed'
  <2>1. /\ UNCHANGED <<got, forwarded>> /\ evs' = [evs EXCEPT ![c] = LastOf(want[c], ring)]
        /\ upto' = [upto EXCEPT ![c] = Len(forwarded)] /\ ring \in Seq(Entries)
    BY <1>4 DEF Replay, feedVars, wireVars, Types, TypeOK
  <2>2. /\ upto'[c] = Len(forwarded) /\ evs'[c] = LastOf(want[c], ring)
        /\ \A d \in Conns : d # c => upto'[d] = upto[d] /\ evs'[d] = evs[d]
    BY <1>0, <2>1
  <2>3. want[c] \in Nat /\ Len(forwarded) \in Nat /\ Len(ring) \in Nat /\ RingMax \in Nat
    BY WantIsNat, Lengths, FeedAssumption DEF Types
  <2>4. /\ Len(evs'[c]) = IF Len(ring) > want[c] THEN want[c] ELSE Len(ring)
        /\ \A i \in 1..Len(evs'[c]) : evs'[c][i] = ring[Len(ring) - Len(evs'[c]) + i]
    <3> DEFINE l == LastOf(want[c], ring)
    <3>1. /\ Len(l) = IF Len(ring) > want[c] THEN want[c] ELSE Len(ring)
          /\ \A i \in 1..Len(l) : l[i] = ring[Len(ring) - Len(l) + i]
      BY <2>1, <2>3, LastOfFacts
    <3>2. evs'[c] = l
      BY <2>2
    <3> QED
      BY <3>1, <3>2
  <2>5. ASSUME NEW i \in 1..Len(evs'[c])
        PROVE  \E k \in 1..Len(forwarded) : evs'[c][i] = forwarded[k]
    <3> DEFINE j == Len(ring) - Len(evs'[c]) + i
    <3>1. j \in 1..Len(ring)
      BY <2>3, <2>4
    <3>2. ring[j] = forwarded[Len(forwarded) - Len(ring) + j]
      BY <3>1 DEF RingIsLast
    <3>3. Len(forwarded) - Len(ring) + j \in 1..Len(forwarded)
      BY <2>3, <3>1 DEF RingIsLast
    <3> QED
      BY <2>4, <3>2, <3>3
  <2>6. ASSUME NEW d \in Conns
        PROVE  /\ upto'[d] <= Len(forwarded)
               /\ \A i \in 1..Len(evs'[d]) : \E k \in 1..upto'[d] : evs'[d][i] = forwarded[k]
    <3>1. CASE d = c
      BY <2>2, <2>3, <2>5, <3>1
    <3>2. CASE d # c
      BY <2>2, <3>2
    <3> QED
      BY <3>1, <3>2
  <2> QED
    BY <2>1, <2>6
<1>5. CASE OtherFeed
  BY <1>5 DEF OtherFeed
<1>6. \/ Enring \/ Forward \/ OtherFeed \/ \E c \in Conns : ReplayEvent(c) \/ Replay(c)
  BY DEF OtherFeed, Next, vars, logVars, feedVars, connVars, wireVars, ForwardAudit, Handler,
         Subscribe, LogEntry, Unsubscribe, Receive, FeedStops, Promote, Supersede, Serve,
         OtherFrame, SendTimesOut, Demote, Close, Disconnect
<1> QED
  BY <1>0, <1>1, <1>2, <1>3, <1>4, <1>5, <1>6

\* The two halves of LateInOrder for one connection.
InOrder(c) ==
    \A i, j \in 1..Len(got[c]) :
        i < j /\ Late(c, got[c][i]) /\ Late(c, got[c][j]) => got[c][i] < got[c][j]
NextInOrder(c) ==
    fpc = "sending" /\ target = c =>
        \A i \in 1..Len(got[c]) : Late(c, got[c][i]) /\ Late(c, hand) => got[c][i] < hand

\* The late events of a connection stay in order.
LEMMA LateStep ==
    ASSUME Types, TornIsFailed, HandNext, FromFeed, LateInOrder, [Next]_vars
    PROVE  LateInOrder'
<1>0. /\ forwarded \in Seq(Entries) /\ evs \in [Conns -> Seq(Entries)]
      /\ upto \in [Conns -> Nat] /\ hpc \in [Conns -> {"none", "superseding", "replay", "replaying",
                                                      "serving", "demoted", "closed"}]
  BY DEF Types, TypeOK
<1>1. \A c \in Conns : hpc[c] \in Past => InOrder(c) /\ NextInOrder(c)
  BY DEF LateInOrder, InOrder, NextInOrder
<1>2. SUFFICES ASSUME NEW c \in Conns, hpc'[c] \in Past PROVE InOrder(c)' /\ NextInOrder(c)'
  BY DEF LateInOrder, InOrder, NextInOrder
<1>3. CASE Enring
  <2>1. /\ got' = got /\ upto' = upto /\ hpc' = hpc /\ forwarded' = Append(forwarded, hand)
        /\ hand \in Entries /\ hand' = hand /\ fpc = "received"
    BY <1>3 DEF Enring, Types, HandIsEntry, connVars, wireVars
  <2>2. /\ Len(forwarded) \in Nat /\ \A i \in 1..Len(forwarded) : forwarded'[i] = forwarded[i]
    BY <1>0, <2>1, AppendFacts
  <2>3. \A k \in 1..upto[c] : k \in 1..Len(forwarded)
    BY <1>0, <2>2 DEF FromFeed
  <2>4. \A e : Late(c, e) <=> \A k \in 1..upto'[c] : e # forwarded'[k]
    BY <2>1, <2>2, <2>3 DEF Late
  <2>5. InOrder(c)'
    <3>1. \A e : (\A k \in 1..upto'[c] : e # forwarded'[k]) => Late(c, e)
      BY <2>4
    <3>2. InOrder(c)
      BY <1>1, <1>2, <2>1
    <3>3. SUFFICES ASSUME NEW i \in 1..Len(got[c]), NEW j \in 1..Len(got[c]), i < j,
                          \A k \in 1..upto'[c] : got[c][i] # forwarded'[k],
                          \A k \in 1..upto'[c] : got[c][j] # forwarded'[k]
                   PROVE  got[c][i] < got[c][j]
      BY <2>1 DEF InOrder, Late
    <3>4. Late(c, got[c][i]) /\ Late(c, got[c][j])
      BY <3>1, <3>3
    <3> QED
      BY <3>2, <3>3, <3>4 DEF InOrder
  <2>6. \A i \in 1..Len(got[c]) : got[c][i] < hand
    BY <2>1 DEF FromFeed, HandNext
  <2> QED
    BY <2>1, <2>5, <2>6 DEF NextInOrder
<1>4. CASE Forward
  <2>1. /\ target \in Conns /\ hand \in Entries /\ SendEvent(target, hand) /\ fpc = "sending"
        /\ upto' = upto /\ forwarded' = forwarded /\ hpc' = hpc /\ fpc' = "idle"
    BY <1>4 DEF Forward, Types, HandIsEntry, connVars
  <2>2. NextInOrder(c)'
    BY <2>1 DEF NextInOrder
  <2>3. CASE got'[c] = got[c]
    BY <1>1, <1>2, <2>1, <2>2, <2>3 DEF InOrder, Late
  <2>4. CASE target = c /\ got'[c] # got[c]
    <3>1. /\ Len(got'[c]) = Len(got[c]) + 1 /\ got'[c][Len(got[c]) + 1] = hand
          /\ \A i \in 1..Len(got[c]) : got'[c][i] = got[c][i]
      BY <2>1, <2>4, SendGot
    <3>2. Len(got[c]) \in Nat
      BY Lengths
    <3>3. ASSUME NEW i \in 1..Len(got'[c]), NEW j \in 1..Len(got'[c]), i < j,
                 Late(c, got'[c][i]), Late(c, got'[c][j])
          PROVE  got'[c][i] < got'[c][j]
      <4>1. i \in 1..Len(got[c]) /\ (j \in 1..Len(got[c]) \/ j = Len(got[c]) + 1)
        BY <3>1, <3>2, <3>3
      <4> QED
        BY <1>1, <1>2, <2>1, <2>4, <3>1, <3>3, <4>1 DEF InOrder, NextInOrder
    <3> QED
      BY <2>1, <2>2, <3>3 DEF InOrder, Late
  <2> QED
    BY <2>1, <2>3, <2>4, SendGot
<1>5. ASSUME NEW d \in Conns, ReplayEvent(d) PROVE InOrder(c)' /\ NextInOrder(c)'
  <2>1. /\ evs[d] # <<>> /\ SendEvent(d, Head(evs[d])) /\ hpc' = hpc /\ upto' = upto
        /\ forwarded' = forwarded /\ fpc' = fpc /\ target' = target /\ hand' = hand
    BY <1>5 DEF ReplayEvent, feedVars
  <2>2. Head(evs[d]) \in Entries /\ Head(evs[d]) = evs[d][1] /\ Len(evs[d]) \in Nat \ {0}
    BY <1>0, <2>1, TailFacts
  <2>3. CASE got'[c] = got[c]
    BY <1>1, <1>2, <2>1, <2>3 DEF InOrder, NextInOrder, Late
  <2>4. CASE d = c /\ got'[c] # got[c]
    <3>1. /\ Len(got'[c]) = Len(got[c]) + 1 /\ got'[c][Len(got[c]) + 1] = Head(evs[c])
          /\ \A i \in 1..Len(got[c]) : got'[c][i] = got[c][i]
      BY <2>1, <2>2, <2>4, SendGot
    <3>2. Len(got[c]) \in Nat
      BY Lengths
    <3>3. ~Late(c, Head(evs[c]))
      BY <2>2, <2>4 DEF FromFeed, Late
    <3>4. \A i \in 1..Len(got'[c]) : Late(c, got'[c][i]) => i \in 1..Len(got[c])
      BY <3>1, <3>2, <3>3
    <3>5. \A i, j \in 1..Len(got'[c]) :
              i < j /\ Late(c, got'[c][i]) /\ Late(c, got'[c][j]) => got'[c][i] < got'[c][j]
      BY <1>1, <1>2, <2>1, <3>1, <3>4 DEF InOrder
    <3>6. fpc = "sending" /\ target = c =>
              \A i \in 1..Len(got'[c]) : Late(c, got'[c][i]) /\ Late(c, hand) => got'[c][i] < hand
      BY <1>1, <1>2, <2>1, <3>1, <3>4 DEF NextInOrder
    <3> QED
      BY <2>1, <3>5, <3>6 DEF InOrder, NextInOrder, Late
  <2> QED
    BY <2>1, <2>2, <2>3, <2>4, SendGot
<1>6. ASSUME NEW d \in Conns, Replay(d) PROVE InOrder(c)' /\ NextInOrder(c)'
  <2>1. /\ got' = got /\ forwarded' = forwarded /\ upto' = [upto EXCEPT ![d] = Len(forwarded)]
        /\ fpc' = fpc /\ target' = target /\ hand' = hand
        /\ hpc' = [hpc EXCEPT ![d] = "replaying"]
    BY <1>6 DEF Replay, feedVars, wireVars
  <2>2. CASE d = c
    <3>1. upto'[c] = Len(forwarded)
      BY <1>0, <2>1, <2>2
    <3>2. \A i \in 1..Len(got[c]) : \E k \in 1..upto'[c] : got[c][i] = forwarded[k]
      BY <3>1 DEF FromFeed
    <3>3. \A i \in 1..Len(got'[c]) : ~Late(c, got[c][i])'
      BY <2>1, <3>2 DEF Late
    <3> QED
      BY <3>3 DEF InOrder, NextInOrder
  <2>3. CASE d # c
    <3>1. upto'[c] = upto[c] /\ hpc'[c] = hpc[c]
      BY <1>0, <2>1, <2>3
    <3> QED
      BY <1>1, <1>2, <2>1, <3>1 DEF InOrder, NextInOrder, Late
  <2> QED
    BY <2>2, <2>3
<1>7. CASE /\ got' = got /\ upto' = upto /\ forwarded' = forwarded
           /\ hpc'[c] \in Past => hpc[c] \in Past
           /\ fpc' # "sending" \/ (fpc' = fpc /\ target' = target /\ hand' = hand)
  BY <1>1, <1>2, <1>7 DEF InOrder, NextInOrder, Late
<1>8. \/ Enring \/ Forward \/ \E d \in Conns : ReplayEvent(d) \/ Replay(d)
      \/ /\ got' = got /\ upto' = upto /\ forwarded' = forwarded
         /\ hpc'[c] \in Past => hpc[c] \in Past
         /\ fpc' # "sending" \/ (fpc' = fpc /\ target' = target /\ hand' = hand)
  <2>1. CASE \E d \in Conns : Handler(d) \/ OtherFrame(d) \/ Disconnect(d)
    BY <1>0, <2>1 DEF Past, Handler, OtherFrame, SendTimesOut, Disconnect, Promote, Supersede, Serve,
       Demote, Close, vars, logVars, feedVars, connVars, wireVars
  <2> QED
    BY <2>1 DEF Next, vars, logVars, feedVars, connVars, wireVars, ForwardAudit, Subscribe,
       LogEntry, Unsubscribe, Receive, FeedStops
<1> QED
  BY <1>3, <1>4, <1>5, <1>6, <1>7, <1>8

-----------------------------------------------------------------------------
(* What the consumer lacks *)

\* An unfinished frame goes on being the mark of a failed write.
LEMMA TornStep ==
    ASSUME Types, TornIsFailed, [Next]_vars
    PROVE  TornIsFailed'
<1>1. CASE Forward
  BY <1>1, SendGot DEF Forward, Types, HandIsEntry
<1>2. ASSUME NEW c \in Conns, ReplayEvent(c) PROVE TornIsFailed'
  <2>1. evs[c] \in Seq(Entries)
    BY DEF Types, TypeOK
  <2>2. Head(evs[c]) \in Entries
    BY <1>2, <2>1, TailFacts DEF ReplayEvent
  <2> QED
    BY <1>2, <2>2, SendGot DEF ReplayEvent
<1>3. ASSUME NEW c \in Conns, OtherFrame(c) PROVE TornIsFailed'
  <2>1. torn \in [Conns -> BOOLEAN]
    BY DEF Types, TypeOK
  <2>2. /\ \A d \in Conns : d # c => torn'[d] = torn[d]
        /\ torn'[c] => c \in failed'
        /\ failed \subseteq failed'
    BY <1>3, <2>1 DEF OtherFrame, SendTimesOut
  <2> QED
    BY <2>2 DEF TornIsFailed
<1>4. CASE UNCHANGED <<torn, failed>>
  BY <1>4 DEF TornIsFailed
<1> QED
  BY <1>1, <1>2, <1>3, <1>4 DEF Next, vars, logVars, feedVars, connVars, wireVars, ForwardAudit,
     Handler, Subscribe, LogEntry, Unsubscribe, Receive, Enring, FeedStops, Promote, Supersede,
     Replay, Serve, Demote, Close, Disconnect

\* Nothing is left to be replayed to a connection that is served.
LEMMA ReplayedStep ==
    ASSUME Types, Replayed, [Next]_vars
    PROVE  Replayed'
<1>0. /\ hpc \in [Conns -> {"none", "superseding", "replay", "replaying", "serving", "demoted",
                            "closed"}]
      /\ evs \in [Conns -> Seq(Entries)]
  BY DEF Types, TypeOK
<1>1. SUFFICES ASSUME NEW c \in Conns, hpc'[c] = "serving" PROVE Len(evs'[c]) = 0
  BY DEF Replayed
<1>2. CASE hpc[c] # "serving"
  <2>1. Serve(c)
    BY <1>0, <1>1, <1>2 DEF Next, vars, logVars, feedVars, connVars, wireVars, ForwardAudit,
       Handler, Subscribe, LogEntry, Unsubscribe, Receive, Enring, Forward, FeedStops, Promote,
       Supersede, Replay, ReplayEvent, Serve, OtherFrame, Demote, Close, Disconnect
  <2> QED
    BY <2>1, EmptySeq DEF Serve
<1>3. CASE hpc[c] = "serving"
  <2>1. evs'[c] = evs[c]
    BY <1>0, <1>3 DEF Next, vars, logVars, feedVars, connVars, wireVars, ForwardAudit,
       Handler, Subscribe, LogEntry, Unsubscribe, Receive, Enring, Forward, FeedStops, Promote,
       Supersede, Replay, ReplayEvent, Serve, OtherFrame, Demote, Close, Disconnect
  <2> QED
    BY <1>3, <2>1 DEF Replayed
<1> QED
  BY <1>2, <1>3

\* An event is still to be replayed.
Coming(c, e) == \E i \in 1..Len(evs[c]) : evs[c][i] = e

\* What Whole says of a connection that is the consumer.
Lacks(c) ==
    \A k \in 1..Len(forwarded) :
        /\ k > upto[c] => Has(c, forwarded[k])
        /\ k <= upto[c] /\ k > upto[c] - Asked(c) => Has(c, forwarded[k]) \/ Coming(c, forwarded[k])

Concerns(c) == consumer = c /\ hpc[c] \in {"replaying", "serving"} /\ c \notin failed

\* What matters to a connection, except its replay, does not change.
Same(c) ==
    /\ forwarded' = forwarded /\ upto'[c] = upto[c] /\ want'[c] = want[c]
    /\ Concerns(c)' => Concerns(c)

\* A connection keeps what it has, or has it sent or replayed.
LEMMA LacksSame ==
    ASSUME NEW c \in Conns, Same(c), Lacks(c),
           \A e : Has(c, e) => Has(c, e)',
           \A e : Coming(c, e) => Has(c, e)' \/ Coming(c, e)'
    PROVE  Lacks(c)'
<1>1. Asked(c)' = Asked(c)
  BY DEF Same, Asked
<1>2. SUFFICES ASSUME NEW k \in 1..Len(forwarded)
      PROVE  /\ k > upto[c] => Has(c, forwarded[k])'
             /\ k <= upto[c] /\ k > upto[c] - Asked(c) =>
                  Has(c, forwarded[k])' \/ Coming(c, forwarded[k])'
  BY <1>1 DEF Same, Lacks
<1>3. forwarded' = forwarded
  BY DEF Same
<1>4. /\ Has(c, forwarded[k]) => Has(c, forwarded[k])'
      /\ Coming(c, forwarded[k]) => Has(c, forwarded[k])' \/ Coming(c, forwarded[k])'
  <2> DEFINE e == forwarded[k]
  <2>1. /\ Has(c, e) => Has(c, e)'
        /\ Coming(c, e) => Has(c, e)' \/ Coming(c, e)'
    BY <1>3 DEF Has, Coming
  <2> QED
    BY <2>1
<1> QED
  BY <1>4 DEF Lacks

\* The critical section of forwardAudit: what enters the ring is about to be sent to the
\* consumer.
LEMMA EnringLacks ==
    ASSUME Types, FromFeed, NEW c \in Conns, Enring, Concerns(c)', Concerns(c) => Lacks(c)
    PROVE  Lacks(c)'
<1>1. /\ forwarded' = Append(forwarded, hand) /\ forwarded \in Seq(Entries) /\ hand \in Entries
      /\ upto' = upto /\ want' = want /\ evs' = evs /\ got' = got /\ consumer' = consumer
      /\ hpc' = hpc /\ failed' = failed /\ hand' = hand /\ fpc = "received" /\ target' = consumer
      /\ fpc' = IF consumer = None THEN "idle" ELSE "sending"
      /\ upto[c] \in Nat
  BY DEF Enring, Types, TypeOK, HandIsEntry, connVars, wireVars
<1>2. /\ Len(forwarded) \in Nat /\ Len(forwarded') = Len(forwarded) + 1
      /\ \A i \in 1..Len(forwarded) : forwarded'[i] = forwarded[i]
      /\ forwarded'[Len(forwarded) + 1] = hand
  BY <1>1, AppendFacts
<1>3. Lacks(c) /\ consumer = c /\ c # None
  BY <1>1, NoneNotConn DEF Concerns
<1>4. Has(c, hand)'
  BY <1>1, <1>3 DEF Has
<1>5. upto[c] <= Len(forwarded) /\ Asked(c)' = Asked(c)
  BY <1>1 DEF FromFeed, Asked
<1>6. ASSUME NEW k \in 1..Len(forwarded')
      PROVE  /\ k > upto[c] => Has(c, forwarded[k])'
             /\ k <= upto[c] /\ k > upto[c] - Asked(c) =>
                  Has(c, forwarded[k])' \/ Coming(c, forwarded[k])'
  <2>1. CASE k = Len(forwarded) + 1
    <3>1. forwarded'[k] = hand /\ hand' = hand /\ ~(k <= upto[c])
      BY <1>1, <1>2, <1>5, <2>1
    <3> QED
      BY <1>4, <3>1 DEF Has
  <2>2. CASE k \in 1..Len(forwarded)
    <3>1. forwarded'[k] = forwarded[k]
      BY <1>2, <2>2
    <3>2. /\ Has(c, forwarded[k]) => \E i \in 1..Len(got'[c]) : got'[c][i] = forwarded'[k]
          /\ Coming(c, forwarded[k]) => \E i \in 1..Len(evs'[c]) : evs'[c][i] = forwarded'[k]
      BY <1>1, <3>1 DEF Has, Coming
    <3>3. /\ k > upto[c] => Has(c, forwarded[k])
          /\ k <= upto[c] /\ k > upto[c] - Asked(c) => Has(c, forwarded[k]) \/ Coming(c, forwarded[k])
      BY <1>3, <2>2 DEF Lacks
    <3> QED
      BY <3>2, <3>3 DEF Has, Coming
  <2> QED
    BY <1>2, <2>1, <2>2
<1> QED
  BY <1>1, <1>5, <1>6 DEF Lacks

\* The critical section of replay: of all that was forwarded, what was asked for and is
\* still in the ring is copied.
LEMMA ReplayLacks ==
    ASSUME Types, RingIsLast, NEW c \in Conns, Replay(c)
    PROVE  Lacks(c)'
<1>1. /\ forwarded' = forwarded /\ want' = want /\ evs'[c] = LastOf(want[c], ring)
      /\ upto'[c] = Len(forwarded) /\ ring \in Seq(Entries)
  BY DEF Replay, Types, TypeOK, feedVars
<1>2. want[c] \in Nat /\ RingMax \in Nat /\ Len(forwarded) \in Nat /\ Len(ring) \in Nat
  BY WantIsNat, Lengths, FeedAssumption DEF Types
<1> DEFINE l == LastOf(want[c], ring)
<1>3. /\ Len(l) = IF Len(ring) > want[c] THEN want[c] ELSE Len(ring)
      /\ \A i \in 1..Len(l) : l[i] = ring[Len(ring) - Len(l) + i]
  BY <1>1, <1>2, LastOfFacts
<1>4. evs'[c] = l
  BY <1>1
<1> HIDE DEF l
<1>5. ASSUME NEW k \in 1..Len(forwarded), k > Len(forwarded) - Asked(c)
      PROVE  Coming(c, forwarded[k])'
  <2> DEFINE i == k - (Len(forwarded) - Len(l))
             j == Len(ring) - Len(l) + i
  <2>1. Len(l) \in Nat /\ Len(l) <= Len(ring) /\ k > Len(forwarded) - Len(l)
    BY <1>2, <1>3, <1>5 DEF Asked, RingIsLast
  <2>2. Len(ring) <= Len(forwarded)
    BY <1>2 DEF RingIsLast
  <2>3. i \in 1..Len(l) /\ j \in 1..Len(ring) /\ Len(forwarded) - Len(ring) + j = k
    BY <1>2, <2>1, <2>2
  <2>4. ring[j] = forwarded[Len(forwarded) - Len(ring) + j]
    BY <2>3 DEF RingIsLast
  <2>5. l[i] = forwarded[k]
    BY <1>3, <2>3, <2>4
  <2> HIDE DEF i
  <2> QED
    BY <1>1, <1>4, <2>3, <2>5 DEF Coming
<1>6. ASSUME NEW k \in 1..Len(forwarded) PROVE ~(k > Len(forwarded))
  BY <1>2
<1> QED
  BY <1>1, <1>5, <1>6 DEF Lacks, Asked, Coming

\* The consumer goes on lacking nothing.
LEMMA WholeStep ==
    ASSUME Types, TornIsFailed, RingIsLast, FromFeed, Whole, [Next]_vars
    PROVE  Whole'
<1>0. /\ evs \in [Conns -> Seq(Entries)] /\ upto \in [Conns -> Nat]
      /\ want \in [Conns -> Replays \cup {0}]
      /\ hpc \in [Conns -> {"none", "superseding", "replay", "replaying", "serving", "demoted",
                            "closed"}]
  BY DEF Types, TypeOK
<1>1. \A c \in Conns : Concerns(c) => Lacks(c)
  BY DEF Whole, Concerns, Lacks, Coming
<1>2. SUFFICES ASSUME NEW c \in Conns, Concerns(c)' PROVE Lacks(c)'
  BY DEF Whole, Concerns, Lacks, Coming
<1>3. CASE Enring
  BY <1>1, <1>2, <1>3, EnringLacks
<1>4. CASE Forward
  <2>1. /\ target \in Conns /\ hand \in Entries /\ SendEvent(target, hand)
        /\ forwarded' = forwarded /\ upto' = upto /\ want' = want /\ evs' = evs
        /\ consumer' = consumer /\ hpc' = hpc
    BY <1>4 DEF Forward, Types, HandIsEntry, connVars
  <2>2. Same(c) /\ c \notin failed'
    BY <1>2, <2>1, SendGot DEF Same, Concerns
  <2>3. ASSUME NEW e, Has(c, e) PROVE Has(c, e)'
    <3>1. CASE target = c
      <4>1. /\ Len(got'[c]) = Len(got[c]) + 1 /\ got'[c][Len(got[c]) + 1] = hand
            /\ Len(got[c]) \in Nat
        BY <2>1, <2>2, <3>1, SendGot, Lengths
      <4>2. \A i \in 1..Len(got[c]) : i \in 1..Len(got'[c]) /\ got'[c][i] = got[c][i]
        <5>1. got'[c] # got[c]
          BY <4>1
        <5> QED
          BY <2>1, <3>1, <4>1, <5>1, SendGot
      <4>3. Len(got[c]) + 1 \in 1..Len(got'[c])
        BY <4>1
      <4> QED
        BY <2>3, <4>1, <4>2, <4>3 DEF Has
    <3>2. CASE target # c
      <4>1. got'[c] = got[c]
        BY <2>1, <3>2, SendGot
      <4> QED
        BY <2>3, <3>2, <4>1 DEF Has
    <3> QED
      BY <3>1, <3>2
  <2>4. \A e : Coming(c, e) => Coming(c, e)'
    BY <2>1 DEF Coming
  <2>5. Lacks(c)
    BY <1>1, <1>2, <2>2 DEF Same
  <2> QED
    BY <2>2, <2>3, <2>4, <2>5, LacksSame
<1>5. ASSUME NEW d \in Conns, ReplayEvent(d) PROVE Lacks(c)'
  <2>1. /\ evs[d] # <<>> /\ SendEvent(d, Head(evs[d])) /\ evs' = [evs EXCEPT ![d] = Tail(@)]
        /\ forwarded' = forwarded /\ upto' = upto /\ want' = want /\ consumer' = consumer
        /\ hpc' = hpc /\ fpc' = fpc /\ target' = target /\ hand' = hand
    BY <1>5 DEF ReplayEvent, feedVars
  <2>2. /\ Head(evs[d]) \in Entries /\ Head(evs[d]) = evs[d][1] /\ Len(evs[d]) \in Nat \ {0}
        /\ evs'[d] = Tail(evs[d]) /\ Len(evs'[d]) = Len(evs[d]) - 1
        /\ \A i \in 1..(Len(evs[d]) - 1) : evs'[d][i] = evs[d][i + 1]
        /\ d # c => evs'[c] = evs[c]
    BY <1>0, <2>1, TailFacts
  <2>3. Same(c) /\ c \notin failed'
    BY <1>2, <2>1, <2>2, SendGot DEF Same, Concerns
  <2>4. Lacks(c)
    BY <1>1, <1>2, <2>3 DEF Same
  <2>5. CASE d # c
    <3>1. got'[c] = got[c] /\ evs'[c] = evs[c]
      BY <2>1, <2>2, <2>5, SendGot
    <3>2. \A e : Has(c, e) => Has(c, e)'
      BY <2>1, <3>1 DEF Has
    <3>3. \A e : Coming(c, e) => Coming(c, e)'
      BY <3>1 DEF Coming
    <3> QED
      BY <2>3, <2>4, <3>2, <3>3, LacksSame
  <2>6. CASE d = c
    <3>1. /\ Len(got'[c]) = Len(got[c]) + 1 /\ got'[c][Len(got[c]) + 1] = evs[c][1]
          /\ Len(got[c]) \in Nat
      BY <2>1, <2>2, <2>3, <2>6, SendGot, Lengths
    <3>2. \A i \in 1..Len(got[c]) : i \in 1..Len(got'[c]) /\ got'[c][i] = got[c][i]
      <4>1. got'[c] # got[c]
        BY <3>1
      <4> QED
        BY <2>1, <2>2, <2>6, <3>1, <4>1, SendGot
    <3>3. \A e : Has(c, e) => Has(c, e)'
      BY <2>1, <3>2 DEF Has
    <3>4. ASSUME NEW e, Coming(c, e) PROVE Has(c, e)' \/ Coming(c, e)'
      <4>1. PICK i \in 1..Len(evs[c]) : evs[c][i] = e
        BY <3>4 DEF Coming
      <4>2. CASE i = 1
        <5>1. Len(got[c]) + 1 \in 1..Len(got'[c])
          BY <3>1
        <5> QED
          BY <3>1, <4>1, <4>2, <5>1 DEF Has
      <4>3. CASE i # 1
        <5>1. i - 1 \in 1..(Len(evs[c]) - 1) /\ (i - 1) + 1 = i
          BY <2>2, <2>6, <4>3
        <5>2. evs'[c][i - 1] = e /\ i - 1 \in 1..Len(evs'[c])
          BY <2>2, <2>6, <4>1, <5>1
        <5> QED
          BY <5>2 DEF Coming
      <4> QED
        BY <4>2, <4>3
    <3> QED
      BY <2>3, <2>4, <3>3, <3>4, LacksSame
  <2> QED
    BY <2>5, <2>6
<1>6. CASE \E d \in Conns : d # c /\ Replay(d)
  <2>1. /\ forwarded' = forwarded /\ upto'[c] = upto[c] /\ want' = want /\ evs'[c] = evs[c]
        /\ got' = got /\ consumer' = consumer /\ hpc'[c] = hpc[c] /\ failed' = failed
        /\ fpc' = fpc /\ target' = target /\ hand' = hand
    BY <1>0, <1>6 DEF Replay, feedVars, wireVars
  <2>2. Same(c) /\ Lacks(c)
    BY <1>1, <1>2, <2>1 DEF Same, Concerns
  <2>3. \A e : (Has(c, e) => Has(c, e)') /\ (Coming(c, e) => Coming(c, e)')
    BY <2>1 DEF Has, Coming
  <2> QED
    BY <2>2, <2>3, LacksSame
<1>7. CASE /\ Same(c) /\ evs'[c] = evs[c] /\ got' = got
           /\ \/ fpc' = fpc /\ target' = target /\ hand' = hand
              \/ fpc # "sending"
  <2>1. Lacks(c)
    BY <1>1, <1>2, <1>7 DEF Same
  <2>2. \A e : (Has(c, e) => Has(c, e)') /\ (Coming(c, e) => Coming(c, e)')
    BY <1>7 DEF Has, Coming
  <2> QED
    BY <1>7, <2>1, <2>2, LacksSame
<1>8. \/ Enring \/ Forward \/ \E d \in Conns : ReplayEvent(d) \/ Replay(d)
      \/ /\ Same(c) /\ evs'[c] = evs[c] /\ got' = got
         /\ \/ fpc' = fpc /\ target' = target /\ hand' = hand
            \/ fpc # "sending"
  <2>1. CASE \E d \in Conns : Promote(d) \/ Supersede(d) \/ Serve(d)
    BY <1>0, <1>2, <2>1 DEF Same, Concerns, Promote, Supersede, Serve, feedVars, wireVars
  <2>2. CASE \E d \in Conns : Demote(d) \/ Close(d) \/ Disconnect(d) \/ OtherFrame(d)
    BY <1>0, <1>2, <2>2, NoneNotConn DEF Same, Concerns, Demote, Close, Disconnect, OtherFrame,
       SendTimesOut, feedVars, connVars, wireVars
  <2>3. CASE Subscribe \/ LogEntry \/ Unsubscribe \/ Receive \/ FeedStops \/ UNCHANGED vars
    BY <1>2, <2>3 DEF Types, HandIsEntry, Same, Concerns, Subscribe, LogEntry, Unsubscribe, Receive,
       FeedStops, vars, logVars, feedVars, connVars, wireVars
  <2> QED
    BY <2>1, <2>2, <2>3 DEF Next, ForwardAudit, Handler
<1> QED
  BY <1>3, <1>4, <1>5, <1>6, <1>7, <1>8, ReplayLacks

-----------------------------------------------------------------------------
(* The theorems *)

\* The invariant the theorems below rest on.
THEOREM FInvariance == Spec => []FInv
<1>1. ASSUME Init PROVE FInv
  <2>1. Types
    BY <1>1, TypeInit DEF Types
  <2>2. /\ Len(queue) = 0 /\ Len(ring) = 0 /\ Len(forwarded) = 0 /\ fpc = "none"
        /\ consumer = None
        /\ \A c \in Conns : /\ hpc[c] = "none" /\ Len(got[c]) = 0 /\ Len(evs[c]) = 0
                           /\ upto[c] = 0 /\ ~torn[c]
    BY <1>1, EmptySeq DEF Init
  <2>3. Ordered /\ HandNext /\ RingIsLast
    BY <2>2, FeedAssumption DEF Ordered, HandNext, RingIsLast
  <2>4. FromFeed /\ LateInOrder /\ TornIsFailed /\ Replayed /\ Whole
    BY <2>2 DEF FromFeed, LateInOrder, TornIsFailed, Replayed, Whole, Past
  <2> QED
    BY <2>1, <2>3, <2>4 DEF FInv
<1>2. ASSUME FInv, [Next]_vars PROVE FInv'
  <2>1. Types'
    BY <1>2, TypeStep DEF FInv, Types
  <2> QED
    BY <1>2, <2>1, OrderedStep, RingStep, FromFeedStep, LateStep, TornStep, ReplayedStep, WholeStep
       DEF FInv
<1> QED
  BY <1>1, <1>2, PTL DEF Spec

\* InOrderAfterReplay: what was forwarded after replay copied the ring reaches the app once
\* and in the order it was logged, however replay and the live feed interleave on the
\* connection and whatever writes fail.
THEOREM LateOnceInOrder == Spec => []InOrderAfterReplay
<1>1. ASSUME FInv PROVE InOrderAfterReplay
  <2>1. TypeOK
    BY <1>1 DEF FInv, Types
  <2>2. ASSUME NEW c \in Conns, hpc[c] \in Past,
               NEW i \in DOMAIN got[c], NEW j \in DOMAIN got[c], i < j,
               got[c][i] \notin ToSet(SubSeq(forwarded, 1, upto[c])),
               got[c][j] \notin ToSet(SubSeq(forwarded, 1, upto[c]))
        PROVE  got[c][i] < got[c][j]
    <3>1. /\ forwarded \in Seq(Entries) /\ got[c] \in Seq(Entries)
          /\ upto[c] \in Nat /\ Len(forwarded) \in Nat
      BY <2>1, LenProperties DEF TypeOK
    <3>2. upto[c] \in 0..Len(forwarded)
      BY <1>1, <3>1 DEF FInv, FromFeed
    <3>3. ToSet(SubSeq(forwarded, 1, upto[c])) = {forwarded[k] : k \in 1..upto[c]}
      BY <3>1, <3>2, FirstsFacts
    <3>4. Late(c, got[c][i]) /\ Late(c, got[c][j])
      BY <2>2, <3>3 DEF Late
    <3>5. DOMAIN got[c] = 1..Len(got[c])
      BY <3>1, LenProperties
    <3> QED
      BY <1>1, <2>2, <3>4, <3>5 DEF FInv, LateInOrder
  <2> QED
    BY <2>1, <2>2 DEF InOrderAfterReplay, Past
<1> QED
  BY <1>1, FInvariance, PTL

\* CaughtUp: no event falls between the copy replay sends and the live feed.  While it is
\* the consumer, a connection with no failed write has every event forwarded since the
\* copy, and of those before as many as it asked for and the ring held.
THEOREM NothingLost == Spec => []CaughtUp
<1>1. ASSUME FInv PROVE CaughtUp
  <2> SUFFICES ASSUME NEW c \in Conns, consumer = c, hpc[c] = "serving", c \notin failed
               PROVE  ToSet(LastOf(Len(forwarded) - upto[c] + Asked(c), forwarded)) \subseteq Seen(c)
    BY DEF CaughtUp, Asked
  <2>1. Types /\ TypeOK
    BY <1>1 DEF FInv, Types
  <2>2. /\ forwarded \in Seq(Entries) /\ got[c] \in Seq(Entries) /\ upto[c] \in Nat
        /\ want[c] \in Nat /\ RingMax \in Nat /\ Len(forwarded) \in Nat
        /\ DOMAIN got[c] = 1..Len(got[c])
    BY <2>1, LenProperties, WantIsNat, FeedAssumption DEF TypeOK
  <2>3. upto[c] <= Len(forwarded) /\ Asked(c) \in Nat
    BY <1>1, <2>2 DEF FInv, FromFeed, Asked
  <2> DEFINE n == Len(forwarded) - upto[c] + Asked(c)
             l == LastOf(n, forwarded)
  <2>4. n \in Nat
    BY <2>2, <2>3
  <2>5. /\ Len(l) = IF Len(forwarded) > n THEN n ELSE Len(forwarded)
        /\ DOMAIN l = 1..Len(l)
        /\ \A i \in 1..Len(l) : l[i] = forwarded[Len(forwarded) - Len(l) + i]
    <3> HIDE DEF n
    <3> QED
      BY <2>2, <2>4, LastOfFacts
  <2>6. ASSUME NEW i \in 1..Len(l) PROVE l[i] \in Seen(c)
    <3> DEFINE k == Len(forwarded) - Len(l) + i
    <3> HIDE DEF l
    <3>1. k \in 1..Len(forwarded) /\ k > upto[c] - Asked(c)
      <4> DEFINE m == Len(l)
                 w == Asked(c)
                 u == upto[c]
                 f == Len(forwarded)
      <4>1. /\ u \in Nat /\ w \in Nat /\ f \in Nat /\ u <= f /\ i \in 1..m
            /\ m = IF f > f - u + w THEN f - u + w ELSE f
        BY <2>2, <2>3, <2>5
      <4> HIDE DEF m, w, u, f
      <4>2. f - m + i \in 1..f /\ f - m + i > u - w
        BY <4>1
      <4> QED
        BY <4>2 DEF m, w, u, f
    <3>2. Len(evs[c]) = 0
      BY <1>1 DEF FInv, Replayed
    <3>3. Has(c, forwarded[k])
      <4> HIDE DEF k
      <4>1. k > upto[c] \/ k <= upto[c]
        BY <2>2, <3>1
      <4> QED
        BY <1>1, <3>1, <3>2, <4>1 DEF FInv, Whole
    <3>4. l[i] = forwarded[k]
      BY <2>5
    <3> QED
      BY <2>2, <3>3, <3>4 DEF Has, Seen, ToSet
  <2> QED
    BY <2>5, <2>6 DEF ToSet
<1> QED
  BY <1>1, FInvariance, PTL

=============================================================================
