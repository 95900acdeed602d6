------------------------- MODULE ApprovalChannelProofs -------------------------
(***************************************************************************)
(* Proofs about ApprovalChannel for any sets of connections, requests and  *)
(* decided_by values.                                                      *)
(***************************************************************************)
EXTENDS ApprovalChannel, TLAPS

-----------------------------------------------------------------------------
(* Type correctness *)

\* The values the steps of a handler leave it at.
LEMMA HandlerPCs ==
    /\ "none" \in HandlerPC /\ "greeting" \in HandlerPC /\ "acking" \in HandlerPC
    /\ "promoting" \in HandlerPC /\ "superseding" \in HandlerPC
    /\ "replaying" \in HandlerPC /\ "serving" \in HandlerPC
    /\ "delivering" \in HandlerPC /\ "demoting" \in HandlerPC
    /\ "closing" \in HandlerPC /\ "closed" \in HandlerPC
  BY DEF HandlerPC

\* The types hold as the agent starts.
LEMMA TypeInit ==
    ASSUME Init PROVE TypeOK
<1>1. pending \in [Reqs -> Conns \cup {None}]
  <2>1. pending = [r \in Reqs |-> None]
    BY DEF Init
  <2> QED
    BY <2>1
<1>2. agentEnd \in [Conns -> BOOLEAN] /\ appEnd \in [Conns -> BOOLEAN]
  <2>1. /\ agentEnd = [c \in Conns |-> FALSE]
        /\ appEnd = [c \in Conns |-> FALSE]
    BY DEF Init
  <2> QED
    BY <2>1
<1>3. inbox \in [Conns -> Seq(Answer)]
  <2>1. inbox = [c \in Conns |-> <<>>]
    BY DEF Init
  <2> QED
    BY <2>1
<1>4. /\ hpc \in [Conns -> HandlerPC]
      /\ old \in [Conns -> Conns \cup {None}]
      /\ to \in [Reqs -> Conns \cup {None}]
  <2>1. /\ hpc = [c \in Conns |-> "none"]
        /\ old = [c \in Conns |-> None]
        /\ to = [r \in Reqs |-> None]
    BY DEF Init
  <2> QED
    BY <2>1, HandlerPCs
<1> QED
  BY <1>1, <1>2, <1>3, <1>4, ByAssumption DEF Init, TypeOK

\* Every step keeps the types.
LEMMA TypeStep ==
    ASSUME TypeOK, [Next]_vars PROVE TypeOK'
<1> USE HandlerPCs
<1>1. ASSUME NEW c \in Conns, Accept(c) PROVE TypeOK'
  BY <1>1 DEF TypeOK, Accept, serverVars, requestVars
<1>2. ASSUME NEW c \in Conns, Hello(c) \/ HelloFails(c) PROVE TypeOK'
  BY <1>2 DEF TypeOK, Hello, HelloFails, serverVars, socketVars, requestVars
<1>3. ASSUME NEW c \in Conns, SendHelloAck(c) PROVE TypeOK'
  <2>1. got' \in [Conns -> SUBSET Frame]
    <3>1. got \in [Conns -> SUBSET Frame]
      BY DEF TypeOK
    <3> QED
      BY <3>1, <1>3 DEF SendHelloAck, SendOk, SendFail, Frame
  <2>2. hpc' \in [Conns -> HandlerPC]
    BY <1>3 DEF TypeOK, SendHelloAck
  <2> QED
    BY <2>1, <2>2, <1>3 DEF TypeOK, SendHelloAck, serverVars, requestVars
<1>4. ASSUME NEW c \in Conns, Promote(c) PROVE TypeOK'
  BY <1>4 DEF TypeOK, Promote, socketVars, requestVars
<1>5. ASSUME NEW c \in Conns, Supersede(c) \/ Replay(c) \/ Close(c) PROVE TypeOK'
  <2>1. CASE Supersede(c)
    BY <2>1 DEF TypeOK, Supersede, serverVars, socketVars, requestVars
  <2>2. CASE Replay(c)
    BY <2>2 DEF TypeOK, Replay, serverVars, socketVars, requestVars
  <2>3. CASE Close(c)
    BY <2>3 DEF TypeOK, Close, serverVars, socketVars, requestVars
  <2> QED
    BY <1>5, <2>1, <2>2, <2>3
<1>6. ASSUME NEW c \in Conns, Resolve(c) PROVE TypeOK'
  <2>1. Head(inbox[c]) \in Answer /\ Tail(inbox[c]) \in Seq(Answer)
    BY <1>6 DEF TypeOK, Resolve
  <2>2. inbox' \in [Conns -> Seq(Answer)]
    BY <2>1, <1>6 DEF TypeOK, Resolve
  <2>3. claim' \in [Conns -> SUBSET Answer]
    <3>1. claim \in [Conns -> SUBSET Answer]
      BY DEF TypeOK
    <3> QED
      BY <2>1, <3>1, <1>6 DEF Resolve
  <2>4. pending' \in [Reqs -> Conns \cup {None}] /\ hpc' \in [Conns -> HandlerPC]
    <3>1. pending \in [Reqs -> Conns \cup {None}] /\ hpc \in [Conns -> HandlerPC]
      BY DEF TypeOK
    <3>2. \/ pending' = pending
          \/ pending' = [pending EXCEPT ![Head(inbox[c]).req] = None]
      BY <1>6 DEF Resolve
    <3>3. hpc' = hpc \/ hpc' = [hpc EXCEPT ![c] = "delivering"]
      BY <1>6 DEF Resolve
    <3>4. pending' \in [Reqs -> Conns \cup {None}]
      BY <3>1, <3>2
    <3>5. hpc' \in [Conns -> HandlerPC]
      BY <3>1, <3>3
    <3> QED
      BY <3>4, <3>5
  <2> QED
    BY <2>2, <2>3, <2>4, <1>6 DEF TypeOK, Resolve, requestVars
<1>7. ASSUME NEW c \in Conns, Deliver(c) PROVE TypeOK'
  <2>1. ch' \in [Reqs -> SUBSET Decision]
    BY <1>7 DEF TypeOK, Deliver, TrySend, Full, DecisionOf, Decision, Answer
  <2> QED
    BY <2>1, <1>7 DEF TypeOK, Deliver, serverVars, socketVars
<1>8. ASSUME NEW c \in Conns, ScanEnds(c) \/ LineTooLong(c) PROVE TypeOK'
  BY <1>8 DEF TypeOK, ScanEnds, LineTooLong, serverVars, socketVars, requestVars
<1>9. ASSUME NEW c \in Conns, Demote(c) PROVE TypeOK'
  <2>1. [approved |-> FALSE, by |-> ""] \in Decision
    BY ByAssumption DEF Decision
  <2>2. ch' \in [Reqs -> SUBSET Decision]
    BY <2>1, <1>9 DEF TypeOK, Demote, TrySend
  <2>3. pending' \in [Reqs -> Conns \cup {None}]
    BY <1>9 DEF TypeOK, Demote
  <2> QED
    BY <2>2, <2>3, <1>9 DEF TypeOK, Demote, socketVars
<1>10. ASSUME NEW r \in Reqs, NoConsumer(r) PROVE TypeOK'
  BY <1>10 DEF TypeOK, NoConsumer, serverVars, handlerVars, socketVars
<1>10a. ASSUME NEW r \in Reqs, Register(r) PROVE TypeOK'
  BY <1>10a DEF TypeOK, Register, handlerVars, socketVars
<1>11. ASSUME NEW r \in Reqs, SendRequest(r) PROVE TypeOK'
  <2>1. got' \in [Conns -> SUBSET Frame]
    <3>1. got \in [Conns -> SUBSET Frame] /\ to \in [Reqs -> Conns \cup {None}]
      BY DEF TypeOK
    <3> QED
      BY <3>1, <1>11 DEF SendRequest, SendOk, SendFail, Frame
  <2>2. rpc' \in [Reqs -> {"idle", "sending", "waiting", "returning", "done"}]
    BY <1>11 DEF TypeOK, SendRequest
  <2> QED
    BY <2>1, <2>2, <1>11 DEF TypeOK, SendRequest, serverVars, handlerVars
<1>12. ASSUME NEW r \in Reqs, Receive(r) \/ Timeout(r) PROVE TypeOK'
  <2>1. CASE Receive(r)
    BY <2>1 DEF TypeOK, Receive, serverVars, handlerVars, socketVars
  <2>2. CASE Timeout(r)
    BY <2>2 DEF TypeOK, Timeout, serverVars, handlerVars, socketVars
  <2> QED
    BY <1>12, <2>1, <2>2
<1>13. ASSUME NEW r \in Reqs, Return(r) PROVE TypeOK'
  <2>1. decidedBy' \in [Reqs -> By \cup {"user"}]
    <3>1. /\ decidedBy \in [Reqs -> By \cup {"user"}]
          /\ dec[r] \in SUBSET Decision
      BY DEF TypeOK
    <3>2. \A d \in Decision : DecidedByOf(d) \in By \cup {"user"}
      BY DEF Decision, DecidedByOf
    <3> QED
      BY <3>1, <3>2, <1>13 DEF Return
  <2>2. verdict' \in [Reqs -> {"none", "allow", "deny"}]
    <3>1. verdict \in [Reqs -> {"none", "allow", "deny"}]
      BY DEF TypeOK
    <3> QED
      BY <3>1, <1>13 DEF Return
  <2>3. pending' \in [Reqs -> Conns \cup {None}]
    BY <1>13 DEF TypeOK, Return
  <2> QED
    BY <2>1, <2>2, <2>3, <1>13 DEF TypeOK, Return, handlerVars, socketVars
<1>14. ASSUME NEW c \in Conns, NEW a \in Answer, Respond(c, a) PROVE TypeOK'
  BY <1>14 DEF TypeOK, Respond, serverVars, handlerVars, requestVars
<1>15. ASSUME NEW c \in Conns, Disconnect(c) PROVE TypeOK'
  BY <1>15 DEF TypeOK, Disconnect, serverVars, handlerVars, requestVars
<1>16. CASE UNCHANGED vars
  BY <1>16 DEF TypeOK, vars, serverVars, handlerVars, socketVars, requestVars
<1> QED
  BY <1>1, <1>2, <1>3, <1>4, <1>5, <1>6, <1>7, <1>8, <1>9, <1>10, <1>11,
     <1>12, <1>13, <1>14, <1>15, <1>16, <1>10a DEF Next, Handler, Request, App

\* Every variable keeps its type.
THEOREM TypeCorrect == Spec => []TypeOK
<1>1. Init => TypeOK
  BY TypeInit
<1>2. TypeOK /\ [Next]_vars => TypeOK'
  BY TypeStep
<1> QED
  BY <1>1, <1>2, PTL DEF Spec
-----------------------------------------------------------------------------
(* The consumer and the owners of pending requests *)

\* Every step keeps the owner of a pending approval live.
LEMMA PendingOwnerLiveStep ==
    ASSUME TypeOK, PendingOwnerLive, [Next]_vars PROVE PendingOwnerLive'
<1> USE DEF PendingOwnerLive, Promoted
<1>0. /\ consumer \in Conns \cup {None}
      /\ pending \in [Reqs -> Conns \cup {None}]
      /\ hpc \in [Conns -> HandlerPC]
  BY DEF TypeOK
<1>1. ASSUME NEW c \in Conns, Accept(c) \/ Hello(c) \/ HelloFails(c) PROVE PendingOwnerLive'
  BY <1>0, <1>1 DEF Accept, Hello, HelloFails, serverVars
<1>2. ASSUME NEW c \in Conns, SendHelloAck(c) \/ Close(c) PROVE PendingOwnerLive'
  BY <1>0, <1>2 DEF SendHelloAck, Close, serverVars
<1>3. ASSUME NEW c \in Conns, Promote(c) PROVE PendingOwnerLive'
  BY <1>0, <1>3, NoneNotConn DEF Promote
<1>4. ASSUME NEW c \in Conns, Supersede(c) \/ Replay(c) \/ ScanEnds(c) \/ LineTooLong(c) PROVE PendingOwnerLive'
  BY <1>0, <1>4 DEF Supersede, Replay, ScanEnds, LineTooLong, serverVars
<1>5. ASSUME NEW c \in Conns, Resolve(c) PROVE PendingOwnerLive'
  <2>1. /\ consumer' = consumer
        /\ \A r \in Reqs : pending'[r] # None => pending'[r] = pending[r]
    BY <1>0, <1>5 DEF Resolve
  <2>2. \A k \in Conns : Promoted(k) => Promoted(k)'
    BY <1>0, <1>5 DEF Resolve
  <2> QED
    BY <1>0, <2>1, <2>2
<1>6. ASSUME NEW c \in Conns, Deliver(c) PROVE PendingOwnerLive'
  BY <1>0, <1>6 DEF Deliver, serverVars
<1>7. ASSUME NEW c \in Conns, Demote(c) PROVE PendingOwnerLive'
  <2>1. /\ consumer' # None => consumer' = consumer /\ consumer # c
        /\ \A r \in Reqs : pending'[r] # None => pending'[r] = pending[r] /\ pending[r] # c
    BY <1>0, <1>7 DEF Demote
  <2>2. \A k \in Conns \ {c} : hpc'[k] = hpc[k]
    BY <1>0, <1>7 DEF Demote
  <2> QED
    BY <1>0, <2>1, <2>2
<1>8. ASSUME NEW r \in Reqs, Register(r) PROVE PendingOwnerLive'
  BY <1>0, <1>8 DEF Register, handlerVars
<1>9. ASSUME NEW r \in Reqs, NoConsumer(r) \/ SendRequest(r) \/ Receive(r) \/ Timeout(r)
      PROVE  PendingOwnerLive'
  BY <1>0, <1>9 DEF NoConsumer, SendRequest, Receive, Timeout, serverVars, handlerVars
<1>10. ASSUME NEW r \in Reqs, Return(r) PROVE PendingOwnerLive'
  BY <1>0, <1>10 DEF Return, handlerVars
<1>11. ASSUME NEW c \in Conns, Disconnect(c) \/ \E a \in Answer : Respond(c, a)
       PROVE  PendingOwnerLive'
  BY <1>0, <1>11 DEF Disconnect, Respond, serverVars, handlerVars
<1>12. CASE UNCHANGED vars
  BY <1>12 DEF vars, serverVars, handlerVars
<1> QED
  BY <1>1, <1>2, <1>3, <1>4, <1>5, <1>6, <1>7, <1>8, <1>9, <1>10, <1>11, <1>12
     DEF Next, Handler, Request, App

\* At any time the consumer, and the owner of every pending request, is a
\* connection whose handler has still to run demote: its departure will be seen.
THEOREM PendingOwnerAlwaysLive == Spec => []PendingOwnerLive
<1>1. ASSUME Init PROVE PendingOwnerLive
  <2>1. consumer = None /\ pending = [r \in Reqs |-> None]
    BY <1>1 DEF Init
  <2> QED
    BY <2>1 DEF PendingOwnerLive
<1>2. TypeOK /\ PendingOwnerLive /\ [Next]_vars => PendingOwnerLive'
  BY PendingOwnerLiveStep
<1> QED
  BY <1>1, <1>2, TypeCorrect, PTL DEF Spec

\* Every step keeps the consumer the newest connection.
LEMMA NewestIsConsumerStep ==
    ASSUME TypeOK, NewestIsConsumer, [Next]_vars PROVE NewestIsConsumer'
<1> USE DEF NewestIsConsumer, Promoted
<1>0. /\ consumer \in Conns \cup {None} /\ newest \in Conns \cup {None}
      /\ hpc \in [Conns -> HandlerPC]
  BY DEF TypeOK
<1>1. ASSUME NEW c \in Conns, Accept(c) \/ Hello(c) \/ HelloFails(c) PROVE NewestIsConsumer'
  BY <1>0, <1>1 DEF Accept, Hello, HelloFails, serverVars
<1>2. ASSUME NEW c \in Conns, SendHelloAck(c) \/ Close(c) PROVE NewestIsConsumer'
  BY <1>0, <1>2 DEF SendHelloAck, Close, serverVars
<1>3. ASSUME NEW c \in Conns, Promote(c) PROVE NewestIsConsumer'
  BY <1>0, <1>3 DEF Promote
<1>4. ASSUME NEW c \in Conns, Supersede(c) \/ Replay(c) \/ ScanEnds(c) \/ LineTooLong(c) PROVE NewestIsConsumer'
  BY <1>0, <1>4 DEF Supersede, Replay, ScanEnds, LineTooLong, serverVars
<1>5. ASSUME NEW c \in Conns, Resolve(c) \/ Deliver(c) PROVE NewestIsConsumer'
  BY <1>0, <1>5 DEF Resolve, Deliver, serverVars
<1>6. ASSUME NEW c \in Conns, Demote(c) PROVE NewestIsConsumer'
  BY <1>0, <1>6 DEF Demote
<1>7. ASSUME NEW r \in Reqs, Request(r) PROVE NewestIsConsumer'
  BY <1>0, <1>7 DEF Request, Register, NoConsumer, SendRequest, Receive, Timeout,
                    Return, serverVars, handlerVars
<1>8. ASSUME NEW c \in Conns, Disconnect(c) \/ \E a \in Answer : Respond(c, a)
       PROVE  NewestIsConsumer'
  BY <1>0, <1>8 DEF Disconnect, Respond, serverVars, handlerVars
<1>9. CASE UNCHANGED vars
  BY <1>9 DEF vars, serverVars, handlerVars
<1> QED
  BY <1>1, <1>2, <1>3, <1>4, <1>5, <1>6, <1>7, <1>8, <1>9
     DEF Next, Handler, App

\* The last connection to be promoted stays the consumer until its own demote.
THEOREM NewestAlwaysConsumer == Spec => []NewestIsConsumer
<1>1. Init => NewestIsConsumer
  BY DEF Init, NewestIsConsumer
<1>2. TypeOK /\ NewestIsConsumer /\ [Next]_vars => NewestIsConsumer'
  BY NewestIsConsumerStep
<1> QED
  BY <1>1, <1>2, TypeCorrect, PTL DEF Spec
-----------------------------------------------------------------------------
(***************************************************************************)
(* The inductive invariant.  A decision travels from an unread answer, to  *)
(* a claimed one, to the request's channel, to the value RequestApproval   *)
(* returns; at every station it is backed by an answer the app gave to     *)
(* that request on the connection the request was sent to.                 *)
(***************************************************************************)

\* Nothing has happened yet to a request that has not been made.
Untouched ==
    \A r \in Reqs : rpc[r] = "idle" =>
        /\ pending[r] = None /\ to[r] = None
        /\ ch[r] = {} /\ dec[r] = {}
        /\ verdict[r] = "none" /\ decidedBy[r] = ""

\* A request in flight knows the connection it was put to, and its pending entry,
\* while there is one, names the same.
Asked ==
    \A r \in Reqs :
        /\ rpc[r] \in {"sending", "waiting", "returning"} => to[r] \in Conns
        /\ rpc[r] # "done" => verdict[r] = "none"
        /\ rpc[r] = "done" => pending[r] = None
        /\ pending[r] # None => pending[r] = to[r]

\* What the read loop holds or will read, the app has said on that connection.
AnswersSaid ==
    \A c \in Conns :
        /\ \A i \in 1..Len(inbox[c]) : <<c, inbox[c][i]>> \in said
        /\ \A a \in claim[c] : <<c, a>> \in said

\* A claimed answer is for a request put to the claiming connection, whose entry
\* is gone and whose channel is empty; no two handlers claim the same request.
Claims ==
    \A c \in Conns : \A a \in claim[c] :
        /\ to[a.req] = c /\ rpc[a.req] # "idle"
        /\ pending[a.req] = None /\ ch[a.req] = {}
        /\ \A k \in Conns \ {c} : \A b \in claim[k] : b.req # a.req

\* An approving decision has an approving answer behind it.
Backed(r, d) ==
    d.approved => \E a \in Answer : /\ <<to[r], a>> \in said
                                    /\ a.req = r /\ a.approved /\ a.by = d.by

Witnessed == \A r \in Reqs : \A d \in ch[r] \cup dec[r] : Backed(r, d)

\* A pending entry's channel is still empty.
ChannelFree == \A r \in Reqs : pending[r] # None => ch[r] = {}

IInv ==
    /\ TypeOK
    /\ Untouched /\ Asked /\ AnswersSaid /\ Claims /\ Witnessed /\ ChannelFree
    /\ ApproveIsAnswered

\* The invariant holds as the agent starts.
LEMMA IInvInit ==
    ASSUME Init PROVE IInv
<1>1. /\ pending = [r \in Reqs |-> None] /\ to = [r \in Reqs |-> None]
      /\ rpc = [r \in Reqs |-> "idle"] /\ verdict = [r \in Reqs |-> "none"]
  BY DEF Init
<1>2. /\ ch = [r \in Reqs |-> {}] /\ dec = [r \in Reqs |-> {}]
      /\ claim = [c \in Conns |-> {}] /\ decidedBy = [r \in Reqs |-> ""]
  BY DEF Init
<1>3. inbox = [c \in Conns |-> <<>>]
  BY DEF Init
<1>4. Untouched
  BY <1>1, <1>2 DEF Untouched
<1>5. Asked
  BY <1>1 DEF Asked
<1>6. AnswersSaid
  <2>1. \A c \in Conns : claim[c] = {}
    BY <1>2
  <2>2. \A c \in Conns : Len(inbox[c]) = 0
    BY <1>3
  <2> QED
    BY <2>1, <2>2 DEF AnswersSaid
<1>7. Claims
  BY <1>2 DEF Claims
<1>7a. Witnessed /\ ChannelFree
  BY <1>2 DEF Witnessed, ChannelFree
<1>8. ApproveIsAnswered
  BY <1>1 DEF ApproveIsAnswered
<1> QED
  BY TypeInit, <1>4, <1>5, <1>6, <1>7, <1>7a, <1>8 DEF IInv

\* Most steps of a handler leave the travelling decisions alone.
LEMMA IInvFrame ==
    ASSUME IInv, TypeOK',
           UNCHANGED <<pending, claim, inbox, said, requestVars>>
    PROVE  IInv'
<1> USE DEF requestVars
<1>1. Untouched' /\ Asked'
  BY DEF IInv, Untouched, Asked
<1>2. AnswersSaid'
  BY DEF IInv, AnswersSaid
<1>3. Claims' /\ ChannelFree'
  BY DEF IInv, Claims, ChannelFree
<1>4. Witnessed'
  BY DEF IInv, Witnessed, Backed
<1>5. ApproveIsAnswered'
  BY DEF IInv, ApproveIsAnswered
<1> QED
  BY <1>1, <1>2, <1>3, <1>4, <1>5 DEF IInv

\* resolve, the first answer taking the approval out of the table, keeps the invariant.
LEMMA ResolveStep ==
    ASSUME IInv, TypeOK', NEW c \in Conns, Resolve(c) PROVE IInv'
<1> DEFINE a == Head(inbox[c])
<1>1. /\ inbox \in [Conns -> Seq(Answer)] /\ inbox[c] # <<>>
      /\ inbox' = [inbox EXCEPT ![c] = Tail(@)]
      /\ pending \in [Reqs -> Conns \cup {None}]
      /\ claim \in [Conns -> SUBSET Answer]
  BY DEF Resolve, IInv, TypeOK
<1>2. a \in Answer /\ a.req \in Reqs /\ <<c, a>> \in said
  <2>1. 1 \in 1..Len(inbox[c]) /\ a = inbox[c][1]
    BY <1>1
  <2>2. \A i \in 1..Len(inbox[c]) : <<c, inbox[c][i]>> \in said
    BY DEF IInv, AnswersSaid
  <2>3. a \in Answer
    BY <1>1
  <2>4. a.req \in Reqs
    BY <2>3 DEF Answer
  <2> QED
    BY <2>1, <2>2, <2>3, <2>4
<1>3. UNCHANGED <<said, requestVars>>
  BY DEF Resolve
<1>4. \/ UNCHANGED <<pending, claim>>
      \/ /\ pending[a.req] = c
         /\ pending' = [pending EXCEPT ![a.req] = None]
         /\ claim' = [claim EXCEPT ![c] = {a}]
  BY DEF Resolve
<1> HIDE DEF a
<1>5. \A i \in 1..Len(inbox'[c]) : inbox'[c][i] = inbox[c][i + 1] /\ i + 1 \in 1..Len(inbox[c])
  BY <1>1
<1>6. AnswersSaid'
  <2>1. AnswersSaid
    BY DEF IInv
  <2>2. \A k \in Conns : \A i \in 1..Len(inbox'[k]) : <<k, inbox'[k][i]>> \in said'
    <3>1. \A i \in 1..Len(inbox'[c]) : <<c, inbox'[c][i]>> \in said'
      BY <2>1, <1>3, <1>5 DEF AnswersSaid
    <3>2. \A k \in Conns \ {c} : inbox'[k] = inbox[k]
      BY <1>1
    <3> QED
      BY <2>1, <1>3, <3>1, <3>2 DEF AnswersSaid
  <2>3. \A k \in Conns : \A b \in claim'[k] : <<k, b>> \in said'
    <3>1. claim'[c] \in {claim[c], {a}} /\ \A k \in Conns \ {c} : claim'[k] = claim[k]
      BY <1>1, <1>4
    <3> QED
      BY <2>1, <3>1, <1>2, <1>3 DEF AnswersSaid
  <2> QED
    BY <2>2, <2>3 DEF AnswersSaid
<1>7. Untouched' /\ Asked'
  BY <1>1, <1>2, <1>3, <1>4, NoneNotConn DEF IInv, Untouched, Asked, requestVars
<1>8. ChannelFree'
  BY <1>1, <1>2, <1>3, <1>4 DEF IInv, ChannelFree, requestVars
<1>9. Claims'
  <2>1. CASE UNCHANGED <<pending, claim>>
    BY <2>1, <1>3 DEF IInv, Claims, requestVars
  <2>2. CASE /\ pending[a.req] = c
             /\ pending' = [pending EXCEPT ![a.req] = None]
             /\ claim' = [claim EXCEPT ![c] = {a}]
    <3>1. pending[a.req] # None /\ to[a.req] = c /\ rpc[a.req] # "idle" /\ ch[a.req] = {}
      BY <2>2, <1>2, NoneNotConn DEF IInv, Asked, Untouched, ChannelFree
    <3>2. \A k \in Conns : \A b \in claim[k] : b.req # a.req /\ b.req \in Reqs
      BY <3>1, <1>1 DEF IInv, Claims, Answer
    <3>3. \A k \in Conns : \A b \in claim[k] : pending'[b.req] = None
      BY <3>2, <2>2, <1>1 DEF IInv, Claims
    <3>4. pending'[a.req] = None
      BY <2>2, <1>1, <1>2
    <3>5. claim'[c] = {a} /\ \A k \in Conns \ {c} : claim'[k] = claim[k]
      BY <2>2, <1>1
    <3>6. /\ to' = to /\ rpc' = rpc /\ ch' = ch
      BY <1>3 DEF requestVars
    <3>7. Claims
      BY DEF IInv
    <3> QED
      BY <3>1, <3>2, <3>3, <3>4, <3>5, <3>6, <3>7 DEF Claims
  <2> QED
    BY <1>4, <2>1, <2>2
<1>10. Witnessed'
  BY <1>3 DEF IInv, Witnessed, Backed, requestVars
<1>11. ApproveIsAnswered'
  BY <1>3 DEF IInv, ApproveIsAnswered, requestVars
<1> QED
  BY <1>6, <1>7, <1>8, <1>9, <1>10, <1>11 DEF IInv

\* Handing a decision to the waiting handler keeps it.
LEMMA DeliverStep ==
    ASSUME IInv, TypeOK', NEW c \in Conns, Deliver(c) PROVE IInv'
<1>1. PICK a \in claim[c] : ch' = [ch EXCEPT ![a.req] = TrySend(@, DecisionOf(a))]
  BY DEF Deliver
<1>2. /\ claim \in [Conns -> SUBSET Answer] /\ ch \in [Reqs -> SUBSET Decision]
      /\ claim' = [claim EXCEPT ![c] = {}]
      /\ UNCHANGED <<pending, inbox, said, rpc, to, dec, verdict, decidedBy>>
  BY DEF Deliver, IInv, TypeOK, serverVars, socketVars
<1>3. a \in Answer /\ a.req \in Reqs
  BY <1>1, <1>2 DEF Answer
<1>4. /\ to[a.req] = c /\ rpc[a.req] # "idle" /\ pending[a.req] = None
      /\ ch[a.req] = {} /\ <<c, a>> \in said
      /\ \A k \in Conns \ {c} : \A b \in claim[k] : b.req # a.req
  BY <1>1 DEF IInv, Claims, AnswersSaid
<1>5. /\ ch'[a.req] = {DecisionOf(a)}
      /\ \A r \in Reqs \ {a.req} : ch'[r] = ch[r]
  BY <1>1, <1>2, <1>3, <1>4 DEF TrySend, Full
<1>6. claim'[c] = {} /\ \A k \in Conns \ {c} : claim'[k] = claim[k]
  BY <1>2
<1>7. Untouched' /\ Asked'
  BY <1>2, <1>4, <1>5 DEF IInv, Untouched, Asked
<1>8. AnswersSaid'
  BY <1>2, <1>6 DEF IInv, AnswersSaid
<1>9. Claims'
  <2>1. \A k \in Conns : \A b \in claim[k] : b.req \in Reqs
    BY <1>2 DEF Answer
  <2>2. Claims
    BY DEF IInv
  <2> QED
    BY <1>2, <1>4, <1>5, <1>6, <2>1, <2>2 DEF Claims
<1>10. Witnessed'
  <2>1. Backed(a.req, DecisionOf(a))'
    BY <1>2, <1>3, <1>4 DEF Backed, DecisionOf
  <2>2. \A r \in Reqs : \A d : Backed(r, d) => Backed(r, d)'
    BY <1>2 DEF Backed
  <2>3. Witnessed
    BY DEF IInv
  <2>4. ASSUME NEW r \in Reqs, NEW d \in ch'[r] \cup dec'[r] PROVE Backed(r, d)'
    <3>1. CASE d \in ch[r] \cup dec[r]
      BY <3>1, <2>2, <2>3 DEF Witnessed
    <3>2. CASE r = a.req /\ d = DecisionOf(a)
      BY <3>2, <2>1
    <3> QED
      BY <3>1, <3>2, <1>2, <1>5, <2>4
  <2> QED
    BY <2>4 DEF Witnessed
<1>11. ChannelFree' /\ ApproveIsAnswered'
  BY <1>2, <1>4, <1>5 DEF IInv, ChannelFree, ApproveIsAnswered
<1> QED
  BY <1>7, <1>8, <1>9, <1>10, <1>11 DEF IInv

\* demote, failing the approvals of a connection that ends, keeps it.
LEMMA DemoteStep ==
    ASSUME IInv, TypeOK', NEW c \in Conns, Demote(c) PROVE IInv'
<1> DEFINE no == [approved |-> FALSE, by |-> ""]
<1>1. UNCHANGED <<claim, inbox, said, rpc, to, dec, verdict, decidedBy>>
  BY DEF Demote, socketVars
<1>2. \A r \in Reqs : /\ pending'[r] = IF pending[r] = c THEN None ELSE pending[r]
                      /\ pending[r] # c => ch'[r] = ch[r]
                      /\ ch'[r] \subseteq ch[r] \cup {no}
  BY DEF Demote, TrySend
<1>3. Untouched' /\ Asked'
  BY <1>1, <1>2, NoneNotConn DEF IInv, Untouched, Asked
<1>4. AnswersSaid' /\ ApproveIsAnswered'
  BY <1>1 DEF IInv, AnswersSaid, ApproveIsAnswered
<1>5. Claims'
  <2>1. \A k \in Conns : \A a \in claim[k] : a.req \in Reqs
    BY DEF IInv, TypeOK, Answer
  <2>2. Claims
    BY DEF IInv
  <2>3. \A r \in Reqs : pending[r] = None => pending'[r] = None /\ ch'[r] = ch[r]
    BY <1>2, NoneNotConn
  <2> QED
    BY <1>1, <2>1, <2>2, <2>3 DEF Claims
<1>6. Witnessed'
  <2>1. \A r \in Reqs : Backed(r, no)'
    BY DEF Backed
  <2>2. \A r \in Reqs : \A d : Backed(r, d) => Backed(r, d)'
    BY <1>1 DEF Backed
  <2>3. Witnessed
    BY DEF IInv
  <2> HIDE DEF no
  <2> QED
    BY <1>1, <1>2, <2>1, <2>2, <2>3 DEF Witnessed
<1>7. ChannelFree'
  BY <1>2 DEF IInv, ChannelFree
<1> QED
  BY <1>3, <1>4, <1>5, <1>6, <1>7 DEF IInv

\* A request that finds no consumer keeps it.
LEMMA NoConsumerStep ==
    ASSUME IInv, TypeOK', NEW r \in Reqs, NoConsumer(r) PROVE IInv'
<1>1. UNCHANGED <<pending, claim, inbox, said, to, ch, dec, decidedBy>>
  BY DEF NoConsumer, serverVars, handlerVars, socketVars
<1>2. /\ rpc \in [Reqs -> {"idle", "sending", "waiting", "returning", "done"}]
      /\ verdict \in [Reqs -> {"none", "allow", "deny"}]
  BY DEF IInv, TypeOK
<1>3. /\ rpc[r] = "idle" /\ rpc'[r] = "done" /\ verdict'[r] = "deny"
      /\ \A q \in Reqs \ {r} : rpc'[q] = rpc[q] /\ verdict'[q] = verdict[q]
  BY <1>2 DEF NoConsumer
<1>4. Untouched' /\ Asked'
  BY <1>1, <1>3 DEF IInv, Untouched, Asked
<1>5. AnswersSaid' /\ ChannelFree'
  BY <1>1 DEF IInv, AnswersSaid, ChannelFree
<1>6. Claims'
  <2>1. \A k \in Conns : \A a \in claim[k] : a.req \in Reqs
    BY DEF IInv, TypeOK, Answer
  <2> QED
    BY <1>1, <1>3, <2>1 DEF IInv, Claims
<1>7. Witnessed'
  BY <1>1 DEF IInv, Witnessed, Backed
<1>8. ApproveIsAnswered'
  BY <1>1, <1>3 DEF IInv, ApproveIsAnswered
<1> QED
  BY <1>4, <1>5, <1>6, <1>7, <1>8 DEF IInv

\* A request that enters the table keeps it.
LEMMA RegisterStep ==
    ASSUME IInv, TypeOK', NEW r \in Reqs, Register(r) PROVE IInv'
<1>1. UNCHANGED <<claim, inbox, said, ch, dec, verdict, decidedBy>>
  BY DEF Register, handlerVars, socketVars
<1>2. /\ rpc \in [Reqs -> {"idle", "sending", "waiting", "returning", "done"}]
      /\ pending \in [Reqs -> Conns \cup {None}] /\ to \in [Reqs -> Conns \cup {None}]
      /\ consumer \in Conns
  BY DEF IInv, TypeOK, Register
<1>3. /\ rpc[r] = "idle" /\ rpc'[r] = "sending"
      /\ pending'[r] = consumer /\ to'[r] = consumer
      /\ \A q \in Reqs \ {r} : rpc'[q] = rpc[q] /\ pending'[q] = pending[q] /\ to'[q] = to[q]
  BY <1>2 DEF Register
<1>4. ch[r] = {} /\ dec[r] = {} /\ verdict[r] = "none"
  BY <1>3 DEF IInv, Untouched
<1>5. Untouched' /\ Asked'
  <2>1. Untouched'
    BY <1>1, <1>3, <1>4 DEF IInv, Untouched
  <2>2. Asked'
    BY <1>1, <1>2, <1>3 DEF IInv, Asked
  <2> QED
    BY <2>1, <2>2
<1>6. AnswersSaid' /\ ChannelFree'
  BY <1>1, <1>3, <1>4 DEF IInv, AnswersSaid, ChannelFree
<1>7. Claims'
  <2>1. \A k \in Conns : \A a \in claim[k] : a.req \in Reqs \ {r}
    BY <1>3 DEF IInv, TypeOK, Answer, Claims
  <2>2. Claims
    BY DEF IInv
  <2> QED
    BY <1>1, <1>3, <2>1, <2>2 DEF Claims
<1>8. Witnessed'
  <2>1. \A q \in Reqs \ {r} : \A d : Backed(q, d) => Backed(q, d)'
    BY <1>1, <1>3 DEF Backed
  <2>2. ch'[r] \cup dec'[r] = {}
    BY <1>1, <1>4
  <2>3. Witnessed
    BY DEF IInv
  <2> QED
    BY <1>1, <2>1, <2>2, <2>3 DEF Witnessed
<1>9. ApproveIsAnswered'
  BY <1>1, <1>3, <1>4 DEF IInv, ApproveIsAnswered
<1> QED
  BY <1>5, <1>6, <1>7, <1>8, <1>9 DEF IInv

\* A request that is sent, and one that times out, keep it.
LEMMA WaitStep ==
    ASSUME IInv, TypeOK', NEW r \in Reqs, SendRequest(r) \/ Timeout(r) PROVE IInv'
<1>1. UNCHANGED <<pending, claim, inbox, said, to, ch, dec, verdict, decidedBy>>
  BY DEF SendRequest, Timeout, serverVars, handlerVars, socketVars
<1>2. rpc \in [Reqs -> {"idle", "sending", "waiting", "returning", "done"}]
  BY DEF IInv, TypeOK
<1>3. /\ rpc[r] \in {"sending", "waiting"} /\ rpc'[r] \in {"waiting", "returning"}
      /\ \A q \in Reqs \ {r} : rpc'[q] = rpc[q]
  BY <1>2 DEF SendRequest, Timeout
<1>4. Untouched' /\ Asked'
  BY <1>1, <1>3 DEF IInv, Untouched, Asked
<1>5. AnswersSaid' /\ ChannelFree'
  BY <1>1 DEF IInv, AnswersSaid, ChannelFree
<1>6. Claims'
  <2>1. \A k \in Conns : \A a \in claim[k] : a.req \in Reqs
    BY DEF IInv, TypeOK, Answer
  <2>2. Claims
    BY DEF IInv
  <2> QED
    BY <1>1, <1>3, <2>1, <2>2 DEF Claims
<1>7. Witnessed'
  BY <1>1 DEF IInv, Witnessed, Backed
<1>8. ApproveIsAnswered'
  BY <1>1 DEF IInv, ApproveIsAnswered
<1> QED
  BY <1>4, <1>5, <1>6, <1>7, <1>8 DEF IInv

\* A request that takes its decision keeps it.
LEMMA ReceiveStep ==
    ASSUME IInv, TypeOK', NEW r \in Reqs, Receive(r) PROVE IInv'
<1>1. UNCHANGED <<pending, claim, inbox, said, to, verdict, decidedBy>>
  BY DEF Receive, serverVars, handlerVars, socketVars
<1>2. /\ rpc \in [Reqs -> {"idle", "sending", "waiting", "returning", "done"}]
      /\ ch \in [Reqs -> SUBSET Decision] /\ dec \in [Reqs -> SUBSET Decision]
  BY DEF IInv, TypeOK
<1>3. /\ rpc[r] = "waiting" /\ rpc'[r] = "returning"
      /\ dec'[r] = ch[r] /\ ch'[r] = {}
      /\ \A q \in Reqs \ {r} : rpc'[q] = rpc[q] /\ dec'[q] = dec[q] /\ ch'[q] = ch[q]
  BY <1>2 DEF Receive
<1>4. Untouched' /\ Asked'
  BY <1>1, <1>3 DEF IInv, Untouched, Asked
<1>5. AnswersSaid' /\ ChannelFree'
  BY <1>1, <1>3 DEF IInv, AnswersSaid, ChannelFree
<1>6. Claims'
  <2>1. \A k \in Conns : \A a \in claim[k] : a.req \in Reqs
    BY DEF IInv, TypeOK, Answer
  <2>2. Claims
    BY DEF IInv
  <2> QED
    BY <1>1, <1>3, <2>1, <2>2 DEF Claims
<1>7. Witnessed'
  <2>1. \A q \in Reqs : \A d : Backed(q, d) => Backed(q, d)'
    BY <1>1 DEF Backed
  <2>2. \A q \in Reqs : ch'[q] \cup dec'[q] \subseteq ch[q] \cup dec[q]
    BY <1>3
  <2> QED
    BY <2>1, <2>2 DEF IInv, Witnessed
<1>8. ApproveIsAnswered'
  BY <1>1 DEF IInv, ApproveIsAnswered
<1> QED
  BY <1>4, <1>5, <1>6, <1>7, <1>8 DEF IInv

\* A request that returns keeps it.
LEMMA ReturnStep ==
    ASSUME IInv, TypeOK', NEW r \in Reqs, Return(r) PROVE IInv'
<1>1. UNCHANGED <<claim, inbox, said, to, ch, dec>>
  BY DEF Return, handlerVars, socketVars
<1>2. /\ rpc \in [Reqs -> {"idle", "sending", "waiting", "returning", "done"}]
      /\ pending \in [Reqs -> Conns \cup {None}]
      /\ verdict \in [Reqs -> {"none", "allow", "deny"}]
      /\ decidedBy \in [Reqs -> By \cup {"user"}]
      /\ dec[r] \subseteq Decision
  BY DEF IInv, TypeOK
<1>3. /\ rpc[r] = "returning" /\ rpc'[r] = "done" /\ pending'[r] = None
      /\ \A q \in Reqs \ {r} : rpc'[q] = rpc[q] /\ pending'[q] = pending[q]
  BY <1>2 DEF Return
<1>4. \A q \in Reqs \ {r} : verdict'[q] = verdict[q] /\ decidedBy'[q] = decidedBy[q]
  BY <1>2 DEF Return
<1>5. Untouched' /\ Asked'
  <2>1. Untouched'
    BY <1>1, <1>3, <1>4 DEF IInv, Untouched
  <2>2. Asked'
    BY <1>1, <1>3, <1>4 DEF IInv, Asked
  <2> QED
    BY <2>1, <2>2
<1>6. AnswersSaid' /\ ChannelFree'
  BY <1>1, <1>3 DEF IInv, AnswersSaid, ChannelFree
<1>7. Claims'
  <2>1. \A k \in Conns : \A a \in claim[k] : a.req \in Reqs
    BY DEF IInv, TypeOK, Answer
  <2>2. Claims
    BY DEF IInv
  <2> QED
    BY <1>1, <1>3, <2>1, <2>2 DEF Claims
<1>8. Witnessed'
  BY <1>1 DEF IInv, Witnessed, Backed
<1>9. ApproveIsAnswered'
  <2>1. verdict'[r] = "allow" =>
          \E d \in dec[r] : d.approved /\ decidedBy'[r] = DecidedByOf(d)
    BY <1>2 DEF Return
  <2>2. ASSUME NEW d \in dec[r], d.approved
        PROVE  \E a \in Answer : /\ <<to[r], a>> \in said
                                 /\ a.req = r /\ a.approved
                                 /\ DecidedByOf(d) = DecidedByOf(a)
    <3>1. Backed(r, d)
      BY DEF IInv, Witnessed
    <3> QED
      BY <3>1, <2>2 DEF Backed, DecidedByOf
  <2>3. ASSUME verdict'[r] = "allow"
        PROVE  \E a \in Answer : /\ <<to[r], a>> \in said
                                 /\ a.req = r /\ a.approved
                                 /\ decidedBy'[r] = DecidedByOf(a)
    <3>1. PICK d \in dec[r] : d.approved /\ decidedBy'[r] = DecidedByOf(d)
      BY <2>1, <2>3
    <3>2. PICK a \in Answer : /\ <<to[r], a>> \in said
                             /\ a.req = r /\ a.approved
                             /\ DecidedByOf(d) = DecidedByOf(a)
      BY <2>2, <3>1
    <3> QED
      BY <3>1, <3>2
  <2>4. ASSUME NEW q \in Reqs \ {r}, verdict'[q] = "allow"
        PROVE  \E a \in Answer : /\ <<to[q], a>> \in said
                                 /\ a.req = q /\ a.approved
                                 /\ decidedBy'[q] = DecidedByOf(a)
    <3>1. q \in Reqs /\ verdict[q] = "allow" /\ decidedBy'[q] = decidedBy[q]
      BY <1>4, <2>4
    <3>2. PICK a \in Answer : /\ <<to[q], a>> \in said
                             /\ a.req = q /\ a.approved
                             /\ decidedBy[q] = DecidedByOf(a)
      BY <3>1 DEF IInv, ApproveIsAnswered
    <3> QED
      BY <3>1, <3>2
  <2> QED
    BY <1>1, <2>3, <2>4 DEF ApproveIsAnswered
<1> QED
  BY <1>5, <1>6, <1>7, <1>8, <1>9 DEF IInv

\* The app answering keeps it.
LEMMA RespondStep ==
    ASSUME IInv, TypeOK', NEW c \in Conns, NEW a \in Answer, Respond(c, a) PROVE IInv'
<1>1. UNCHANGED <<pending, claim, requestVars>>
  BY DEF Respond, serverVars, handlerVars
<1>2. said' = said \cup {<<c, a>>} /\ inbox' = [inbox EXCEPT ![c] = Append(@, a)]
  BY DEF Respond
<1>3. inbox \in [Conns -> Seq(Answer)]
  BY DEF IInv, TypeOK
<1>4. Untouched' /\ Asked' /\ ChannelFree'
  BY <1>1 DEF IInv, Untouched, Asked, ChannelFree, requestVars
<1>5. Claims'
  BY <1>1 DEF IInv, Claims, requestVars
<1>6. AnswersSaid'
  <2>1. \A i \in 1..Len(inbox'[c]) : inbox'[c][i] = a \/ (i \in 1..Len(inbox[c]) /\ inbox'[c][i] = inbox[c][i])
    BY <1>2, <1>3
  <2>2. \A k \in Conns \ {c} : inbox'[k] = inbox[k]
    BY <1>2, <1>3
  <2>3. AnswersSaid
    BY DEF IInv
  <2>4. \A i \in 1..Len(inbox'[c]) : <<c, inbox'[c][i]>> \in said'
    BY <1>2, <2>1, <2>3 DEF AnswersSaid
  <2> QED
    BY <1>1, <1>2, <2>2, <2>3, <2>4 DEF AnswersSaid
<1>7. Witnessed'
  <2>1. \A q \in Reqs : \A d : Backed(q, d) => Backed(q, d)'
    BY <1>1, <1>2 DEF Backed, requestVars
  <2> QED
    BY <1>1, <2>1 DEF IInv, Witnessed, requestVars
<1>8. ApproveIsAnswered'
  <2>1. ApproveIsAnswered
    BY DEF IInv
  <2> QED
    BY <1>1, <1>2, <2>1 DEF ApproveIsAnswered, requestVars
<1> QED
  BY <1>4, <1>5, <1>6, <1>7, <1>8 DEF IInv

\* Every step keeps the invariant.
LEMMA IInvStep ==
    ASSUME IInv, [Next]_vars PROVE IInv'
<1>0. TypeOK'
  BY TypeStep DEF IInv
<1>1. ASSUME NEW c \in Conns,
             Accept(c) \/ Hello(c) \/ HelloFails(c) \/ SendHelloAck(c) \/ Promote(c)
      PROVE  IInv'
  <2>1. UNCHANGED <<pending, claim, inbox, said, requestVars>>
    BY <1>1 DEF Accept, Hello, HelloFails, SendHelloAck, Promote, serverVars, socketVars
  <2> QED
    BY <1>0, <2>1, IInvFrame
<1>2. ASSUME NEW c \in Conns,
             Supersede(c) \/ Replay(c) \/ ScanEnds(c) \/ LineTooLong(c) \/ Close(c) \/ Disconnect(c)
      PROVE  IInv'
  <2>1. UNCHANGED <<pending, claim, inbox, said, requestVars>>
    BY <1>2 DEF Supersede, Replay, ScanEnds, LineTooLong, Close, Disconnect, serverVars, handlerVars,
                socketVars
  <2> QED
    BY <1>0, <2>1, IInvFrame
<1>3. CASE UNCHANGED vars
  <2>1. UNCHANGED <<pending, claim, inbox, said, requestVars>>
    BY <1>3 DEF vars, serverVars, handlerVars, socketVars
  <2> QED
    BY <1>0, <2>1, IInvFrame
<1>4. ASSUME NEW c \in Conns, Handler(c) PROVE IInv'
  BY <1>0, <1>1, <1>2, <1>4, ResolveStep, DeliverStep, DemoteStep DEF Handler
<1>5. ASSUME NEW r \in Reqs, Request(r) PROVE IInv'
  BY <1>0, <1>5, NoConsumerStep, RegisterStep, WaitStep, ReceiveStep, ReturnStep
     DEF Request
<1>6. ASSUME App PROVE IInv'
  BY <1>0, <1>2, <1>6, RespondStep DEF App
<1> QED
  BY <1>1, <1>3, <1>4, <1>5, <1>6 DEF Next

\* The inductive invariant holds throughout.
THEOREM Invariance == Spec => []IInv
<1>1. Init => IInv
  BY IInvInit
<1>2. IInv /\ [Next]_vars => IInv'
  BY IInvStep
<1> QED
  BY <1>1, <1>2, PTL DEF Spec

\* A request is allowed only on the strength of an approving answer to it, given
\* on the connection it was sent to, and the outcome is attributed as that answer
\* says: no takeover, duplicate or late answer can make it otherwise.
THEOREM AllowedIsAnswered == Spec => []ApproveIsAnswered
<1>1. IInv => ApproveIsAnswered
  BY DEF IInv
<1> QED
  BY <1>1, Invariance, PTL

\* The non-blocking sends of resolve and demote never drop a decision.
THEOREM DecisionsAreDelivered == Spec => []NoDecisionLost
<1>1. IInv => NoDecisionLost
  BY DEF IInv, Claims, ChannelFree, NoDecisionLost
<1> QED
  BY <1>1, Invariance, PTL

-----------------------------------------------------------------------------
(* What has been sent where *)

\* The handshake of a connection is over before it can be the consumer, and so
\* before a request is sent to it.
Greeted ==
    /\ \A c \in Conns : hpc[c] = "promoting" => Ack \in got[c]
    /\ consumer # None => Ack \in got[consumer]
    /\ \A r \in Reqs : rpc[r] = "sending" => to[r] \in Conns /\ Ack \in got[to[r]]

\* A request is seen only on the connection it was put to.
Routed ==
    \A c \in Conns : \A r \in Reqs : r \in got[c] => to[r] = c /\ rpc[r] # "idle"

SentInv == Greeted /\ Routed /\ HandshakeFirst

\* Every step keeps what HandshakeFirst rests on.
LEMMA SentStep ==
    ASSUME TypeOK, SentInv, [Next]_vars PROVE SentInv'
<1>0. /\ consumer \in Conns \cup {None}
      /\ hpc \in [Conns -> HandlerPC]
      /\ got \in [Conns -> SUBSET Frame]
      /\ rpc \in [Reqs -> {"idle", "sending", "waiting", "returning", "done"}]
      /\ to \in [Reqs -> Conns \cup {None}]
  BY DEF TypeOK
<1>1. Greeted /\ Routed /\ HandshakeFirst
  BY DEF SentInv
<1>2. ASSUME UNCHANGED <<got, rpc, to>>,
             consumer' # None => Ack \in got[consumer'],
             \A c \in Conns : hpc'[c] = "promoting" => Ack \in got[c]
      PROVE  SentInv'
  BY <1>1, <1>2 DEF SentInv, Greeted, Routed, HandshakeFirst
<1>3. ASSUME NEW c \in Conns, SendHelloAck(c) PROVE SentInv'
  <2>1. UNCHANGED <<consumer, rpc, to>>
    BY <1>3 DEF SendHelloAck, serverVars, requestVars
  <2>2. CASE got' = [got EXCEPT ![c] = @ \cup {Ack}] /\ hpc' = [hpc EXCEPT ![c] = "promoting"]
    <3>1. /\ got'[c] = got[c] \cup {Ack} /\ hpc'[c] = "promoting"
          /\ \A k \in Conns \ {c} : got'[k] = got[k] /\ hpc'[k] = hpc[k]
      BY <1>0, <2>2
    <3>2. Greeted'
      BY <1>0, <1>1, <2>1, <3>1 DEF Greeted
    <3>3. Routed' /\ HandshakeFirst'
      BY <1>1, <2>1, <3>1, AckNotReq DEF Routed, HandshakeFirst
    <3> QED
      BY <3>2, <3>3 DEF SentInv
  <2>3. CASE UNCHANGED got /\ hpc' = [hpc EXCEPT ![c] = "closing"]
    BY <1>0, <1>1, <1>2, <2>1, <2>3 DEF Greeted
  <2> QED
    BY <1>3, <2>2, <2>3 DEF SendHelloAck, SendOk, SendFail
<1>4. ASSUME NEW c \in Conns, Promote(c) PROVE SentInv'
  BY <1>0, <1>1, <1>2, <1>4 DEF Promote, Greeted, socketVars, requestVars
<1>5. ASSUME NEW c \in Conns,
             \/ Accept(c) \/ Hello(c) \/ HelloFails(c) \/ Supersede(c) \/ Replay(c)
             \/ ScanEnds(c) \/ LineTooLong(c) \/ Close(c) \/ Deliver(c)
      PROVE  SentInv'
  <2>1. UNCHANGED <<got, rpc, to, consumer>>
    BY <1>5 DEF Accept, Hello, HelloFails, Supersede, Replay, ScanEnds, LineTooLong, Close, Deliver,
                serverVars, socketVars, requestVars
  <2>2. \A k \in Conns : hpc'[k] = "promoting" => hpc[k] = "promoting"
    BY <1>0, <1>5 DEF Accept, Hello, HelloFails, Supersede, Replay, ScanEnds, LineTooLong, Close,
                      Deliver
  <2> QED
    BY <1>1, <1>2, <2>1, <2>2 DEF Greeted
<1>6. ASSUME NEW c \in Conns, Resolve(c) \/ Demote(c) PROVE SentInv'
  <2>1. UNCHANGED <<got, rpc, to>> /\ consumer' \in {consumer, None}
    BY <1>6 DEF Resolve, Demote, socketVars, requestVars
  <2>2. \A k \in Conns : hpc'[k] = "promoting" => hpc[k] = "promoting"
    BY <1>0, <1>6 DEF Resolve, Demote
  <2> QED
    BY <1>1, <1>2, <2>1, <2>2 DEF Greeted
<1>7. ASSUME NEW r \in Reqs, NoConsumer(r) \/ Receive(r) \/ Timeout(r) \/ Return(r)
      PROVE  SentInv'
  <2>1. UNCHANGED <<got, to, consumer, hpc>>
    BY <1>7 DEF NoConsumer, Receive, Timeout, Return, serverVars, handlerVars, socketVars
  <2>2. /\ rpc'[r] \notin {"idle", "sending"}
        /\ \A q \in Reqs \ {r} : rpc'[q] = rpc[q]
    BY <1>0, <1>7 DEF NoConsumer, Receive, Timeout, Return
  <2> QED
    BY <1>1, <2>1, <2>2 DEF SentInv, Greeted, Routed, HandshakeFirst
<1>8. ASSUME NEW r \in Reqs, Register(r) PROVE SentInv'
  <2>1. UNCHANGED <<got, consumer, hpc>>
    BY <1>8 DEF Register, handlerVars, socketVars
  <2>2. /\ rpc[r] = "idle" /\ rpc'[r] = "sending" /\ to'[r] = consumer
        /\ consumer \in Conns /\ consumer # None
        /\ \A q \in Reqs \ {r} : rpc'[q] = rpc[q] /\ to'[q] = to[q]
    BY <1>0, <1>8 DEF Register
  <2>3. Greeted'
    BY <1>1, <2>1, <2>2 DEF Greeted
  <2>4. Routed' /\ HandshakeFirst'
    BY <1>1, <2>1, <2>2 DEF Routed, HandshakeFirst
  <2> QED
    BY <2>3, <2>4 DEF SentInv
<1>9. ASSUME NEW r \in Reqs, SendRequest(r) PROVE SentInv'
  <2>1. UNCHANGED <<to, consumer, hpc>>
    BY <1>9 DEF SendRequest, serverVars, handlerVars
  <2>2. /\ rpc[r] = "sending" /\ rpc'[r] \in {"waiting", "returning"}
        /\ \A q \in Reqs \ {r} : rpc'[q] = rpc[q]
    BY <1>0, <1>9 DEF SendRequest
  <2>3. to[r] \in Conns /\ Ack \in got[to[r]]
    BY <1>1, <2>2 DEF Greeted
  <2>4. /\ \A k \in Conns \ {to[r]} : got'[k] = got[k]
        /\ got'[to[r]] \in {got[to[r]], got[to[r]] \cup {r}}
    BY <1>0, <1>9, <2>3 DEF SendRequest, SendOk, SendFail
  <2>5. Greeted'
    BY <1>0, <1>1, <2>1, <2>2, <2>4 DEF Greeted
  <2>6. Routed'
    BY <1>1, <2>1, <2>2, <2>4 DEF Routed
  <2>7. HandshakeFirst'
    BY <1>1, <2>3, <2>4 DEF HandshakeFirst
  <2> QED
    BY <2>5, <2>6, <2>7 DEF SentInv
<1>10. ASSUME NEW c \in Conns, Disconnect(c) \/ \E a \in Answer : Respond(c, a) PROVE SentInv'
  <2>1. UNCHANGED <<got, rpc, to, consumer, hpc>>
    BY <1>10 DEF Disconnect, Respond, serverVars, handlerVars, requestVars
  <2> QED
    BY <1>1, <1>2, <2>1 DEF Greeted
<1>11. CASE UNCHANGED vars
  <2>1. UNCHANGED <<got, rpc, to, consumer, hpc>>
    BY <1>11 DEF vars, serverVars, handlerVars, socketVars, requestVars
  <2> QED
    BY <1>1, <1>2, <2>1 DEF Greeted
<1> QED
  BY <1>3, <1>4, <1>5, <1>6, <1>7, <1>8, <1>9, <1>10, <1>11
     DEF Next, Handler, Request, App

\* A request is sent only where a hello_ack was.
THEOREM SentInvariance == Spec => []SentInv
<1>1. ASSUME Init PROVE SentInv
  <2>1. /\ consumer = None /\ hpc = [c \in Conns |-> "none"]
        /\ got = [c \in Conns |-> {}] /\ rpc = [r \in Reqs |-> "idle"]
    BY <1>1 DEF Init
  <2> QED
    BY <2>1 DEF SentInv, Greeted, Routed, HandshakeFirst
<1>2. TypeOK /\ SentInv /\ [Next]_vars => SentInv'
  BY SentStep
<1> QED
  BY <1>1, <1>2, TypeCorrect, PTL DEF Spec

\* No app reads an approval_request on a connection before its hello_ack.
THEOREM HandshakeComesFirst == Spec => []HandshakeFirst
<1>1. SentInv => HandshakeFirst
  BY DEF SentInv
<1> QED
  BY <1>1, SentInvariance, PTL

-----------------------------------------------------------------------------
(* The channel implements the gate *)

\* Every step of the channel is a step of the gate, or changes nothing in it.
LEMMA GateStep ==
    ASSUME IInv, IInv', SentInv, [Next]_vars PROVE [Gate!GateNext]_(Gate!gateVars)
<1> USE DEF Gate!GateNext, Gate!gateVars
<1>1. ASSUME NEW c \in Conns, Accept(c) \/ Handler(c) \/ Disconnect(c) \/ LineTooLong(c)
      PROVE  UNCHANGED <<to, said, verdict>>
  BY <1>1 DEF Handler, Accept, Hello, HelloFails, SendHelloAck, Promote, Supersede,
              Replay, Resolve, Deliver, ScanEnds, LineTooLong, Demote, Close, Disconnect,
              requestVars, socketVars
<1>2. ASSUME NEW r \in Reqs, SendRequest(r) \/ Receive(r) \/ Timeout(r)
      PROVE  UNCHANGED <<to, said, verdict>>
  BY <1>2 DEF SendRequest, Receive, Timeout, socketVars
<1>3. ASSUME NEW r \in Reqs, NoConsumer(r) PROVE Gate!Deny(r)
  <2>1. verdict[r] = "none"
    BY <1>3 DEF NoConsumer, IInv, Untouched
  <2> QED
    BY <1>3, <2>1 DEF Gate!Deny, NoConsumer, socketVars
<1>4. ASSUME NEW r \in Reqs, Register(r) PROVE Gate!Ask(r)
  <2>1. verdict[r] = "none" /\ to[r] = None
    BY <1>4 DEF Register, IInv, Untouched
  <2>2. consumer \in Conns
    BY <1>4 DEF Register, IInv, TypeOK
  <2> QED
    BY <1>4, <2>1, <2>2 DEF Gate!Ask, Register, socketVars
<1>5. ASSUME NEW r \in Reqs, Return(r) PROVE Gate!Deny(r) \/ Gate!Allow(r)
  <2>1. verdict[r] = "none" /\ UNCHANGED <<to, said>>
    BY <1>5 DEF Return, IInv, Asked, socketVars
  <2>2. CASE verdict' = [verdict EXCEPT ![r] = "deny"]
    BY <2>1, <2>2 DEF Gate!Deny
  <2>3. CASE verdict' = [verdict EXCEPT ![r] = "allow"]
    <3>1. verdict'[r] = "allow"
      BY <2>3 DEF IInv, TypeOK
    <3>2. \E a \in Answer : <<to[r], a>> \in said /\ a.req = r /\ a.approved
      BY <3>1, <2>1 DEF IInv, ApproveIsAnswered
    <3> QED
      BY <2>1, <2>3, <3>2 DEF Gate!Allow, Gate!GateAnswer, Answer
  <2> QED
    BY <1>5, <2>2, <2>3 DEF Return
<1>6. ASSUME NEW c \in Conns, NEW a \in Answer, Respond(c, a)
      PROVE  Gate!Give(c, a)
  <2>1. a.req \in Reqs
    BY DEF Answer
  <2>2. to[a.req] # None
    BY <1>6, <2>1, NoneNotConn DEF Respond, SentInv, Routed
  <2> QED
    BY <1>6, <2>2 DEF Gate!Give, Respond, requestVars
<1>7. ASSUME UNCHANGED vars PROVE UNCHANGED <<to, said, verdict>>
  BY <1>7 DEF vars, requestVars, socketVars
<1> QED
  BY <1>1, <1>2, <1>3, <1>4, <1>5, <1>6, <1>7 DEF Next, Request, App, Answer, Gate!GateAnswer

\* The approval channel implements the gate: seen from outside, each request is
\* asked on one connection, allowed only on an answer to it given there, decided
\* once, and otherwise denied.
THEOREM ChannelImplementsGate == Spec => GateRefined
<1>1. ASSUME Init PROVE Gate!GateInit
  BY <1>1 DEF Init, Gate!GateInit
<1>2. IInv /\ IInv' /\ SentInv /\ [Next]_vars => [Gate!GateNext]_(Gate!gateVars)
  BY GateStep
<1> QED
  BY <1>1, <1>2, Invariance, SentInvariance, PTL DEF Spec, GateRefined, Gate!GateSpec

-----------------------------------------------------------------------------
(***************************************************************************)
(* Who will wake a waiting request.  A request that is out has a pending   *)
(* entry (its connection's demote will find it), or a handler holds its    *)
(* answer and is about to deliver it, or its decision is in the channel.   *)
(***************************************************************************)

\* A handler holds an answer only while it is delivering it, and one at a time:
\* Deliver hands over all that was claimed.
OneClaim ==
    \A c \in Conns :
        /\ claim[c] # {} => hpc[c] = "delivering"
        /\ \A a, b \in claim[c] : a = b

Kept(r) ==
    \/ pending[r] = to[r]
    \/ \E a \in claim[to[r]] : a.req = r
    \/ Full(ch[r])

Wakeable == OneClaim /\ \A r \in Reqs : rpc[r] \in {"sending", "waiting"} => Kept(r)

\* Every step leaves a request that is out with someone who will wake it.
LEMMA WakeableStep ==
    ASSUME IInv, Wakeable, [Next]_vars PROVE Wakeable'
<1> DEFINE Out(r) == rpc[r] \in {"sending", "waiting"}
<1>0. /\ pending \in [Reqs -> Conns \cup {None}]
      /\ hpc \in [Conns -> HandlerPC]
      /\ claim \in [Conns -> SUBSET Answer]
      /\ rpc \in [Reqs -> {"idle", "sending", "waiting", "returning", "done"}]
      /\ to \in [Reqs -> Conns \cup {None}]
      /\ ch \in [Reqs -> SUBSET Decision]
  BY DEF IInv, TypeOK
<1>1. OneClaim /\ \A r \in Reqs : Out(r) => Kept(r) /\ to[r] \in Conns
  BY DEF Wakeable, IInv, Asked
<1>2. ASSUME UNCHANGED <<pending, claim, to, ch>>,
             \A c \in Conns : hpc[c] = "delivering" => hpc'[c] = "delivering",
             \A r \in Reqs : Out(r)' => Out(r)
      PROVE  Wakeable'
  BY <1>1, <1>2 DEF Wakeable, OneClaim, Kept
<1>3. ASSUME NEW c \in Conns,
             \/ Accept(c) \/ Hello(c) \/ HelloFails(c) \/ SendHelloAck(c) \/ Promote(c)
             \/ Supersede(c) \/ Replay(c) \/ ScanEnds(c) \/ LineTooLong(c) \/ Close(c)
      PROVE  Wakeable'
  <2>1. UNCHANGED <<pending, claim, to, ch, rpc>>
    BY <1>3 DEF Accept, Hello, HelloFails, SendHelloAck, Promote, Supersede, Replay, ScanEnds,
                LineTooLong, Close, serverVars, requestVars
  <2>2. hpc[c] # "delivering" /\ \A k \in Conns \ {c} : hpc'[k] = hpc[k]
    BY <1>0, <1>3 DEF Accept, Hello, HelloFails, SendHelloAck, Promote, Supersede, Replay,
                      ScanEnds, LineTooLong, Close
  <2> QED
    BY <1>2, <2>1, <2>2
<1>4. ASSUME NEW c \in Conns, Resolve(c) PROVE Wakeable'
  <2> DEFINE a == Head(inbox[c])
  <2>1. a \in Answer /\ a.req \in Reqs
    <3>1. inbox \in [Conns -> Seq(Answer)] /\ inbox[c] # <<>>
      BY <1>4 DEF Resolve, IInv, TypeOK
    <3>2. a \in Answer
      BY <3>1
    <3> QED
      BY <3>2 DEF Answer
  <2>2. UNCHANGED <<rpc, to, ch>> /\ hpc[c] = "serving"
    BY <1>4 DEF Resolve, requestVars
  <2>3. \/ UNCHANGED <<pending, claim, hpc>>
        \/ /\ pending[a.req] = c
           /\ pending' = [pending EXCEPT ![a.req] = None]
           /\ claim' = [claim EXCEPT ![c] = {a}]
           /\ hpc' = [hpc EXCEPT ![c] = "delivering"]
    BY <1>4 DEF Resolve
  <2> HIDE DEF a
  <2>4. CASE UNCHANGED <<pending, claim, hpc>>
    BY <1>2, <2>2, <2>4
  <2>5. CASE /\ pending[a.req] = c
             /\ pending' = [pending EXCEPT ![a.req] = None]
             /\ claim' = [claim EXCEPT ![c] = {a}]
             /\ hpc' = [hpc EXCEPT ![c] = "delivering"]
    <3>1. /\ claim[c] = {} /\ claim'[c] = {a} /\ hpc'[c] = "delivering"
          /\ \A k \in Conns \ {c} : claim'[k] = claim[k] /\ hpc'[k] = hpc[k]
      BY <1>0, <1>1, <2>2, <2>5 DEF OneClaim
    <3>2. \A r \in Reqs \ {a.req} : pending'[r] = pending[r]
      BY <1>0, <2>5
    <3>3. OneClaim'
      BY <1>1, <3>1 DEF OneClaim
    <3>4. ASSUME NEW r \in Reqs, Out(r)' PROVE Kept(r)'
      <4>1. Out(r) /\ Kept(r) /\ to[r] \in Conns
        BY <1>1, <2>2, <3>4
      <4>2. CASE r = a.req
        <5>1. to[r] = c
          BY <2>5, <4>2, NoneNotConn DEF IInv, Asked
        <5> QED
          BY <2>2, <3>1, <4>2, <5>1 DEF Kept
      <4>3. CASE r # a.req
        BY <2>2, <3>1, <3>2, <4>1, <4>3 DEF Kept
      <4> QED
        BY <4>2, <4>3
    <3> QED
      BY <3>3, <3>4 DEF Wakeable
  <2> QED
    BY <2>3, <2>4, <2>5
<1>5. ASSUME NEW c \in Conns, Deliver(c) PROVE Wakeable'
  <2>1. PICK a \in claim[c] : ch' = [ch EXCEPT ![a.req] = TrySend(@, DecisionOf(a))]
    BY <1>5 DEF Deliver
  <2>2. /\ claim' = [claim EXCEPT ![c] = {}] /\ hpc' = [hpc EXCEPT ![c] = "serving"]
        /\ UNCHANGED <<pending, rpc, to>>
    BY <1>5 DEF Deliver, serverVars
  <2>3. a.req \in Reqs
    BY <1>0, <2>1 DEF Answer
  <2>4. /\ Full(ch'[a.req])
        /\ \A r \in Reqs \ {a.req} : ch'[r] = ch[r]
    BY <1>0, <2>1, <2>3 DEF TrySend, Full
  <2>5. /\ claim'[c] = {} /\ \A b \in claim[c] : b = a
        /\ \A k \in Conns \ {c} : claim'[k] = claim[k] /\ hpc'[k] = hpc[k]
    BY <1>0, <1>1, <2>1, <2>2 DEF OneClaim
  <2>6. OneClaim'
    BY <1>1, <2>5 DEF OneClaim
  <2>7. ASSUME NEW r \in Reqs, Out(r)' PROVE Kept(r)'
    <3>1. Kept(r) /\ to[r] \in Conns
      BY <1>1, <2>2, <2>7
    <3>2. CASE r = a.req
      BY <2>4, <3>2 DEF Kept
    <3>3. CASE r # a.req
      BY <2>2, <2>4, <2>5, <3>1, <3>3 DEF Kept
    <3> QED
      BY <3>2, <3>3
  <2> QED
    BY <2>6, <2>7 DEF Wakeable
<1>6. ASSUME NEW c \in Conns, Demote(c) PROVE Wakeable'
  <2>1. UNCHANGED <<claim, rpc, to>> /\ hpc[c] = "demoting"
    BY <1>6 DEF Demote
  <2>2. \A k \in Conns \ {c} : hpc'[k] = hpc[k]
    BY <1>0, <1>6 DEF Demote
  <2>3. \A r \in Reqs : IF pending[r] = c THEN Full(ch'[r])
                                         ELSE pending'[r] = pending[r] /\ ch'[r] = ch[r]
    BY <1>6 DEF Demote, TrySend, Full
  <2>4. OneClaim'
    BY <1>1, <2>1, <2>2 DEF OneClaim
  <2>5. \A r \in Reqs : Out(r)' => Kept(r)'
    BY <1>1, <2>1, <2>3 DEF Kept
  <2> QED
    BY <2>4, <2>5 DEF Wakeable
<1>7. ASSUME NEW r \in Reqs, Register(r) PROVE Wakeable'
  <2>1. UNCHANGED <<hpc, claim, ch>>
    BY <1>7 DEF Register, handlerVars
  <2>2. /\ pending'[r] = consumer /\ to'[r] = consumer
        /\ \A q \in Reqs \ {r} : rpc'[q] = rpc[q] /\ pending'[q] = pending[q] /\ to'[q] = to[q]
    BY <1>0, <1>7 DEF Register
  <2> QED
    BY <1>1, <2>1, <2>2 DEF Wakeable, OneClaim, Kept
<1>8. ASSUME NEW r \in Reqs, NoConsumer(r) \/ SendRequest(r) \/ Timeout(r) PROVE Wakeable'
  <2>1. UNCHANGED <<pending, claim, hpc, to, ch>>
    BY <1>8 DEF NoConsumer, SendRequest, Timeout, serverVars, handlerVars
  <2>2. /\ Out(r)' => Out(r)
        /\ \A q \in Reqs \ {r} : rpc'[q] = rpc[q]
    BY <1>0, <1>8 DEF NoConsumer, SendRequest, Timeout
  <2> QED
    BY <1>2, <2>1, <2>2
<1>9. ASSUME NEW r \in Reqs, Receive(r) \/ Return(r) PROVE Wakeable'
  <2>1. UNCHANGED <<claim, hpc, to>>
    BY <1>9 DEF Receive, Return, serverVars, handlerVars
  <2>2. /\ ~Out(r)'
        /\ \A q \in Reqs \ {r} : rpc'[q] = rpc[q] /\ pending'[q] = pending[q] /\ ch'[q] = ch[q]
    <3>1. CASE Receive(r)
      BY <1>0, <3>1 DEF Receive, serverVars
    <3>2. CASE Return(r)
      BY <1>0, <3>2 DEF Return
    <3> QED
      BY <1>9, <3>1, <3>2
  <2> QED
    BY <1>1, <2>1, <2>2 DEF Wakeable, OneClaim, Kept
<1>10. ASSUME NEW c \in Conns, Disconnect(c) \/ \E a \in Answer : Respond(c, a) PROVE Wakeable'
  <2>1. UNCHANGED <<pending, claim, hpc, to, ch, rpc>>
    BY <1>10 DEF Disconnect, Respond, serverVars, handlerVars, requestVars
  <2> QED
    BY <1>2, <2>1
<1>11. CASE UNCHANGED vars
  <2>1. UNCHANGED <<pending, claim, hpc, to, ch, rpc>>
    BY <1>11 DEF vars, serverVars, handlerVars, requestVars
  <2> QED
    BY <1>2, <2>1
<1> QED
  BY <1>3, <1>4, <1>5, <1>6, <1>7, <1>8, <1>9, <1>10, <1>11
     DEF Next, Handler, Request, App

\* No request is ever out with nobody to wake it.
THEOREM WakeableInvariance == Spec => []Wakeable
<1>1. ASSUME Init PROVE Wakeable
  <2>1. rpc = [r \in Reqs |-> "idle"] /\ claim = [c \in Conns |-> {}]
    BY <1>1 DEF Init
  <2> QED
    BY <2>1 DEF Wakeable, OneClaim
<1>2. IInv /\ Wakeable /\ [Next]_vars => Wakeable'
  BY WakeableStep
<1> QED
  BY <1>1, <1>2, Invariance, PTL DEF Spec

\* Once the handler of a connection is past demote, every request still out on it
\* has its decision: what the end of the connection owes it does not hang on the
\* approval timer.
THEOREM NobodyIsForgotten == Spec => []NobodyForgotten
<1>1. ASSUME IInv, PendingOwnerLive, Wakeable PROVE NobodyForgotten
  <2>1. ASSUME NEW r \in Reqs, rpc[r] \in {"sending", "waiting"}, ~Promoted(to[r])
        PROVE  Full(ch[r])
    <3>1. Kept(r) /\ to[r] \in Conns
      BY <1>1, <2>1 DEF Wakeable, IInv, Asked
    <3>2. pending[r] # to[r]
      BY <1>1, <2>1, <3>1, NoneNotConn DEF PendingOwnerLive
    <3>3. claim[to[r]] = {}
      BY <1>1, <2>1, <3>1 DEF Wakeable, OneClaim, Promoted
    <3> QED
      BY <3>1, <3>2, <3>3 DEF Kept
  <2> QED
    BY <1>1, <2>1 DEF NobodyForgotten
<1> QED
  BY <1>1, Invariance, PendingOwnerAlwaysLive, WakeableInvariance, PTL

=============================================================================
