----------------------------- MODULE DelegatedGate -----------------------------
(***************************************************************************)
(* What the shed-desktop approval policy promises to the rest of the       *)
(* agent, without connections being taken over, goroutines or channels:    *)
(* a request is asked on at most one connection, it gets one verdict, it   *)
(* is allowed only on the strength of an approving answer to that very     *)
(* request given on the connection it was asked on, and it may be denied   *)
(* at any time (the gate fails closed).                                    *)
(***************************************************************************)
CONSTANTS Conns, Reqs, By, None

VARIABLES
    asked,    \* the connection a request was put to, None if to none yet
    answers,  \* the answers the app has given, each with its connection
    verdict   \* what Approve returned

gateVars == <<asked, answers, verdict>>

GateAnswer == [req : Reqs, approved : BOOLEAN, by : By]

GateInit ==
    /\ asked = [r \in Reqs |-> None]
    /\ answers = {}
    /\ verdict = [r \in Reqs |-> "none"]

Ask(r) ==
    /\ asked[r] = None /\ verdict[r] = "none"
    /\ \E c \in Conns : asked' = [asked EXCEPT ![r] = c]
    /\ UNCHANGED <<answers, verdict>>

\* An app can only answer what it was asked, but it may do so anywhere.
Give(c, a) ==
    /\ asked[a.req] # None
    /\ answers' = answers \cup {<<c, a>>}
    /\ UNCHANGED <<asked, verdict>>

Allow(r) ==
    /\ verdict[r] = "none"
    /\ \E a \in GateAnswer : /\ <<asked[r], a>> \in answers
                             /\ a.req = r /\ a.approved
    /\ verdict' = [verdict EXCEPT ![r] = "allow"]
    /\ UNCHANGED <<asked, answers>>

Deny(r) ==
    /\ verdict[r] = "none"
    /\ verdict' = [verdict EXCEPT ![r] = "deny"]
    /\ UNCHANGED <<asked, answers>>

GateNext ==
    \/ \E r \in Reqs : Ask(r) \/ Allow(r) \/ Deny(r)
    \/ \E c \in Conns, a \in GateAnswer : Give(c, a)

GateSpec == GateInit /\ [][GateNext]_gateVars

=============================================================================
