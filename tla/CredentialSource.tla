---------------------------- MODULE CredentialSource ----------------------------
(***************************************************************************)
(* A credentialSource of shed-host-agent (credmint.go): the cached token   *)
(* of one server, minted over SSH on demand, after a 401 and               *)
(* proactively, with at most one mint in flight.  Its callers are the      *)
(* streams (Token, and Invalidate after a 401: egress_handler.go, and the  *)
(* bus subscriptions of the SDK, which are external), the control-token    *)
(* requests of the desktop app (controltoken.go: forceTokenWithExpiry) and *)
(* the refresh loop.                                                       *)
(*                                                                         *)
(* The server is the environment.  A restart regenerates its token         *)
(* authority, which silently revokes every token minted before; `epoch`    *)
(* counts restarts and a token is good in the epoch it was minted in.      *)
(* Mints are numbered in the order they start, and a token is named by its *)
(* mint.  Time is an action: a token comes within tokenRefreshWindow of    *)
(* its expiry at any moment after it was minted (or never).                *)
(***************************************************************************)
EXTENDS Naturals, FiniteSets

CONSTANTS
    Streams,      \* loops that connect with a token, as EgressSubscriber.Run
    Asks,         \* token.get requests of the app
    MaxMints,     \* bound: mints
    MaxRestarts,  \* bound: server restarts
    MaxFailures,  \* bound: mints and connections that fail for a passing reason
    MaxNear,      \* bound: tokens that come near their expiry
    MaxRefreshes  \* bound: proactive refreshes

ASSUME BoundsAssumption ==
    /\ MaxMints \in Nat /\ MaxRestarts \in Nat /\ MaxFailures \in Nat
    /\ MaxNear \in Nat /\ MaxRefreshes \in Nat
ASSUME CallersAssumption == Streams \cap Asks = {}

Callers == Streams \cup Asks
Mints == 1..MaxMints
Nil == 0            \* no token, no mint

VARIABLES
    token,      \* credentialSource.token, Nil for ""
    terminal,   \* credentialSource.terminalErr is set
    inflight,   \* credentialSource.inflight
    minted,     \* mints started so far
    mpc,        \* where the doMint goroutine of a mint is
    result,     \* what Mint returned
    mepoch,     \* the server's epoch when it minted the token
    near,       \* tokens within the refresh window of their expiry
    refreshing, \* the mint the refresh loop waits for
    refreshes,  \* proactive refreshes so far
    epoch,      \* the server's epoch
    failures,   \* passing failures so far
    cpc,        \* where a caller is
    call,       \* the mint a caller waits for
    got,        \* the token a caller has been given, Nil for an error
    rejected,   \* history: tokens a stream has invalidated after a 401
    bad,        \* history: tokens a caller must not be given, fixed as it enters
    shut,       \* history: the source was terminal as the caller entered
    joined,     \* history: the caller joined a mint that was already in flight
    asked       \* history: the server's epoch as the caller entered

sourceVars == <<token, terminal, inflight>>
mintVars == <<minted, mpc, result, mepoch>>
serverVars == <<near, epoch, failures>>
refreshVars == <<refreshing, refreshes>>
callerVars == <<cpc, call, got>>
historyVars == <<rejected, bad, shut, joined, asked>>
vars == <<sourceVars, mintVars, serverVars, refreshVars, callerVars, historyVars>>

Init ==
    /\ token = Nil /\ terminal = FALSE /\ inflight = Nil
    /\ minted = 0
    /\ mpc = [m \in Mints |-> "none"]
    /\ result = [m \in Mints |-> "none"]
    /\ mepoch = [m \in Mints |-> 0]
    /\ near = {} /\ epoch = 0 /\ failures = 0
    /\ refreshing = Nil /\ refreshes = 0
    /\ cpc = [q \in Callers |-> "idle"]
    /\ call = [q \in Callers |-> Nil]
    /\ got = [q \in Callers |-> Nil]
    /\ rejected = {}
    /\ bad = [q \in Callers |-> {}]
    /\ shut = [q \in Callers |-> FALSE]
    /\ joined = [q \in Callers |-> FALSE]
    /\ asked = [q \in Callers |-> 0]

Completed == {m \in Mints : mpc[m] \in {"stored", "closed"}}

-----------------------------------------------------------------------------
(* obtainTokenWithExpiry: the critical section *)

\* Mutant: a mint is started whether or not one is in flight.
StartMint_Always ==
    /\ minted < MaxMints
    /\ minted' = minted + 1
    /\ inflight' = minted + 1
    /\ mpc' = [mpc EXCEPT ![minted + 1] = "running"]
    /\ UNCHANGED <<result, mepoch>>

\* Mutant: the mint in flight is recorded under the next one's number.
StartMint_OffByOne ==
    /\ inflight = Nil
    /\ minted < MaxMints
    /\ minted' = minted + 1
    /\ inflight' = minted + 2
    /\ mpc' = [mpc EXCEPT ![minted + 1] = "running"]
    /\ UNCHANGED <<result, mepoch>>

\* obtainLocked: join the mint in flight, or start one.
StartMint ==
    /\ inflight = Nil
    /\ minted < MaxMints
    /\ minted' = minted + 1
    /\ inflight' = minted + 1
    /\ mpc' = [mpc EXCEPT ![minted + 1] = "running"]
    /\ UNCHANGED <<result, mepoch>>

JoinMint ==
    /\ inflight # Nil
    /\ UNCHANGED <<inflight, mintVars>>

ObtainLocked == StartMint \/ JoinMint

\* What the caller may not be given from here on.
Enter(q) ==
    /\ cpc[q] = "idle"
    /\ bad' = [bad EXCEPT ![q] = IF q \in Asks THEN Completed
                                 ELSE (near \cap Completed) \cup rejected]
    /\ shut' = [shut EXCEPT ![q] = terminal]
    /\ joined' = [joined EXCEPT ![q] = inflight # Nil]
    /\ asked' = [asked EXCEPT ![q] = epoch]
    /\ UNCHANGED rejected

\* The caller's round is over.
Leave(q) ==
    /\ cpc' = [cpc EXCEPT ![q] = "idle"]
    /\ got' = [got EXCEPT ![q] = Nil]
    /\ bad' = [bad EXCEPT ![q] = {}]
    /\ shut' = [shut EXCEPT ![q] = FALSE]
    /\ joined' = [joined EXCEPT ![q] = FALSE]
    /\ asked' = [asked EXCEPT ![q] = 0]

\* A host-key mismatch was seen before: fail closed.
FailClosed(q) ==
    /\ Enter(q)
    /\ terminal
    /\ got' = [got EXCEPT ![q] = Nil]
    /\ cpc' = [cpc EXCEPT ![q] = "returned"]
    /\ UNCHANGED <<sourceVars, mintVars, serverVars, refreshVars, call>>

\* Mutant: the expiry is not looked at.
Stale_Never == FALSE

\* staleLocked
Stale == token \in near

\* Mutant: force does not skip the cache.
ServeCached_Force(q) ==
    /\ Enter(q)
    /\ ~terminal
    /\ token # Nil /\ ~Stale
    /\ got' = [got EXCEPT ![q] = token]
    /\ cpc' = [cpc EXCEPT ![q] = "returned"]
    /\ UNCHANGED <<sourceVars, mintVars, serverVars, refreshVars, call>>

ServeCached(q) ==
    /\ Enter(q)
    /\ ~terminal
    /\ q \notin Asks /\ token # Nil /\ ~Stale
    /\ got' = [got EXCEPT ![q] = token]
    /\ cpc' = [cpc EXCEPT ![q] = "returned"]
    /\ UNCHANGED <<sourceVars, mintVars, serverVars, refreshVars, call>>

Obtain(q) ==
    /\ Enter(q)
    /\ ~terminal
    /\ q \in Asks \/ token = Nil \/ Stale
    /\ token' = IF q \in Asks THEN Nil ELSE token
    /\ ObtainLocked
    /\ call' = [call EXCEPT ![q] = inflight']
    /\ cpc' = [cpc EXCEPT ![q] = "waiting"]
    /\ UNCHANGED <<terminal, serverVars, refreshVars, got>>

\* <-call.done
Wake(q) ==
    /\ cpc[q] = "waiting"
    /\ mpc[call[q]] = "closed"
    /\ got' = [got EXCEPT ![q] = IF result[call[q]] = "ok" THEN call[q] ELSE Nil]
    /\ call' = [call EXCEPT ![q] = Nil]
    /\ cpc' = [cpc EXCEPT ![q] = "returned"]
    /\ UNCHANGED <<sourceVars, mintVars, serverVars, refreshVars, historyVars>>

-----------------------------------------------------------------------------
(* doMint *)

\* The bootstrap exchange: the token is good in the server's epoch of this moment.
Exchange(m) ==
    /\ mpc[m] = "running"
    /\ mpc' = [mpc EXCEPT ![m] = "answered"]
    /\ \/ /\ result' = [result EXCEPT ![m] = "ok"]
          /\ mepoch' = [mepoch EXCEPT ![m] = epoch]
          /\ UNCHANGED failures
       \/ /\ failures < MaxFailures
          /\ failures' = failures + 1
          /\ result' = [result EXCEPT ![m] = "error"]
          /\ UNCHANGED mepoch
       \/ /\ result' = [result EXCEPT ![m] = "mismatch"]
          /\ UNCHANGED <<mepoch, failures>>
    /\ UNCHANGED <<sourceVars, minted, near, epoch, refreshVars, callerVars, historyVars>>

\* Mutant: the finished mint stays the one in flight.
Store_KeepsInflight(m) ==
    /\ mpc[m] = "answered"
    /\ mpc' = [mpc EXCEPT ![m] = "stored"]
    /\ token' = IF result[m] = "ok" THEN m ELSE token
    /\ terminal' = (terminal \/ result[m] = "mismatch")
    /\ UNCHANGED <<inflight, minted, result, mepoch, serverVars, refreshVars, callerVars,
                   historyVars>>

\* The second critical section.
Store(m) ==
    /\ mpc[m] = "answered"
    /\ mpc' = [mpc EXCEPT ![m] = "stored"]
    /\ inflight' = Nil
    /\ token' = IF result[m] = "ok" THEN m ELSE token
    /\ terminal' = (terminal \/ result[m] = "mismatch")
    /\ UNCHANGED <<minted, result, mepoch, serverVars, refreshVars, callerVars, historyVars>>

\* Mutant: a failed mint returns without closing done.
CloseDone_OkOnly(m) ==
    /\ mpc[m] = "stored"
    /\ result[m] = "ok"
    /\ mpc' = [mpc EXCEPT ![m] = "closed"]
    /\ UNCHANGED <<sourceVars, minted, result, mepoch, serverVars, refreshVars,
                   callerVars, historyVars>>

CloseDone(m) ==
    /\ mpc[m] = "stored"
    /\ mpc' = [mpc EXCEPT ![m] = "closed"]
    /\ UNCHANGED <<sourceVars, minted, result, mepoch, serverVars, refreshVars,
                   callerVars, historyVars>>

-----------------------------------------------------------------------------
(* refreshLoop: the timer may fire at any time *)

\* Mutant: the refresh loop mints on after a host-key mismatch.
Refresh_IgnoresTerminal ==
    /\ refreshing = Nil
    /\ refreshes < MaxRefreshes
    /\ ObtainLocked
    /\ refreshing' = inflight'
    /\ refreshes' = refreshes + 1
    /\ UNCHANGED <<token, terminal, serverVars, callerVars, historyVars>>

Refresh ==
    /\ refreshing = Nil
    /\ refreshes < MaxRefreshes
    /\ ~terminal
    /\ ObtainLocked
    /\ refreshing' = inflight'
    /\ refreshes' = refreshes + 1
    /\ UNCHANGED <<token, terminal, serverVars, callerVars, historyVars>>

RefreshDone ==
    /\ refreshing # Nil
    /\ mpc[refreshing] = "closed"
    /\ refreshing' = Nil
    /\ UNCHANGED <<refreshes, sourceVars, mintVars, serverVars, callerVars, historyVars>>

-----------------------------------------------------------------------------
(* EgressSubscriber.stream, and the reply to token.get *)

\* bearer sends no token after an error; the server then answers 401, as it does
\* to a token of another epoch and may do to one near its expiry.
Good(t) == t # Nil /\ mepoch[t] = epoch

Connect(q) ==
    /\ q \in Streams
    /\ cpc[q] = "returned"
    /\ \/ Good(got[q]) /\ cpc' = [cpc EXCEPT ![q] = "streaming"]
       \/ /\ ~Good(got[q]) \/ got[q] \in near
          /\ cpc' = [cpc EXCEPT ![q] = "unauthorized"]
    /\ UNCHANGED <<sourceVars, mintVars, serverVars, refreshVars, call, got, historyVars>>

\* The server cannot be reached, or answers with another status: the cached token
\* stays as it is.
ConnectFails(q) ==
    /\ q \in Streams
    /\ cpc[q] = "returned"
    /\ failures < MaxFailures
    /\ failures' = failures + 1
    /\ Leave(q)
    /\ UNCHANGED <<sourceVars, mintVars, near, epoch, refreshVars, call, rejected>>

\* Mutant: a 401 does not clear the cached token.
Invalidate_KeepsToken(q) ==
    /\ cpc[q] = "unauthorized"
    /\ rejected' = rejected \cup ({got[q]} \ {Nil})
    /\ Leave(q)
    /\ UNCHANGED <<sourceVars, mintVars, serverVars, refreshVars, call>>

\* Invalidate, then Run waits and makes a new connection.
Invalidate(q) ==
    /\ cpc[q] = "unauthorized"
    /\ token' = Nil
    /\ rejected' = rejected \cup ({got[q]} \ {Nil})
    /\ Leave(q)
    /\ UNCHANGED <<terminal, inflight, mintVars, serverVars, refreshVars, call>>

StreamEnds(q) ==
    /\ cpc[q] = "streaming"
    /\ Leave(q)
    /\ UNCHANGED <<sourceVars, mintVars, serverVars, refreshVars, call, rejected>>

Reply(q) ==
    /\ q \in Asks
    /\ cpc[q] = "returned"
    /\ cpc' = [cpc EXCEPT ![q] = "replied"]
    /\ UNCHANGED <<sourceVars, mintVars, serverVars, refreshVars, call, got, historyVars>>

-----------------------------------------------------------------------------
(* The server and the clock *)

Restart ==
    /\ epoch < MaxRestarts
    /\ epoch' = epoch + 1
    /\ UNCHANGED <<sourceVars, mintVars, near, failures, refreshVars, callerVars,
                   historyVars>>

ComesNear(m) ==
    /\ Cardinality(near) < MaxNear
    /\ result[m] = "ok"
    /\ near' = near \cup {m}
    /\ UNCHANGED <<sourceVars, mintVars, epoch, failures, refreshVars, callerVars,
                   historyVars>>

-----------------------------------------------------------------------------
Call(q) ==
    \/ FailClosed(q) \/ ServeCached(q) \/ Obtain(q) \/ Wake(q)
    \/ Connect(q) \/ Invalidate(q) \/ Reply(q)

DoMint(m) == Exchange(m) \/ Store(m) \/ CloseDone(m)

Next ==
    \/ \E q \in Callers : Call(q) \/ StreamEnds(q) \/ ConnectFails(q)
    \/ \E m \in Mints : DoMint(m) \/ ComesNear(m)
    \/ Refresh \/ RefreshDone
    \/ Restart

Spec == Init /\ [][Next]_vars

(***************************************************************************)
(* Fairness.  Goroutines run; Mint returns (its ssh has a deadline); an    *)
(* egress loop whose wait is over connects again; a stream of a server     *)
(* that has restarted ends.  Refreshes, restarts, failures and the clock   *)
(* are not fair.                                                           *)
(***************************************************************************)
FairSpec ==
    /\ Spec
    /\ \A q \in Streams : WF_vars(Call(q))
    /\ \A q \in Asks : WF_vars(Wake(q) \/ Reply(q))
    /\ \A q \in Streams : WF_vars(StreamEnds(q) /\ ~Good(got[q]))
    /\ \A m \in Mints : WF_vars(DoMint(m))

-----------------------------------------------------------------------------
CallerPC == {"idle", "waiting", "returned", "streaming", "unauthorized", "replied"}

\* Every variable has its type.
TypeOK ==
    /\ token \in 0..MaxMints /\ terminal \in BOOLEAN /\ inflight \in 0..MaxMints
    /\ minted \in 0..MaxMints
    /\ mpc \in [Mints -> {"none", "running", "answered", "stored", "closed"}]
    /\ result \in [Mints -> {"none", "ok", "error", "mismatch"}]
    /\ mepoch \in [Mints -> 0..MaxRestarts]
    /\ near \subseteq Mints /\ epoch \in 0..MaxRestarts /\ failures \in 0..MaxFailures
    /\ refreshing \in 0..MaxMints /\ refreshes \in 0..MaxRefreshes
    /\ cpc \in [Callers -> CallerPC]
    /\ call \in [Callers -> 0..MaxMints]
    /\ got \in [Callers -> 0..MaxMints]
    /\ rejected \subseteq Mints
    /\ bad \in [Callers -> SUBSET Mints]
    /\ shut \in [Callers -> BOOLEAN]
    /\ joined \in [Callers -> BOOLEAN]
    /\ asked \in [Callers -> 0..MaxRestarts]

\* However many callers, refreshes and invalidations overlap, one mint runs at a
\* time, and it is the one new callers join (inflightMint).
SingleFlight ==
    \A m \in Mints : mpc[m] \in {"running", "answered"} <=> m = inflight

\* Once a host-key mismatch is recorded no mint runs or starts, and no caller that
\* comes after it is given a token (credentialSource's comment: TERMINAL).
TerminalFailsClosed ==
    /\ terminal => inflight = Nil /\ \A m \in Mints : mpc[m] # "running"
    /\ \A q \in Callers : shut[q] => got[q] = Nil

\* A token a stream has had rejected with a 401, or that was near its expiry, is
\* not given to a stream that asks afterwards.
RejectedNotServed == \A q \in Streams : got[q] \notin bad[q]

\* token.get never answers with a token left over from a mint that was complete
\* before the request came (forceTokenWithExpiry's comment).
ForceIsFresh == \A q \in Asks : got[q] \notin bad[q]

\* token.get answers with a token from before a restart that preceded the request
\* only if it joined a mint already in flight: the one race the comment accepts.
StaleOnlyByJoin ==
    \A q \in Asks : got[q] # Nil /\ mepoch[got[q]] < asked[q] => joined[q]

\* Through restarts, failed mints, expiry and other callers' invalidations, every
\* egress stream is connected again and again, or the source is terminal.
StreamRecovers == \A q \in Streams : []<>(cpc[q] = "streaming") \/ <>terminal

\* A caller of token.get that waits for a mint gets its reply, whatever the mint's
\* outcome.
AskReturns == \A q \in Asks : cpc[q] = "waiting" ~> cpc[q] = "replied"

=============================================================================
