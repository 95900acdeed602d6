------------------------ MODULE CredentialSourceProofs ------------------------
(***************************************************************************)
(* Proofs about CredentialSource for any sets of callers and any bounds.   *)
(***************************************************************************)
EXTENDS CredentialSource, TLAPS

-----------------------------------------------------------------------------
(* Type correctness *)

\* The two outcomes of obtainLocked, as the rest of the proofs use them.
LEMMA ObtainTypes ==
    ASSUME TypeOK, ObtainLocked
    PROVE  /\ inflight' \in Mints
           /\ minted' \in 0..MaxMints
           /\ mpc' \in [Mints -> {"none", "running", "answered", "stored", "closed"}]
           /\ UNCHANGED <<result, mepoch>>
<1>0. /\ inflight \in 0..MaxMints /\ minted \in 0..MaxMints
      /\ mpc \in [Mints -> {"none", "running", "answered", "stored", "closed"}]
  BY DEF TypeOK
<1>1. CASE StartMint
  <2>1. minted + 1 \in Mints /\ minted + 1 \in 0..MaxMints
    BY <1>0, <1>1, BoundsAssumption DEF StartMint, Mints
  <2> QED
    BY <1>0, <1>1, <2>1 DEF StartMint
<1>2. CASE JoinMint
  BY <1>0, <1>2, BoundsAssumption DEF JoinMint, mintVars, Mints, Nil
<1> QED
  BY <1>1, <1>2 DEF ObtainLocked

\* Entering and leaving keep the types of the caller's histories.
LEMMA EnterTypes ==
    ASSUME TypeOK, NEW q \in Callers, Enter(q)
    PROVE  /\ bad' \in [Callers -> SUBSET Mints] /\ shut' \in [Callers -> BOOLEAN]
           /\ joined' \in [Callers -> BOOLEAN] /\ asked' \in [Callers -> 0..MaxRestarts]
           /\ rejected' = rejected
<1>1. (IF q \in Asks THEN Completed ELSE (near \cap Completed) \cup rejected) \in SUBSET Mints
  BY DEF TypeOK, Completed
<1>2. bad' \in [Callers -> SUBSET Mints]
  <2>1. bad \in [Callers -> SUBSET Mints]
    BY DEF TypeOK
  <2> QED
    BY <1>1, <2>1 DEF Enter
<1>3. shut' \in [Callers -> BOOLEAN] /\ joined' \in [Callers -> BOOLEAN]
  <2>1. /\ shut \in [Callers -> BOOLEAN] /\ joined \in [Callers -> BOOLEAN]
        /\ terminal \in BOOLEAN /\ (inflight # Nil) \in BOOLEAN
    BY DEF TypeOK
  <2> QED
    BY <2>1 DEF Enter
<1>4. asked' \in [Callers -> 0..MaxRestarts] /\ rejected' = rejected
  BY DEF TypeOK, Enter
<1> QED
  BY <1>2, <1>3, <1>4

\* A caller that leaves keeps the types.
LEMMA LeaveTypes ==
    ASSUME TypeOK, NEW q \in Callers, Leave(q)
    PROVE  /\ cpc' \in [Callers -> CallerPC] /\ got' \in [Callers -> 0..MaxMints]
           /\ bad' \in [Callers -> SUBSET Mints] /\ shut' \in [Callers -> BOOLEAN]
           /\ joined' \in [Callers -> BOOLEAN] /\ asked' \in [Callers -> 0..MaxRestarts]
<1>1. 0 \in 0..MaxMints /\ 0 \in 0..MaxRestarts /\ "idle" \in CallerPC
  BY BoundsAssumption DEF CallerPC
<1>2. cpc' \in [Callers -> CallerPC] /\ got' \in [Callers -> 0..MaxMints]
  BY <1>1 DEF TypeOK, Leave, Nil
<1>3. bad' \in [Callers -> SUBSET Mints] /\ asked' \in [Callers -> 0..MaxRestarts]
  BY <1>1 DEF TypeOK, Leave
<1>4. shut' \in [Callers -> BOOLEAN] /\ joined' \in [Callers -> BOOLEAN]
  BY DEF TypeOK, Leave
<1> QED
  BY <1>2, <1>3, <1>4

\* The types hold as the agent starts.
LEMMA TypeInit ==
    ASSUME Init PROVE TypeOK
<1>1. /\ mpc \in [Mints -> {"none", "running", "answered", "stored", "closed"}]
      /\ result \in [Mints -> {"none", "ok", "error", "mismatch"}]
  BY DEF Init
<1>2. mepoch \in [Mints -> 0..MaxRestarts] /\ asked \in [Callers -> 0..MaxRestarts]
  BY BoundsAssumption DEF Init
<1>3. cpc \in [Callers -> CallerPC]
  BY DEF Init, CallerPC
<1>4. call \in [Callers -> 0..MaxMints] /\ got \in [Callers -> 0..MaxMints]
  BY BoundsAssumption DEF Init, Nil
<1>5. bad \in [Callers -> SUBSET Mints]
  BY DEF Init
<1>6. shut \in [Callers -> BOOLEAN] /\ joined \in [Callers -> BOOLEAN]
  <2>1. shut = [q \in Callers |-> FALSE] /\ joined = [q \in Callers |-> FALSE]
    BY DEF Init
  <2> QED
    BY <2>1
<1>7. /\ token \in 0..MaxMints /\ terminal \in BOOLEAN /\ inflight \in 0..MaxMints
      /\ minted \in 0..MaxMints /\ near \subseteq Mints /\ epoch \in 0..MaxRestarts
      /\ failures \in 0..MaxFailures /\ refreshing \in 0..MaxMints
      /\ refreshes \in 0..MaxRefreshes /\ rejected \subseteq Mints
  <2>1. /\ token = 0 /\ terminal = FALSE /\ inflight = 0 /\ minted = 0 /\ near = {}
        /\ epoch = 0 /\ failures = 0 /\ refreshing = 0 /\ refreshes = 0 /\ rejected = {}
    BY DEF Init, Nil
  <2>2. terminal \in BOOLEAN
    BY <2>1
  <2> QED
    BY <2>1, <2>2, BoundsAssumption
<1> QED
  BY <1>1, <1>2, <1>3, <1>4, <1>5, <1>6, <1>7 DEF TypeOK

\* The places the steps of a caller leave it at.
LEMMA CallerPCs ==
    /\ "idle" \in CallerPC /\ "waiting" \in CallerPC /\ "returned" \in CallerPC
    /\ "streaming" \in CallerPC /\ "unauthorized" \in CallerPC /\ "replied" \in CallerPC
  BY DEF CallerPC

\* Every step keeps the types.
LEMMA TypeStep ==
    ASSUME TypeOK, [Next]_vars PROVE TypeOK'
<1> USE CallerPCs
<1>0. 0 \in 0..MaxMints /\ Mints \subseteq 0..MaxMints
  BY BoundsAssumption DEF Mints
<1>1. ASSUME NEW q \in Callers, FailClosed(q) \/ ServeCached(q) PROVE TypeOK'
  <2>1. got' \in [Callers -> 0..MaxMints] /\ cpc' \in [Callers -> CallerPC]
    BY <1>0, <1>1 DEF TypeOK, FailClosed, ServeCached, Nil
  <2>2. UNCHANGED <<sourceVars, mintVars, serverVars, refreshVars, call>>
    BY <1>1 DEF FailClosed, ServeCached
  <2>3. Enter(q)
    BY <1>1 DEF FailClosed, ServeCached
  <2> QED
    BY <2>1, <2>2, <2>3, EnterTypes
       DEF TypeOK, sourceVars, mintVars, serverVars, refreshVars
<1>2. ASSUME NEW q \in Callers, Obtain(q) PROVE TypeOK'
  <2>1. Enter(q) /\ ObtainLocked /\ UNCHANGED <<terminal, serverVars, refreshVars, got>>
    BY <1>2 DEF Obtain
  <2>2. token' \in 0..MaxMints /\ cpc' \in [Callers -> CallerPC]
    BY <1>0, <1>2 DEF TypeOK, Obtain, Nil
  <2>3. call' \in [Callers -> 0..MaxMints] /\ inflight' \in 0..MaxMints
    BY <1>0, <1>2, <2>1, ObtainTypes DEF TypeOK, Obtain
  <2> QED
    BY <2>1, <2>2, <2>3, EnterTypes, ObtainTypes DEF TypeOK, serverVars, refreshVars
<1>3. ASSUME NEW q \in Callers, Wake(q) PROVE TypeOK'
  <2>1. /\ got' \in [Callers -> 0..MaxMints] /\ cpc' \in [Callers -> CallerPC]
        /\ call' \in [Callers -> 0..MaxMints]
    BY <1>0, <1>3 DEF TypeOK, Wake, Nil
  <2> QED
    BY <2>1, <1>3 DEF TypeOK, Wake, sourceVars, mintVars, serverVars, refreshVars, historyVars
<1>4. ASSUME NEW q \in Callers, Connect(q) \/ Reply(q) PROVE TypeOK'
  BY <1>4 DEF TypeOK, Connect, Reply, sourceVars, mintVars, serverVars, refreshVars,
              historyVars
<1>5. ASSUME NEW q \in Callers, Invalidate(q) PROVE TypeOK'
  <2>1. rejected' \subseteq Mints
    <3>1. got[q] \in 0..MaxMints /\ rejected \subseteq Mints
      BY DEF TypeOK
    <3>2. {got[q]} \ {0} \subseteq Mints
      BY <3>1, BoundsAssumption DEF Mints
    <3> QED
      BY <3>1, <3>2, <1>5 DEF Invalidate, Nil
  <2>2. token' \in 0..MaxMints /\ Leave(q)
    BY <1>0, <1>5 DEF Invalidate, Nil
  <2>3. UNCHANGED <<terminal, inflight, mintVars, serverVars, refreshVars, call>>
    BY <1>5 DEF Invalidate
  <2> QED
    BY <2>1, <2>2, <2>3, LeaveTypes DEF TypeOK, mintVars, serverVars, refreshVars
<1>6. ASSUME NEW q \in Callers, StreamEnds(q) PROVE TypeOK'
  BY <1>6, LeaveTypes DEF TypeOK, StreamEnds, sourceVars, mintVars, serverVars, refreshVars
<1>6a. ASSUME NEW q \in Callers, ConnectFails(q) PROVE TypeOK'
  <2>1. Leave(q) /\ UNCHANGED <<sourceVars, mintVars, near, epoch, refreshVars, call, rejected>>
    BY <1>6a DEF ConnectFails
  <2>2. failures' \in 0..MaxFailures
    BY <1>6a, BoundsAssumption DEF TypeOK, ConnectFails
  <2> QED
    BY <2>1, <2>2, LeaveTypes DEF TypeOK, sourceVars, mintVars, refreshVars
<1>7. ASSUME NEW m \in Mints, Exchange(m) PROVE TypeOK'
  <2>1. /\ mpc' \in [Mints -> {"none", "running", "answered", "stored", "closed"}]
        /\ result' \in [Mints -> {"none", "ok", "error", "mismatch"}]
    BY <1>7 DEF TypeOK, Exchange
  <2>2. mepoch' \in [Mints -> 0..MaxRestarts] /\ failures' \in 0..MaxFailures
    BY <1>7, BoundsAssumption DEF TypeOK, Exchange
  <2> QED
    BY <2>1, <2>2, <1>7 DEF TypeOK, Exchange, sourceVars, refreshVars, callerVars, historyVars
<1>8. ASSUME NEW m \in Mints, Store(m) PROVE TypeOK'
  <2>1. /\ mpc' \in [Mints -> {"none", "running", "answered", "stored", "closed"}]
        /\ token' \in 0..MaxMints /\ inflight' \in 0..MaxMints /\ terminal' \in BOOLEAN
    BY <1>0, <1>8 DEF TypeOK, Store, Nil
  <2> QED
    BY <2>1, <1>8 DEF TypeOK, Store, serverVars, refreshVars, callerVars, historyVars
<1>9. ASSUME NEW m \in Mints, CloseDone(m) PROVE TypeOK'
  BY <1>9 DEF TypeOK, CloseDone, sourceVars, serverVars, refreshVars, callerVars, historyVars
<1>10. CASE Refresh
  <2>1. ObtainLocked /\ refreshes' \in 0..MaxRefreshes
    BY <1>10, BoundsAssumption DEF TypeOK, Refresh
  <2>2. refreshing' \in 0..MaxMints /\ inflight' \in 0..MaxMints
    BY <1>0, <1>10, <2>1, ObtainTypes DEF Refresh
  <2> QED
    BY <2>1, <2>2, <1>10, ObtainTypes DEF TypeOK, Refresh, serverVars, callerVars, historyVars
<1>11. CASE RefreshDone
  BY <1>0, <1>11 DEF TypeOK, RefreshDone, Nil, sourceVars, mintVars, serverVars, callerVars,
                     historyVars
<1>12. CASE Restart
  <2>1. epoch' \in 0..MaxRestarts
    BY <1>12, BoundsAssumption DEF TypeOK, Restart
  <2> QED
    BY <2>1, <1>12 DEF TypeOK, Restart, sourceVars, mintVars, refreshVars, callerVars, historyVars
<1>13. ASSUME NEW m \in Mints, ComesNear(m) PROVE TypeOK'
  BY <1>13 DEF TypeOK, ComesNear, sourceVars, mintVars, refreshVars, callerVars, historyVars
<1>14. CASE UNCHANGED vars
  BY <1>14 DEF TypeOK, vars, sourceVars, mintVars, serverVars, refreshVars, callerVars,
               historyVars
<1> QED
  BY <1>1, <1>2, <1>3, <1>4, <1>5, <1>6, <1>6a, <1>7, <1>8, <1>9, <1>10, <1>11, <1>12,
     <1>13, <1>14 DEF Next, Call, DoMint

\* Every variable keeps its type.
THEOREM TypeCorrect == Spec => []TypeOK
<1>1. Init => TypeOK
  BY TypeInit
<1>2. TypeOK /\ [Next]_vars => TypeOK'
  BY TypeStep
<1> QED
  BY <1>1, <1>2, PTL DEF Spec

-----------------------------------------------------------------------------
(* The inductive invariant *)

\* Mints are numbered as they start, and have no result before their exchange.
Numbered ==
    \A m \in Mints : /\ mpc[m] = "none" <=> m > minted
                     /\ mpc[m] \in {"none", "running"} => result[m] = "none"

\* The cached token and the rejected ones come from finished mints, and a rejected
\* token is never cached again.
Cached ==
    /\ token # Nil => token \in Completed \ rejected
    /\ rejected \subseteq Completed

\* A caller has been given nothing it must not be given, and nothing between rounds.
Given ==
    \A q \in Callers : /\ got[q] # Nil => got[q] \in Completed
                       /\ cpc[q] = "idle" => got[q] = Nil
                       /\ got[q] \notin bad[q]

\* A caller waits for a mint whose token it may be given.
Waiting ==
    \A q \in Callers : cpc[q] = "waiting" =>
        /\ call[q] \in Mints /\ call[q] \notin bad[q]
        /\ ~shut[q]
        /\ ~joined[q] /\ result[call[q]] = "ok" => asked[q] <= mepoch[call[q]]

\* Nobody asks in an epoch to come.
InPast == \A q \in Callers : asked[q] <= epoch

CInv ==
    /\ TypeOK
    /\ Numbered /\ SingleFlight /\ Cached /\ Given /\ Waiting /\ InPast
    /\ TerminalFailsClosed /\ StaleOnlyByJoin

\* The invariant holds as the agent starts.
LEMMA CInvInit ==
    ASSUME Init PROVE CInv
<1>1. /\ token = 0 /\ terminal = FALSE /\ inflight = 0 /\ minted = 0 /\ epoch = 0
      /\ rejected = {} /\ mpc = [m \in Mints |-> "none"] /\ result = [m \in Mints |-> "none"]
  BY DEF Init, Nil
<1>2. /\ cpc = [q \in Callers |-> "idle"] /\ got = [q \in Callers |-> 0]
      /\ bad = [q \in Callers |-> {}] /\ shut = [q \in Callers |-> FALSE]
      /\ asked = [q \in Callers |-> 0]
  BY DEF Init, Nil
<1>3. TypeOK
  BY TypeInit
<1>4. Numbered /\ SingleFlight
  BY <1>1 DEF Numbered, SingleFlight, Mints
<1>5. Cached /\ Given /\ Waiting /\ InPast
  BY <1>1, <1>2 DEF Cached, Given, Waiting, InPast, Nil
<1>6. TerminalFailsClosed /\ StaleOnlyByJoin
  BY <1>1, <1>2 DEF TerminalFailsClosed, StaleOnlyByJoin, Callers, Nil
<1> QED
  BY <1>3, <1>4, <1>5, <1>6 DEF CInv

\* Joining or starting a mint: the mint is unfinished, and it has no result yet
\* unless it was in flight before.
LEMMA ObtainLockedInv ==
    ASSUME CInv, ObtainLocked
    PROVE  /\ Numbered' /\ SingleFlight' /\ Completed' = Completed
           /\ inflight' \in Mints \ Completed
           /\ inflight = Nil => result[inflight'] = "none"
           /\ result' = result /\ mepoch' = mepoch
           /\ \A m \in Mints : mpc[m] = "closed" <=> mpc'[m] = "closed"
<1>1. /\ inflight \in 0..MaxMints /\ minted \in 0..MaxMints
      /\ mpc \in [Mints -> {"none", "running", "answered", "stored", "closed"}]
  BY DEF CInv, TypeOK
<1>2. Numbered /\ SingleFlight
  BY DEF CInv
<1>3. CASE StartMint
  <2>1. /\ minted + 1 \in Mints /\ inflight = 0 /\ minted' = minted + 1
        /\ inflight' = minted + 1 /\ mpc' = [mpc EXCEPT ![minted + 1] = "running"]
        /\ result' = result /\ mepoch' = mepoch
    BY <1>1, <1>3, BoundsAssumption DEF StartMint, Mints, Nil
  <2>2. mpc[minted + 1] = "none" /\ result[minted + 1] = "none"
    BY <1>1, <1>2, <2>1 DEF Numbered
  <2>3. Numbered'
    BY <1>1, <1>2, <2>1, <2>2 DEF Numbered, Mints
  <2>4. SingleFlight'
    <3>1. \A m \in Mints : mpc[m] \notin {"running", "answered"}
      BY <1>2, <2>1 DEF SingleFlight, Mints
    <3> QED
      BY <1>1, <2>1, <3>1 DEF SingleFlight
  <2>5. Completed' = Completed
    BY <1>1, <2>1, <2>2 DEF Completed
  <2> QED
    BY <1>1, <2>1, <2>2, <2>3, <2>4, <2>5 DEF Completed
<1>4. CASE JoinMint
  <2>1. UNCHANGED <<inflight, minted, mpc, result, mepoch>> /\ inflight # 0
    BY <1>4 DEF JoinMint, mintVars, Nil
  <2>2. inflight \in Mints
    BY <1>1, <2>1, BoundsAssumption DEF Mints
  <2>3. Numbered' /\ SingleFlight' /\ Completed' = Completed
    BY <1>2, <2>1 DEF Numbered, SingleFlight, Completed
  <2>4. inflight \notin Completed
    BY <1>2, <2>2 DEF SingleFlight, Completed
  <2> QED
    BY <2>1, <2>2, <2>3, <2>4 DEF Nil
<1> QED
  BY <1>3, <1>4 DEF ObtainLocked

\* Entering fixes what the caller may not be given: only tokens of finished mints.
LEMMA EnterInv ==
    ASSUME CInv, NEW q \in Callers, Enter(q)
    PROVE  /\ bad'[q] \subseteq Completed
           /\ q \notin Asks => bad'[q] = (near \cap Completed) \cup rejected
           /\ shut'[q] = terminal /\ joined'[q] = (inflight # Nil) /\ asked'[q] = epoch
           /\ \A k \in Callers \ {q} : /\ bad'[k] = bad[k] /\ shut'[k] = shut[k]
                                       /\ joined'[k] = joined[k] /\ asked'[k] = asked[k]
           /\ rejected' = rejected
<1>1. /\ bad \in [Callers -> SUBSET Mints] /\ shut \in [Callers -> BOOLEAN]
      /\ joined \in [Callers -> BOOLEAN] /\ asked \in [Callers -> 0..MaxRestarts]
  BY DEF CInv, TypeOK
<1>2. rejected \subseteq Completed
  BY DEF CInv, Cached
<1>3. bad'[q] = IF q \in Asks THEN Completed ELSE (near \cap Completed) \cup rejected
  BY <1>1 DEF Enter
<1> QED
  BY <1>1, <1>2, <1>3 DEF Enter

\* The steps that enter and return at once: a token from the cache is fresh enough.
LEMMA EnterAndReturnStep ==
    ASSUME CInv, TypeOK', NEW q \in Callers, FailClosed(q) \/ ServeCached(q) PROVE CInv'
<1>1. Enter(q) /\ UNCHANGED <<token, terminal, inflight, minted, mpc, result, mepoch, near, epoch, call>>
  BY DEF FailClosed, ServeCached, sourceVars, mintVars, serverVars
<1>2. /\ cpc \in [Callers -> CallerPC] /\ got \in [Callers -> 0..MaxMints]
      /\ bad' \in [Callers -> SUBSET Mints]
  BY DEF CInv, TypeOK
<1>3. /\ cpc'[q] = "returned"
      /\ \A k \in Callers \ {q} : cpc'[k] = cpc[k] /\ got'[k] = got[k]
  BY <1>2 DEF FailClosed, ServeCached
<1>4. \/ terminal /\ got'[q] = 0
      \/ ~terminal /\ q \notin Asks /\ token # 0 /\ token \notin near /\ got'[q] = token
  BY <1>2 DEF FailClosed, ServeCached, Stale, Nil
<1>5. Completed' = Completed
  BY <1>1 DEF Completed
<1>6. Numbered' /\ SingleFlight'
  BY <1>1 DEF CInv, Numbered, SingleFlight
<1>7. Cached'
  BY <1>1, <1>5, EnterInv DEF CInv, Cached
<1>8. Given'
  <2>1. Given /\ Cached
    BY DEF CInv
  <2>2. got'[q] # 0 => got'[q] \in Completed
    BY <1>4, <2>1 DEF Cached, Nil
  <2>3. got'[q] \notin bad'[q]
    <3>1. 0 \notin bad'[q]
      BY <1>2 DEF Mints
    <3>2. token # 0 /\ token \notin near /\ q \notin Asks => token \notin bad'[q]
      BY <1>1, <2>1, EnterInv DEF Cached, Nil
    <3> QED
      BY <1>4, <3>1, <3>2
  <2>4. \A k \in Callers \ {q} : bad'[k] = bad[k]
    BY <1>1, EnterInv
  <2> QED
    BY <1>3, <1>5, <2>1, <2>2, <2>3, <2>4 DEF Given, Nil
<1>9. Waiting'
  <2>1. Waiting
    BY DEF CInv
  <2> QED
    BY <1>1, <1>3, <2>1, EnterInv DEF Waiting
<1>10. InPast'
  <2>1. InPast /\ epoch \in 0..MaxRestarts
    BY DEF CInv, TypeOK
  <2> QED
    BY <1>1, <2>1, EnterInv DEF InPast
<1>11. TerminalFailsClosed'
  <2>1. TerminalFailsClosed
    BY DEF CInv
  <2> QED
    BY <1>1, <1>3, <1>4, <2>1, EnterInv DEF TerminalFailsClosed, Nil
<1>12. StaleOnlyByJoin'
  <2>1. StaleOnlyByJoin
    BY DEF CInv
  <2>2. \A k \in Asks \ {q} : /\ got'[k] = got[k] /\ asked'[k] = asked[k]
                             /\ joined'[k] = joined[k]
    BY <1>1, <1>3, EnterInv DEF Callers
  <2>3. q \in Asks => got'[q] = 0
    BY <1>4
  <2> QED
    BY <1>1, <2>1, <2>2, <2>3 DEF StaleOnlyByJoin, Nil
<1> QED
  BY <1>6, <1>7, <1>8, <1>9, <1>10, <1>11, <1>12 DEF CInv

\* The steps that enter and wait: the mint waited for is not complete, so its token is
\* none of those the caller must not be given.
LEMMA ObtainStep ==
    ASSUME CInv, TypeOK', NEW q \in Callers, Obtain(q) PROVE CInv'
<1>1. /\ Enter(q) /\ ObtainLocked /\ ~terminal
      /\ UNCHANGED <<terminal, near, epoch, got>>
      /\ token' \in {0, token}
  BY DEF Obtain, serverVars, Nil
<1>2. /\ cpc \in [Callers -> CallerPC] /\ call \in [Callers -> 0..MaxMints]
  BY DEF CInv, TypeOK
<1>3. /\ call'[q] = inflight' /\ cpc[q] = "idle"
      /\ \A k \in Callers \ {q} : cpc'[k] = cpc[k] /\ call'[k] = call[k]
  BY <1>2 DEF Obtain, Enter
<1>4. /\ Completed' = Completed /\ result' = result /\ mepoch' = mepoch
      /\ inflight' \in Mints \ Completed
      /\ inflight = 0 => result[inflight'] = "none"
  BY <1>1, ObtainLockedInv DEF Nil
<1>5. Numbered' /\ SingleFlight'
  BY <1>1, ObtainLockedInv
<1>6. Cached'
  BY <1>1, <1>4, EnterInv DEF CInv, Cached, Nil
<1>7. Given'
  <2>1. Given
    BY DEF CInv
  <2>2. \A k \in Callers \ {q} : bad'[k] = bad[k]
    BY <1>1, EnterInv
  <2>3. got[q] = 0 /\ cpc'[q] = "waiting"
    BY <1>2, <1>3, <2>1 DEF Given, Obtain, Nil
  <2>4. got'[q] \notin bad'[q]
    BY <1>1, <2>3 DEF TypeOK, Mints
  <2> QED
    BY <1>1, <1>3, <1>4, <2>1, <2>2, <2>3, <2>4 DEF Given, Nil
<1>8. Waiting'
  <2>1. Waiting
    BY DEF CInv
  <2>2. call'[q] \in Mints /\ call'[q] \notin bad'[q] /\ ~shut'[q]
    BY <1>1, <1>3, <1>4, EnterInv
  <2>3. ~joined'[q] => result'[call'[q]] # "ok"
    BY <1>1, <1>3, <1>4, EnterInv DEF Nil
  <2>4. \A k \in Callers \ {q} : /\ bad'[k] = bad[k] /\ shut'[k] = shut[k]
                                /\ joined'[k] = joined[k] /\ asked'[k] = asked[k]
    BY <1>1, EnterInv
  <2> QED
    BY <1>3, <1>4, <2>1, <2>2, <2>3, <2>4 DEF Waiting
<1>9. InPast'
  <2>1. InPast /\ epoch \in 0..MaxRestarts
    BY DEF CInv, TypeOK
  <2> QED
    BY <1>1, <2>1, EnterInv DEF InPast
<1>10. TerminalFailsClosed'
  <2>1. TerminalFailsClosed
    BY DEF CInv
  <2> QED
    BY <1>1, <2>1, EnterInv DEF TerminalFailsClosed
<1>11. StaleOnlyByJoin'
  <2>1. StaleOnlyByJoin
    BY DEF CInv
  <2>2. \A k \in Asks \ {q} : asked'[k] = asked[k] /\ joined'[k] = joined[k]
    BY <1>1, EnterInv DEF Callers
  <2>3. got'[q] = 0
    BY <1>1, <1>3 DEF CInv, Given, Nil
  <2> QED
    BY <1>1, <1>4, <2>1, <2>2, <2>3 DEF StaleOnlyByJoin, Callers, Nil
<1> QED
  BY <1>5, <1>6, <1>7, <1>8, <1>9, <1>10, <1>11 DEF CInv

\* A caller given the result of the mint it waited for.
LEMMA WakeStep ==
    ASSUME CInv, TypeOK', NEW q \in Callers, Wake(q) PROVE CInv'
<1>1. UNCHANGED <<token, terminal, inflight, minted, mpc, result, mepoch, epoch,
                  rejected, bad, shut, joined, asked>>
  BY DEF Wake, sourceVars, mintVars, serverVars, historyVars
<1>2. /\ cpc \in [Callers -> CallerPC] /\ call \in [Callers -> 0..MaxMints]
      /\ got \in [Callers -> 0..MaxMints] /\ bad \in [Callers -> SUBSET Mints]
  BY DEF CInv, TypeOK
<1>3. /\ cpc[q] = "waiting" /\ mpc[call[q]] = "closed" /\ cpc'[q] = "returned"
      /\ \A k \in Callers \ {q} : cpc'[k] = cpc[k] /\ call'[k] = call[k] /\ got'[k] = got[k]
  BY <1>2 DEF Wake
<1>4. \/ got'[q] = 0
      \/ result[call[q]] = "ok" /\ got'[q] = call[q]
  BY <1>2 DEF Wake, Nil
<1>5. /\ call[q] \in Completed /\ call[q] \notin bad[q] /\ ~shut[q]
      /\ ~joined[q] /\ result[call[q]] = "ok" => asked[q] <= mepoch[call[q]]
  BY <1>3 DEF CInv, Waiting, Completed
<1>6. Completed' = Completed
  BY <1>1 DEF Completed
<1>7. Numbered' /\ SingleFlight' /\ Cached' /\ InPast'
  BY <1>1, <1>6 DEF CInv, Numbered, SingleFlight, Cached, InPast
<1>8. Given'
  <2>1. 0 \notin bad[q]
    BY <1>2 DEF Mints
  <2>2. got'[q] \notin bad'[q] /\ (got'[q] # 0 => got'[q] \in Completed)
    BY <1>1, <1>4, <1>5, <2>1
  <2>3. Given
    BY DEF CInv
  <2> QED
    BY <1>1, <1>3, <1>6, <2>2, <2>3 DEF Given, Nil
<1>9. Waiting'
  <2>1. Waiting
    BY DEF CInv
  <2> QED
    BY <1>1, <1>3, <2>1 DEF Waiting
<1>10. TerminalFailsClosed'
  <2>1. TerminalFailsClosed
    BY DEF CInv
  <2> QED
    BY <1>1, <1>3, <1>5, <2>1 DEF TerminalFailsClosed
<1>11. StaleOnlyByJoin'
  <2>1. StaleOnlyByJoin /\ asked \in [Callers -> 0..MaxRestarts] /\ mepoch \in [Mints -> 0..MaxRestarts]
    BY DEF CInv, TypeOK
  <2>2. got'[q] # 0 /\ ~joined[q] => asked[q] <= mepoch[got'[q]]
    BY <1>4, <1>5
  <2>3. got'[q] # 0 => got'[q] \in Mints
    BY <1>4, <1>5 DEF Completed
  <2>4. ASSUME q \in Asks, got'[q] # 0, mepoch[got'[q]] < asked[q] PROVE joined[q]
    BY <2>1, <2>2, <2>3, <2>4
  <2> QED
    BY <1>1, <1>3, <2>1, <2>4 DEF StaleOnlyByJoin, Callers, Nil
<1> QED
  BY <1>7, <1>8, <1>9, <1>10, <1>11 DEF CInv

\* A stream connects, is refused, or an app gets its reply: only the caller moves.
LEMMA AnswerStep ==
    ASSUME CInv, TypeOK', NEW q \in Callers, Connect(q) \/ Reply(q) PROVE CInv'
<1>1. UNCHANGED <<token, terminal, inflight, minted, mpc, result, mepoch, epoch,
                  call, got, rejected, bad, shut, joined, asked>>
  BY DEF Connect, Reply, sourceVars, mintVars, serverVars, historyVars
<1>2. cpc \in [Callers -> CallerPC]
  BY DEF CInv, TypeOK
<1>3. \A k \in Callers : cpc'[k] \in {"idle", "waiting"} => cpc'[k] = cpc[k]
  BY <1>2 DEF Connect, Reply
<1>4. Completed' = Completed
  BY <1>1 DEF Completed
<1>5. Numbered' /\ SingleFlight' /\ Cached' /\ InPast' /\ TerminalFailsClosed'
  BY <1>1, <1>4 DEF CInv, Numbered, SingleFlight, Cached, InPast, TerminalFailsClosed
<1>6. Given' /\ Waiting'
  BY <1>1, <1>3, <1>4 DEF CInv, Given, Waiting
<1>7. StaleOnlyByJoin'
  BY <1>1 DEF CInv, StaleOnlyByJoin
<1> QED
  BY <1>5, <1>6, <1>7 DEF CInv

\* A round ends; after a 401 its token is discarded and counted as rejected.
LEMMA LeaveStep ==
    ASSUME CInv, TypeOK', NEW q \in Callers,
           Invalidate(q) \/ StreamEnds(q) \/ ConnectFails(q)
    PROVE  CInv'
<1>1. UNCHANGED <<terminal, inflight, minted, mpc, result, mepoch, epoch, call>>
  BY DEF Invalidate, StreamEnds, ConnectFails, sourceVars, mintVars, serverVars
<1>2. /\ cpc \in [Callers -> CallerPC] /\ got \in [Callers -> 0..MaxMints]
      /\ bad \in [Callers -> SUBSET Mints] /\ shut \in [Callers -> BOOLEAN]
      /\ joined \in [Callers -> BOOLEAN] /\ asked \in [Callers -> 0..MaxRestarts]
      /\ epoch \in 0..MaxRestarts
  BY DEF CInv, TypeOK
<1>3. /\ cpc'[q] = "idle" /\ got'[q] = 0 /\ bad'[q] = {} /\ shut'[q] = FALSE /\ asked'[q] = 0
      /\ \A k \in Callers \ {q} :
            /\ cpc'[k] = cpc[k] /\ got'[k] = got[k] /\ bad'[k] = bad[k] /\ shut'[k] = shut[k]
            /\ joined'[k] = joined[k] /\ asked'[k] = asked[k]
  BY <1>2 DEF Invalidate, StreamEnds, ConnectFails, Leave, Nil
<1>4. \/ token' = 0 /\ rejected' = rejected \cup ({got[q]} \ {0})
      \/ token' = token /\ rejected' = rejected
  BY DEF Invalidate, StreamEnds, ConnectFails, sourceVars, Nil
<1>5. Completed' = Completed
  BY <1>1 DEF Completed
<1>6. Numbered' /\ SingleFlight'
  BY <1>1 DEF CInv, Numbered, SingleFlight
<1>7. Cached'
  BY <1>4, <1>5 DEF CInv, Cached, Given, Nil
<1>8. Given' /\ Waiting' /\ TerminalFailsClosed'
  BY <1>1, <1>3, <1>5 DEF CInv, Given, Waiting, TerminalFailsClosed, Nil
<1>9. InPast'
  BY <1>1, <1>2, <1>3 DEF CInv, InPast
<1>10. StaleOnlyByJoin'
  BY <1>1, <1>3 DEF CInv, StaleOnlyByJoin, Callers, Nil
<1> QED
  BY <1>6, <1>7, <1>8, <1>9, <1>10 DEF CInv

\* The exchange: its token is of the server's present epoch, so of none before a
\* caller's that waits for it.
LEMMA ExchangeStep ==
    ASSUME CInv, TypeOK', NEW m \in Mints, Exchange(m) PROVE CInv'
<1>1. UNCHANGED <<token, terminal, inflight, minted, epoch, cpc, call, got,
                  rejected, bad, shut, joined, asked>>
  BY DEF Exchange, sourceVars, callerVars, historyVars
<1>2. /\ mpc \in [Mints -> {"none", "running", "answered", "stored", "closed"}]
      /\ result \in [Mints -> {"none", "ok", "error", "mismatch"}]
      /\ mepoch \in [Mints -> 0..MaxRestarts] /\ epoch \in 0..MaxRestarts
  BY DEF CInv, TypeOK
<1>3. /\ mpc[m] = "running" /\ mpc'[m] = "answered"
      /\ \A n \in Mints \ {m} : /\ mpc'[n] = mpc[n] /\ result'[n] = result[n]
                              /\ mepoch'[n] = mepoch[n]
  BY <1>2 DEF Exchange
<1>4. result'[m] = "ok" => mepoch'[m] = epoch
  BY <1>2 DEF Exchange
<1>5. Completed' = Completed /\ m \notin Completed
  BY <1>3 DEF Completed
<1>6. Numbered' /\ SingleFlight'
  BY <1>1, <1>3 DEF CInv, Numbered, SingleFlight
<1>7. Cached' /\ Given' /\ InPast'
  BY <1>1, <1>5 DEF CInv, Cached, Given, InPast
<1>8. Waiting'
  <2>1. Waiting /\ InPast
    BY DEF CInv
  <2>2. \A q \in Callers : asked[q] <= epoch
    BY <2>1 DEF InPast
  <2> QED
    BY <1>1, <1>3, <1>4, <2>1, <2>2 DEF Waiting
<1>9. TerminalFailsClosed'
  BY <1>1, <1>3 DEF CInv, TerminalFailsClosed
<1>10. StaleOnlyByJoin'
  <2>1. StaleOnlyByJoin /\ Given
    BY DEF CInv
  <2>2. \A q \in Asks : got[q] # 0 => mepoch'[got[q]] = mepoch[got[q]]
    BY <1>3, <1>5, <2>1 DEF Given, Completed, Callers, Nil
  <2> QED
    BY <1>1, <2>1, <2>2 DEF StaleOnlyByJoin, Nil
<1> QED
  BY <1>6, <1>7, <1>8, <1>9, <1>10 DEF CInv

\* The second critical section: the one mint in flight ends, and no other runs.
LEMMA StoreStep ==
    ASSUME CInv, TypeOK', NEW m \in Mints, Store(m) PROVE CInv'
<1>1. UNCHANGED <<minted, result, mepoch, epoch, cpc, call, got, rejected, bad, shut, joined, asked>>
  BY DEF Store, serverVars, callerVars, historyVars
<1>2. mpc \in [Mints -> {"none", "running", "answered", "stored", "closed"}]
  BY DEF CInv, TypeOK
<1>3. /\ mpc[m] = "answered" /\ mpc'[m] = "stored" /\ inflight' = 0 /\ token' \in {token, m}
      /\ \A n \in Mints \ {m} : mpc'[n] = mpc[n]
  BY <1>2 DEF Store, Nil
<1>4. Completed' = Completed \cup {m} /\ m \notin Completed
  BY <1>3 DEF Completed
<1>5. m = inflight /\ \A n \in Mints : mpc'[n] \notin {"running", "answered"}
  BY <1>3 DEF CInv, SingleFlight
<1>6. Numbered' /\ SingleFlight'
  BY <1>1, <1>3, <1>5 DEF CInv, Numbered, SingleFlight, Mints
<1>7. Cached'
  <2>1. Cached
    BY DEF CInv
  <2>2. m \notin rejected
    BY <1>4, <2>1 DEF Cached
  <2> QED
    BY <1>1, <1>3, <1>4, <2>1, <2>2 DEF Cached
<1>8. Given' /\ Waiting' /\ InPast' /\ StaleOnlyByJoin'
  BY <1>1, <1>4 DEF CInv, Given, Waiting, InPast, StaleOnlyByJoin
<1>9. TerminalFailsClosed'
  BY <1>1, <1>3, <1>5 DEF CInv, TerminalFailsClosed, Nil
<1> QED
  BY <1>6, <1>7, <1>8, <1>9 DEF CInv

\* A flight that ends, waking those who joined it, keeps the invariant.
LEMMA CloseDoneStep ==
    ASSUME CInv, TypeOK', NEW m \in Mints, CloseDone(m) PROVE CInv'
<1>1. UNCHANGED <<token, terminal, inflight, minted, result, mepoch, epoch, cpc, call, got,
                  rejected, bad, shut, joined, asked>>
  BY DEF CloseDone, sourceVars, serverVars, callerVars, historyVars
<1>2. mpc \in [Mints -> {"none", "running", "answered", "stored", "closed"}]
  BY DEF CInv, TypeOK
<1>3. /\ mpc[m] = "stored" /\ mpc'[m] = "closed"
      /\ \A n \in Mints \ {m} : mpc'[n] = mpc[n]
  BY <1>2 DEF CloseDone
<1>4. Completed' = Completed
  BY <1>3 DEF Completed
<1>5. Numbered' /\ SingleFlight'
  BY <1>1, <1>3 DEF CInv, Numbered, SingleFlight
<1>6. Cached' /\ Given' /\ Waiting' /\ InPast' /\ StaleOnlyByJoin'
  BY <1>1, <1>4 DEF CInv, Cached, Given, Waiting, InPast, StaleOnlyByJoin
<1>7. TerminalFailsClosed'
  BY <1>1, <1>3 DEF CInv, TerminalFailsClosed
<1> QED
  BY <1>5, <1>6, <1>7 DEF CInv

\* A proactive refresh joins or starts a mint, never after a host-key mismatch.
LEMMA RefreshStep ==
    ASSUME CInv, TypeOK', Refresh PROVE CInv'
<1>1. /\ ObtainLocked /\ ~terminal
      /\ UNCHANGED <<token, terminal, epoch, cpc, call, got, rejected, bad, shut, joined, asked>>
  BY DEF Refresh, serverVars, callerVars, historyVars
<1>2. Completed' = Completed /\ result' = result /\ mepoch' = mepoch
  BY <1>1, ObtainLockedInv
<1>3. Numbered' /\ SingleFlight'
  BY <1>1, ObtainLockedInv
<1>4. Cached' /\ Given' /\ Waiting' /\ InPast' /\ StaleOnlyByJoin'
  BY <1>1, <1>2 DEF CInv, Cached, Given, Waiting, InPast, StaleOnlyByJoin
<1>5. TerminalFailsClosed'
  BY <1>1 DEF CInv, TerminalFailsClosed
<1> QED
  BY <1>3, <1>4, <1>5 DEF CInv

\* The server restarts: every token falls behind, no caller asked later than now.
LEMMA RestartStep ==
    ASSUME CInv, TypeOK', Restart PROVE CInv'
<1>1. UNCHANGED <<token, terminal, inflight, minted, mpc, result, mepoch, cpc, call, got,
                  rejected, bad, shut, joined, asked>>
  BY DEF Restart, sourceVars, mintVars, callerVars, historyVars
<1>2. Completed' = Completed
  BY <1>1 DEF Completed
<1>3. /\ Numbered' /\ SingleFlight' /\ Cached' /\ Given' /\ Waiting' /\ TerminalFailsClosed'
      /\ StaleOnlyByJoin'
  BY <1>1, <1>2 DEF CInv, Numbered, SingleFlight, Cached, Given, Waiting,
                    TerminalFailsClosed, StaleOnlyByJoin
<1>4. InPast'
  <2>1. /\ asked \in [Callers -> 0..MaxRestarts] /\ epoch \in 0..MaxRestarts
        /\ epoch' = epoch + 1
    BY DEF CInv, TypeOK, Restart
  <2>2. \A q \in Callers : asked[q] <= epoch
    BY DEF CInv, InPast
  <2> QED
    BY <1>1, <2>1, <2>2 DEF InPast
<1> QED
  BY <1>3, <1>4 DEF CInv

\* The steps no conjunct but the types looks at.
LEMMA OtherStep ==
    ASSUME CInv, TypeOK',
           RefreshDone \/ (\E m \in Mints : ComesNear(m)) \/ UNCHANGED vars
    PROVE  CInv'
<1>1. UNCHANGED <<token, terminal, inflight, minted, mpc, result, mepoch, epoch, cpc, call, got,
                  rejected, bad, shut, joined, asked>>
  BY DEF RefreshDone, ComesNear, vars, sourceVars, mintVars, serverVars, callerVars,
         historyVars
<1>2. Completed' = Completed
  BY <1>1 DEF Completed
<1> QED
  BY <1>1, <1>2 DEF CInv, Numbered, SingleFlight, Cached, Given, Waiting, InPast,
                    TerminalFailsClosed, StaleOnlyByJoin

\* The invariant the safety theorems rest on.
THEOREM SourceInvariance == Spec => []CInv
<1>1. Init => CInv
  BY CInvInit
<1>2. CInv /\ [Next]_vars => CInv'
  <2> SUFFICES ASSUME CInv, [Next]_vars PROVE CInv'
    OBVIOUS
  <2>1. TypeOK'
    BY TypeStep DEF CInv
  <2>2. ASSUME NEW q \in Callers, Call(q) \/ StreamEnds(q) \/ ConnectFails(q) PROVE CInv'
    BY <2>1, <2>2, EnterAndReturnStep, ObtainStep, WakeStep, AnswerStep, LeaveStep DEF Call
  <2>3. ASSUME NEW m \in Mints, DoMint(m) PROVE CInv'
    BY <2>1, <2>3, ExchangeStep, StoreStep, CloseDoneStep DEF DoMint
  <2>4. ASSUME Refresh \/ Restart PROVE CInv'
    BY <2>1, <2>4, RefreshStep, RestartStep
  <2> QED
    BY <2>1, <2>2, <2>3, <2>4, OtherStep DEF Next
<1> QED
  BY <1>1, <1>2, PTL DEF Spec

-----------------------------------------------------------------------------
(* What it gives *)

\* However callers, refreshes and invalidations overlap, at most one mint of a source
\* runs at a time, and inflight names it (obtainLocked, doMint).
THEOREM OneMintAtATime == Spec => []SingleFlight
<1>1. CInv => SingleFlight
  BY DEF CInv
<1> QED
  BY <1>1, SourceInvariance, PTL

\* A recorded host-key mismatch is final: no mint runs or starts and no later caller
\* is given a token (terminalErr).
THEOREM MismatchIsFinal == Spec => []TerminalFailsClosed
<1>1. CInv => TerminalFailsClosed
  BY DEF CInv
<1> QED
  BY <1>1, SourceInvariance, PTL

\* A stream is never given a token that was rejected, or near its expiry, before it
\* asked (staleLocked, Invalidate).
THEOREM RejectedIsNotServed == Spec => []RejectedNotServed
<1>1. CInv => RejectedNotServed
  BY DEF CInv, Given, RejectedNotServed, Callers
<1> QED
  BY <1>1, SourceInvariance, PTL

\* token.get is never answered from a mint complete before the request
\* (forceTokenWithExpiry).
THEOREM ForcedIsFresh == Spec => []ForceIsFresh
<1>1. CInv => ForceIsFresh
  BY DEF CInv, Given, ForceIsFresh, Callers
<1> QED
  BY <1>1, SourceInvariance, PTL

\* token.get is answered with a token the server revoked before the request only to a
\* caller that joined a mint in flight (forceTokenWithExpiry's accepted race).
THEOREM StaleOnlyWhenJoined == Spec => []StaleOnlyByJoin
<1>1. CInv => StaleOnlyByJoin
  BY DEF CInv
<1> QED
  BY <1>1, SourceInvariance, PTL

-----------------------------------------------------------------------------
(* What waits for a mint *)

\* Where a mint may be after a step.
Onward ==
    [none |-> {"none", "running"}, running |-> {"running", "answered"},
     answered |-> {"answered", "stored"}, stored |-> {"stored", "closed"}, closed |-> {"closed"}]

\* What a step may do to a mint: it goes forward, and what it returned stays as it was.
Advances(m) ==
    /\ mpc'[m] \in Onward[mpc[m]]
    /\ result[m] # "none" => result'[m] = result[m] /\ mepoch'[m] = mepoch[m]

\* Whoever waits, a caller or the refresh loop, waits for a mint that was started.
Awaited ==
    /\ \A q \in Callers : cpc[q] = "waiting" => call[q] \in Mints /\ mpc[call[q]] # "none"
    /\ refreshing # Nil => refreshing \in Mints /\ mpc[refreshing] # "none"

\* Every step moves mints forward only.
LEMMA MintsAdvance ==
    ASSUME CInv, [Next]_vars, NEW m \in Mints PROVE Advances(m)
<1> USE DEF Advances, Onward
<1>1. /\ mpc \in [Mints -> {"none", "running", "answered", "stored", "closed"}]
      /\ result \in [Mints -> {"none", "ok", "error", "mismatch"}]
      /\ mepoch \in [Mints -> 0..MaxRestarts] /\ minted \in 0..MaxMints
      /\ \A k \in Mints : /\ mpc[k] = "none" <=> k > minted
                          /\ mpc[k] \in {"none", "running"} => result[k] = "none"
  BY DEF CInv, TypeOK, Numbered
<1>2. ASSUME NEW k \in Mints, Exchange(k) PROVE Advances(m)
  BY <1>1, <1>2 DEF Exchange
<1>3. ASSUME NEW k \in Mints, Store(k) \/ CloseDone(k) PROVE Advances(m)
  BY <1>1, <1>3 DEF Store, CloseDone
<1>4. ASSUME ObtainLocked PROVE Advances(m)
  <2>1. CASE StartMint
    <3>1. minted + 1 \in Mints /\ mpc[minted + 1] = "none"
      BY <1>1, <2>1, BoundsAssumption DEF StartMint, Mints
    <3> QED
      BY <1>1, <2>1, <3>1 DEF StartMint
  <2>2. CASE JoinMint
    BY <1>1, <2>2 DEF JoinMint, mintVars
  <2> QED
    BY <1>4, <2>1, <2>2 DEF ObtainLocked
<1>5. ASSUME UNCHANGED mintVars PROVE Advances(m)
  BY <1>1, <1>5 DEF mintVars
<1>6. ASSUME NEW q \in Callers, Call(q) \/ StreamEnds(q) \/ ConnectFails(q) PROVE Advances(m)
  <2>1. ObtainLocked \/ UNCHANGED mintVars
    BY <1>6 DEF Call, FailClosed, ServeCached, Obtain, Wake, Connect, Invalidate, Reply,
                StreamEnds, ConnectFails
  <2> QED
    BY <1>4, <1>5, <2>1
<1>7. ASSUME NEW k \in Mints, ComesNear(k) PROVE Advances(m)
  BY <1>5, <1>7 DEF ComesNear
<1>8. ASSUME Refresh \/ RefreshDone \/ Restart \/ UNCHANGED vars PROVE Advances(m)
  BY <1>4, <1>5, <1>8 DEF Refresh, RefreshDone, Restart, vars
<1> QED
  BY <1>2, <1>3, <1>6, <1>7, <1>8 DEF Next, DoMint

\* Every step leaves those who wait with a mint to wait for.
LEMMA AwaitedStep ==
    ASSUME CInv, CInv', Awaited, [Next]_vars PROVE Awaited'
<1>1. \A m \in Mints : mpc[m] # "none" => mpc'[m] # "none"
  <2> SUFFICES ASSUME NEW m \in Mints, mpc[m] # "none" PROVE mpc'[m] # "none"
    OBVIOUS
  <2>1. mpc[m] \in {"running", "answered", "stored", "closed"}
    BY DEF CInv, TypeOK
  <2> QED
    BY <2>1, MintsAdvance DEF Advances, Onward
<1>2. ASSUME ObtainLocked PROVE inflight' \in Mints /\ mpc'[inflight'] # "none"
  <2>1. inflight' \in Mints
    BY <1>2, BoundsAssumption DEF ObtainLocked, StartMint, JoinMint, CInv, TypeOK, Mints, Nil
  <2> QED
    BY <2>1 DEF CInv, SingleFlight
<1>3. /\ cpc \in [Callers -> CallerPC] /\ call \in [Callers -> 0..MaxMints]
  BY DEF CInv, TypeOK
<1>4. ASSUME NEW q \in Callers, cpc'[q] = "waiting"
      PROVE  call'[q] \in Mints /\ mpc'[call'[q]] # "none"
  <2>1. \/ cpc[q] = "waiting" /\ call'[q] = call[q]
        \/ Obtain(q)
    <3>1. ASSUME NEW p \in Callers, Call(p) \/ StreamEnds(p) \/ ConnectFails(p)
          PROVE  (cpc[q] = "waiting" /\ call'[q] = call[q]) \/ Obtain(q)
      <4>1. CASE Obtain(p)
        BY <1>3, <1>4, <4>1 DEF Obtain
      <4>2. CASE FailClosed(p) \/ ServeCached(p) \/ Wake(p)
        BY <1>3, <1>4, <4>2 DEF FailClosed, ServeCached, Wake
      <4>3. CASE Connect(p) \/ Reply(p)
        BY <1>3, <1>4, <4>3 DEF Connect, Reply
      <4>4. CASE Invalidate(p) \/ StreamEnds(p) \/ ConnectFails(p)
        BY <1>3, <1>4, <4>4 DEF Invalidate, StreamEnds, ConnectFails, Leave
      <4> QED
        BY <3>1, <4>1, <4>2, <4>3, <4>4 DEF Call
    <3>2. ASSUME UNCHANGED callerVars PROVE cpc[q] = "waiting" /\ call'[q] = call[q]
      BY <1>4, <3>2 DEF callerVars
    <3>3. ASSUME NEW m \in Mints, DoMint(m) \/ ComesNear(m) PROVE UNCHANGED callerVars
      BY <3>3 DEF DoMint, Exchange, Store, CloseDone, ComesNear
    <3>4. ASSUME Refresh \/ RefreshDone \/ Restart \/ UNCHANGED vars PROVE UNCHANGED callerVars
      BY <3>4 DEF Refresh, RefreshDone, Restart, vars
    <3> QED
      BY <3>1, <3>2, <3>3, <3>4 DEF Next
  <2>2. CASE Obtain(q)
    <3>1. ObtainLocked /\ call'[q] = inflight'
      BY <1>3, <2>2 DEF Obtain
    <3> QED
      BY <1>2, <3>1
  <2>3. CASE cpc[q] = "waiting" /\ call'[q] = call[q]
    BY <1>1, <2>3 DEF Awaited
  <2> QED
    BY <2>1, <2>2, <2>3
<1>5. refreshing' # Nil => refreshing' \in Mints /\ mpc'[refreshing'] # "none"
  <2>1. CASE Refresh
    BY <1>2, <2>1 DEF Refresh
  <2>2. CASE RefreshDone
    BY <2>2 DEF RefreshDone
  <2>3. CASE ~Refresh /\ ~RefreshDone
    <3>1. ASSUME NEW q \in Callers, Call(q) \/ StreamEnds(q) \/ ConnectFails(q)
          PROVE  UNCHANGED refreshing
      BY <3>1 DEF Call, FailClosed, ServeCached, Obtain, Wake, Connect, Invalidate, Reply,
                  StreamEnds, ConnectFails, refreshVars
    <3>2. ASSUME NEW m \in Mints, DoMint(m) \/ ComesNear(m) PROVE UNCHANGED refreshing
      BY <3>2 DEF DoMint, Exchange, Store, CloseDone, ComesNear, refreshVars
    <3>3. ASSUME Restart \/ UNCHANGED vars PROVE UNCHANGED refreshing
      BY <3>3 DEF Restart, vars, refreshVars
    <3>4. UNCHANGED refreshing
      BY <2>3, <3>1, <3>2, <3>3 DEF Next
    <3> QED
      BY <1>1, <3>4 DEF Awaited
  <2> QED
    BY <2>1, <2>2, <2>3
<1> QED
  BY <1>4, <1>5 DEF Awaited

\* The safety core of AskReturns: every caller and the refresh loop wait for a mint that
\* was started, however it was joined, and never for one that nobody runs (obtainLocked
\* and doMint: the done channel waited on is the one that is closed).
THEOREM WaitersAreAwaited == Spec => []Awaited
<1>1. Init => Awaited
  BY DEF Init, Awaited
<1>2. CInv /\ CInv' /\ Awaited /\ [Next]_vars => Awaited'
  BY AwaitedStep
<1> QED
  BY <1>1, <1>2, SourceInvariance, PTL DEF Spec

\* A mint only goes forward, and what it returned never changes: all who joined it are
\* answered alike, whenever they wake (doMint, inflightMint).
THEOREM MintsOnlyAdvance == Spec => [][\A m \in Mints : Advances(m)]_vars
<1>1. CInv /\ [Next]_vars => [\A m \in Mints : Advances(m)]_vars
  BY MintsAdvance
<1> QED
  BY <1>1, SourceInvariance, PTL DEF Spec

=============================================================================
