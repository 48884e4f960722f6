------------------------ MODULE NetworkClientProofs ------------------------
(***************************************************************************)
(* Proofs about NetworkClient, for any number of threads, resolver workers *)
(* and retries, any threshold and any recovery time.                       *)
(***************************************************************************)
EXTENDS NetworkClient, TLAPS

\* The breaker's own count agrees with the history, and decides its state.
CountAgrees == failures = streak /\ (state = "closed" <=> failures < Threshold)

\* No attempt is counted before the exchange is admitted.
TriesCounted ==
  \A t \in Threads : pc[t] \in {"idle", "allow"} => tries[t] = 0

\* The watchdog runs after the deadline.
FiredIsLate == \A t \in Threads : fired[t] => late[t]

\* The inductive invariant.
IInv == TypeOK /\ CountAgrees /\ TriesCounted /\ FiredIsLate /\ SocketsDie

\* Nothing has happened yet.
LEMMA InitIInv == Init => IInv
BY ClientAssumption
   DEF Init, IInv, TypeOK, CountAgrees, TriesCounted, FiredIsLate, SocketsDie,
       PCs, Outcomes

\* Replacing a caller by Gone keeps the queue a queue and the workers typed.
LEMMA CancelTyped ==
  ASSUME TypeOK, NEW t \in Threads, CancelJob(t)
  PROVE  /\ queue' \in Seq(Threads \cup {Gone})
         /\ worker' \in [Workers -> Threads \cup {None, Gone}]
         /\ answer' \in [Threads -> {"none", "addresses", "error"}]
<1> DEFINE Left(j) == IF j = t THEN Gone ELSE j
<1>1. queue \in Seq(Threads \cup {Gone})
  BY DEF TypeOK
<1>2. queue' = [i \in 1..Len(queue) |-> Left(queue[i])]
  BY <1>1 DEF CancelJob
<1>3. \A i \in 1..Len(queue) : Left(queue[i]) \in Threads \cup {Gone}
  BY <1>1
<1>4. queue' \in Seq(Threads \cup {Gone})
  BY <1>1, <1>2, <1>3
<1> QED BY <1>4 DEF CancelJob, TypeOK

\* A new attempt keeps the types while one is left.
LEMMA StartTyped ==
  ASSUME TypeOK, NEW t \in Threads, StartAttempt(t), tries[t] <= MaxRetries
  PROVE  /\ pc' \in [Threads -> PCs]
         /\ tries' \in [Threads -> 0..(MaxRetries + 1)]
         /\ late' \in [Threads -> BOOLEAN] /\ fired' \in [Threads -> BOOLEAN]
         /\ outcome' \in [Threads -> Outcomes]
BY ClientAssumption DEF StartAttempt, Goto, TypeOK, PCs, Outcomes

\* Every step keeps the types; a retry is bounded by MayRetry.
LEMMA TypeStep == TypeOK /\ TriesCounted /\ [Next]_vars => TypeOK'
<1> SUFFICES ASSUME TypeOK, TriesCounted, [Next]_vars PROVE TypeOK'
  OBVIOUS
<1> USE ClientAssumption DEF breaker, attempt, dns, PCs, Outcomes
<1>1. CASE ClockTicks
  BY <1>1 DEF ClockTicks, TypeOK
<1>2. ASSUME NEW t \in Threads, Request(t) PROVE TypeOK'
  BY <1>2 DEF Request, Goto, TypeOK
<1>3. ASSUME NEW t \in Threads, Allow(t) PROVE TypeOK'
  <2>1. CASE state = "open" /\ age < Recovery
    <3>1. age # Recovery
      BY <2>1 DEF TypeOK
    <3>2. Goto(t, "idle") /\ UNCHANGED <<breaker, tries, attempt, dns>>
      BY <1>3, <2>1, <3>1 DEF Allow, Deny
    <3> QED BY <3>2 DEF Goto, TypeOK
  <2>2. CASE ~(state = "open" /\ age < Recovery)
    <3>1. StartAttempt(t) /\ tries[t] = 0
      BY <1>3, <2>2 DEF Allow, TriesCounted
    <3>2. /\ state' = IF state = "open" THEN "half_open" ELSE state
          /\ UNCHANGED <<age, sock, failures, streak, dns>>
      BY <1>3, <2>2 DEF Allow
    <3> QED BY <3>1, <3>2, StartTyped DEF TypeOK
  <2> QED BY <2>1, <2>2
<1>4. ASSUME NEW t \in Threads, Success(t) PROVE TypeOK'
  BY <1>4 DEF Success, Return, Goto, TypeOK
<1>5. ASSUME NEW t \in Threads, Failure(t) PROVE TypeOK'
  BY <1>5 DEF Failure, Saturated, Return, Goto, TypeOK
<1>6. ASSUME NEW t \in Threads, PutJob(t) PROVE TypeOK'
  BY <1>6 DEF PutJob, Goto, TypeOK
<1>7. ASSUME NEW t \in Threads, ResolveTimesOut(t) PROVE TypeOK'
  BY <1>7, CancelTyped DEF ResolveTimesOut, EndBody, Goto, TypeOK
<1>8. ASSUME NEW t \in Threads, Resolved(t) PROVE TypeOK'
  BY <1>8, CancelTyped DEF Resolved, EndBody, Goto, TypeOK
<1>9. ASSUME NEW t \in Threads, Bind(t) PROVE TypeOK'
  BY <1>9 DEF Bind, EndBody, Goto, TypeOK
<1>10. ASSUME NEW t \in Threads, NextAddress(t) PROVE TypeOK'
  BY <1>10 DEF NextAddress, Goto, TypeOK
<1>11. ASSUME NEW t \in Threads, Interrupted(t) PROVE TypeOK'
  BY <1>11 DEF Interrupted, EndBody, Goto, TypeOK
<1>12. ASSUME NEW t \in Threads, ExitAttempt(t) PROVE TypeOK'
  <2>1. sock' \in [Threads -> {"none", "open", "closed"}] /\ UNCHANGED <<breaker, dns>>
    BY <1>12 DEF ExitAttempt, TypeOK
  <2>2. CASE StartAttempt(t) /\ MayRetry(t)
    BY <2>1, <2>2, StartTyped DEF MayRetry, TypeOK
  <2>3. CASE Return(t) /\ UNCHANGED <<late, fired, outcome>>
    BY <2>1, <2>3 DEF Return, Goto, TypeOK
  <2>4. CASE /\ Goto(t, "ok") \/ Goto(t, "fail")
             /\ UNCHANGED <<tries, late, fired, outcome>>
    BY <2>1, <2>4 DEF Goto, TypeOK
  <2> QED BY <1>12, <2>2, <2>3, <2>4 DEF ExitAttempt
<1>13. ASSUME NEW t \in Threads, DeadlinePasses(t) PROVE TypeOK'
  BY <1>13 DEF DeadlinePasses, TypeOK
<1>14. ASSUME NEW t \in Threads, Watchdog(t) PROVE TypeOK'
  BY <1>14 DEF Watchdog, TypeOK
<1>15. ASSUME NEW t \in Threads, NEW how \in {"success", "retryable", "final"},
              Respond(t, how) PROVE TypeOK'
  BY <1>15 DEF Respond, EndBody, Goto, TypeOK
<1>16. ASSUME NEW w \in Workers, TakeJob(w) PROVE TypeOK'
  <2>1. Head(queue) \in Threads \cup {Gone}
        /\ Tail(queue) \in Seq(Threads \cup {Gone})
    BY <1>16 DEF TakeJob, TypeOK
  <2> QED BY <1>16, <2>1 DEF TakeJob, TypeOK
<1>17. ASSUME NEW w \in Workers, NEW a \in {"addresses", "error"}, Answer(w, a)
       PROVE  TypeOK'
  BY <1>17 DEF Answer, TypeOK
<1>18. CASE UNCHANGED vars
  BY <1>18 DEF vars, TypeOK
<1> QED BY <1>1, <1>2, <1>3, <1>4, <1>5, <1>6, <1>7, <1>8, <1>9, <1>10, <1>11,
           <1>12, <1>13, <1>14, <1>15, <1>16, <1>17, <1>18 DEF Next

\* Only success and failure record an exchange, and they move the count and
\* the state together.
LEMMA CountStep == TypeOK /\ CountAgrees /\ [Next]_vars => CountAgrees'
<1> SUFFICES ASSUME TypeOK, CountAgrees, [Next]_vars PROVE CountAgrees'
  OBVIOUS
<1> USE ClientAssumption DEF breaker, TypeOK, CountAgrees
<1>1. ASSUME NEW t \in Threads, Allow(t) PROVE CountAgrees'
  BY <1>1 DEF Allow
<1>2. ASSUME NEW t \in Threads, Success(t) PROVE CountAgrees'
  BY <1>2 DEF Success
<1>3. ASSUME NEW t \in Threads, Failure(t) PROVE CountAgrees'
  BY <1>3 DEF Failure, Saturated
<1>4. CASE UNCHANGED <<state, failures, streak>>
  BY <1>4
<1> QED BY <1>1, <1>2, <1>3, <1>4
        DEF Next, vars, ClockTicks, Request, PutJob, ResolveTimesOut, Resolved,
            Bind, NextAddress, Interrupted, ExitAttempt, DeadlinePasses,
            Watchdog, Respond, TakeJob, Answer

\* A thread's count, its timer and its socket are its own.
LEMMA AttemptStep ==
  IInv /\ [Next]_vars => (TriesCounted /\ FiredIsLate /\ SocketsDie)'
<1> SUFFICES ASSUME IInv, [Next]_vars
             PROVE  (TriesCounted /\ FiredIsLate /\ SocketsDie)'
  OBVIOUS
<1> DEFINE Goal == (TriesCounted /\ FiredIsLate /\ SocketsDie)'
<1> USE ClientAssumption
    DEF breaker, attempt, IInv, TypeOK, TriesCounted, FiredIsLate, SocketsDie
<1>1. ASSUME NEW t \in Threads, Request(t) PROVE Goal
  BY <1>1 DEF Request, Goto
<1>2. ASSUME NEW t \in Threads, Allow(t) PROVE Goal
  <2>1. CASE state = "open" /\ age < Recovery
    <3>1. age # Recovery
      BY <2>1
    <3>2. pc[t] = "allow" /\ Goto(t, "idle") /\ UNCHANGED <<tries, attempt>>
      BY <1>2, <2>1, <3>1 DEF Allow
    <3> QED BY <3>2 DEF Goto
  <2>2. CASE ~(state = "open" /\ age < Recovery)
    BY <1>2, <2>2 DEF Allow, StartAttempt, Goto
  <2> QED BY <2>1, <2>2
<1>3. ASSUME NEW t \in Threads, Success(t) \/ Failure(t) PROVE Goal
  BY <1>3 DEF Success, Failure, Return, Goto
<1>4. ASSUME NEW t \in Threads, PutJob(t) PROVE Goal
  BY <1>4 DEF PutJob, Goto
<1>5. ASSUME NEW t \in Threads, ResolveTimesOut(t) PROVE Goal
  BY <1>5 DEF ResolveTimesOut, EndBody, Goto
<1>6. ASSUME NEW t \in Threads, Resolved(t) PROVE Goal
  BY <1>6 DEF Resolved, EndBody, Goto
<1>7. ASSUME NEW t \in Threads, Bind(t) PROVE Goal
  BY <1>7 DEF Bind, EndBody, Goto
<1>8. ASSUME NEW t \in Threads, NextAddress(t) PROVE Goal
  BY <1>8 DEF NextAddress, Goto
<1>9. ASSUME NEW t \in Threads, Interrupted(t) PROVE Goal
  BY <1>9 DEF Interrupted, EndBody, Goto
<1>10. ASSUME NEW t \in Threads, ExitAttempt(t) PROVE Goal
  <2>1. /\ sock'[t] = "none" /\ \A x \in Threads \ {t} : sock'[x] = sock[x]
    BY <1>10 DEF ExitAttempt
  <2>2. CASE StartAttempt(t)
    BY <2>1, <2>2 DEF StartAttempt, Goto
  <2>3. CASE Return(t) /\ UNCHANGED <<late, fired, outcome>>
    BY <2>1, <2>3 DEF Return, Goto
  <2>4. CASE /\ Goto(t, "ok") \/ Goto(t, "fail")
             /\ UNCHANGED <<tries, late, fired, outcome>>
    BY <2>1, <2>4 DEF Goto
  <2> QED BY <1>10, <2>2, <2>3, <2>4 DEF ExitAttempt
<1>11. ASSUME NEW t \in Threads, DeadlinePasses(t) PROVE Goal
  BY <1>11 DEF DeadlinePasses
<1>12. ASSUME NEW t \in Threads, Watchdog(t) PROVE Goal
  BY <1>12 DEF Watchdog
<1>13. ASSUME NEW t \in Threads, NEW how \in {"success", "retryable", "final"},
              Respond(t, how) PROVE Goal
  BY <1>13 DEF Respond, EndBody, Goto
<1>14. CASE UNCHANGED <<pc, tries, attempt>>
  BY <1>14
<1> QED BY <1>1, <1>2, <1>3, <1>4, <1>5, <1>6, <1>7, <1>8, <1>9, <1>10, <1>11,
           <1>12, <1>13, <1>14 DEF Next, vars, ClockTicks, TakeJob, Answer

-----------------------------------------------------------------------------
\* The inductive invariant holds in every reachable state.
THEOREM Invariance == Spec => []IInv
<1>1. IInv /\ [Next]_vars => IInv'
  BY TypeStep, CountStep, AttemptStep DEF IInv
<1> QED BY InitIInv, <1>1, PTL DEF Spec

\* Types, which include that no exchange makes more than MaxRetries + 1
\* attempts.
THEOREM TypeCorrect == Spec => []TypeOK
BY Invariance, PTL DEF IInv

\* The circuit is closed exactly while fewer than Threshold exchanges have
\* failed since the last success, for every interleaving of late answers.
THEOREM ClosedIffHealthy == Spec => []ClosedWhileHealthy
<1>1. IInv => ClosedWhileHealthy
  BY DEF IInv, CountAgrees, ClosedWhileHealthy
<1> QED BY Invariance, <1>1, PTL

\* No socket is open after its watchdog has run or outside an attempt.
THEOREM NoSocketOutlives == Spec => []SocketsDie
BY Invariance, PTL DEF IInv
=============================================================================
