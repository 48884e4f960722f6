--------------------------- MODULE NetworkClient ---------------------------
(***************************************************************************)
(* ResilientJSONClient (network_resilience.py) with its circuit breaker,   *)
(* and the attempt deadline and DNS pool of network_deadline.py: threads   *)
(* share the breaker of one origin and the process-wide resolver workers.  *)
(* Every attempt runs under a watchdog timer that closes its socket.       *)
(*                                                                         *)
(* Receipts, digests and the payload are left out; an answer of the server *)
(* is only whether the exchange succeeded and whether it may be retried.   *)
(***************************************************************************)
EXTENDS Naturals, Sequences

CONSTANTS
  Threads,
  Workers,     \* _DNS_WORKERS, also the size of their queue in the code
  QueueSize,
  MaxRetries,  \* HTTPClientPolicy.max_retries
  Threshold,   \* HTTPClientPolicy.circuit_failure_threshold
  Recovery,    \* circuit_recovery_seconds, in units of the clock
  None, Gone   \* no job; a job whose caller has left (cancelled)

ASSUME ClientAssumption ==
  /\ MaxRetries \in Nat
  /\ Threshold \in Nat \ {0} /\ Recovery \in Nat \ {0} /\ QueueSize \in Nat \ {0}
  /\ None \notin Threads /\ Gone \notin Threads /\ None # Gone

VARIABLES
  state,     \* CircuitBreaker._state
  failures,  \* CircuitBreaker._failures, which stops at Threshold here: larger
             \* counts act alike
  age,       \* clock since _opened_at, which stops at Recovery for that reason
  streak,    \* exchanges that failed since the last one that succeeded, up to
             \* Threshold (history, not in the code)
  pc,        \* what each thread does next
  tries,     \* attempts the thread has started in this exchange
  late,      \* the deadline of the attempt has passed
  fired,     \* its watchdog has run
  sock,      \* the socket the deadline owns
  outcome,   \* how the body of the attempt ended
  answer,    \* what the resolver told the thread
  queue,     \* _dns_jobs
  worker     \* the job each resolver worker is blocked in

breaker == <<state, failures, age, streak>>
attempt == <<late, fired, sock, outcome>>
dns == <<answer, queue, worker>>
vars == <<breaker, pc, tries, attempt, dns>>

PCs == {"idle", "allow", "put", "wait", "connect", "io", "exit", "ok", "fail"}
InAttempt == {"put", "wait", "connect", "io", "exit"}
Outcomes == {"none", "success", "retryable", "final", "escape"}

TypeOK ==
  /\ state \in {"closed", "open", "half_open"}
  /\ failures \in 0..Threshold
  /\ age \in 0..Recovery
  /\ streak \in 0..Threshold
  /\ pc \in [Threads -> PCs]
  /\ tries \in [Threads -> 0..(MaxRetries + 1)]
  /\ late \in [Threads -> BOOLEAN]
  /\ fired \in [Threads -> BOOLEAN]
  /\ sock \in [Threads -> {"none", "open", "closed"}]
  /\ outcome \in [Threads -> Outcomes]
  /\ answer \in [Threads -> {"none", "addresses", "error"}]
  /\ queue \in Seq(Threads \cup {Gone})
  /\ worker \in [Workers -> Threads \cup {None, Gone}]

Init ==
  /\ state = "closed" /\ failures = 0 /\ age = 0 /\ streak = 0
  /\ pc = [t \in Threads |-> "idle"]
  /\ tries = [t \in Threads |-> 0]
  /\ late = [t \in Threads |-> FALSE]
  /\ fired = [t \in Threads |-> FALSE]
  /\ sock = [t \in Threads |-> "none"]
  /\ outcome = [t \in Threads |-> "none"]
  /\ answer = [t \in Threads |-> "none"]
  /\ queue = <<>>
  /\ worker = [w \in Workers |-> None]

Goto(t, label) == pc' = [pc EXCEPT ![t] = label]

-----------------------------------------------------------------------------
(***************************************************************************)
(* CircuitBreaker, each method under its lock.                             *)
(***************************************************************************)
Saturated(n) == IF n < Threshold THEN n + 1 ELSE n

ClockTicks ==
  /\ state = "open" /\ age < Recovery
  /\ age' = age + 1
  /\ UNCHANGED <<state, failures, streak, pc, tries, attempt, dns>>

\* Mutant of Deny: a refused request starts the waiting time again.
DenyRearms == age' = 0

Deny == UNCHANGED age

\* A new attempt: its deadline and its watchdog start.
StartAttempt(t) ==
  /\ Goto(t, "put")
  /\ tries' = [tries EXCEPT ![t] = @ + 1]
  /\ late' = [late EXCEPT ![t] = FALSE]
  /\ fired' = [fired EXCEPT ![t] = FALSE]
  /\ outcome' = [outcome EXCEPT ![t] = "none"]

Request(t) ==
  /\ pc[t] = "idle"
  /\ Goto(t, "allow")
  /\ UNCHANGED <<breaker, tries, attempt, dns>>

\* allow(): an open circuit refuses until the recovery time has passed, and
\* then lets every request through as half open.
Allow(t) ==
  /\ pc[t] = "allow"
  /\ \/ /\ state = "open" /\ age < Recovery
        /\ Deny
        /\ Goto(t, "idle")
        /\ UNCHANGED <<state, tries, attempt>>
     \/ /\ state = "open" => age = Recovery
        /\ state' = IF state = "open" THEN "half_open" ELSE state
        /\ StartAttempt(t)
        /\ UNCHANGED <<age, sock>>
  /\ UNCHANGED <<failures, streak, dns>>

\* The exchange is over, recorded or not.
Return(t) ==
  /\ Goto(t, "idle")
  /\ tries' = [tries EXCEPT ![t] = 0]

\* Mutant of Success: the count of failures survives.
SuccessKeepsCount(t) ==
  /\ pc[t] = "ok"
  /\ state' = "closed" /\ age' = 0 /\ streak' = 0
  /\ Return(t)
  /\ UNCHANGED <<failures, attempt, dns>>

Success(t) ==
  /\ pc[t] = "ok"
  /\ state' = "closed" /\ failures' = 0 /\ age' = 0 /\ streak' = 0
  /\ Return(t)
  /\ UNCHANGED <<attempt, dns>>

\* failure(): a failure while half open opens again; otherwise it counts, and a
\* late one starts the waiting time of a circuit that is already open again.
Failure(t) ==
  /\ pc[t] = "fail"
  /\ streak' = Saturated(streak)
  /\ failures' = IF state = "half_open" THEN failures ELSE Saturated(failures)
  /\ IF state = "half_open" \/ failures' = Threshold
     THEN state' = "open" /\ age' = 0
     ELSE UNCHANGED <<state, age>>
  /\ Return(t)
  /\ UNCHANGED <<attempt, dns>>

-----------------------------------------------------------------------------
(***************************************************************************)
(* One attempt under its AttemptDeadline.                                  *)
(***************************************************************************)

\* The body ends, normally or by an exception; __exit__ runs next.
EndBody(t, how) ==
  /\ Goto(t, "exit")
  /\ outcome' = [outcome EXCEPT ![t] = how]

\* job.cancelled.set(), and the answer is not looked at again.
CancelJob(t) ==
  LET Left(j) == IF j = t THEN Gone ELSE j IN
  /\ queue' = [i \in DOMAIN queue |-> Left(queue[i])]
  /\ worker' = [w \in Workers |-> Left(worker[w])]
  /\ answer' = [answer EXCEPT ![t] = "none"]

\* _dns_jobs.put: blocks while the queue is full.
PutJob(t) ==
  /\ pc[t] = "put" /\ ~late[t]
  /\ Len(queue) < QueueSize
  /\ queue' = Append(queue, t)
  /\ Goto(t, "wait")
  /\ UNCHANGED <<breaker, tries, attempt, answer, worker>>

\* The deadline passes in front of a full queue or of a silent resolver.
ResolveTimesOut(t) ==
  /\ pc[t] \in {"put", "wait"} /\ late[t]
  /\ CancelJob(t)
  /\ EndBody(t, "retryable")
  /\ UNCHANGED <<breaker, tries, late, fired, sock>>

\* The resolver answered in time.  A name that does not resolve, and addresses
\* that the policy forbids, leave request_json without a receipt.
Resolved(t) ==
  /\ pc[t] = "wait" /\ ~late[t] /\ answer[t] # "none"
  /\ \/ /\ answer[t] = "addresses"
        /\ Goto(t, "connect")
        /\ UNCHANGED outcome
     \/ EndBody(t, "escape")
  /\ CancelJob(t)
  /\ UNCHANGED <<breaker, tries, late, fired, sock>>

\* Mutant of Bind: the deadline is not looked at again under the lock.
BindUnchecked(t) ==
  /\ pc[t] = "connect"
  /\ sock' = [sock EXCEPT ![t] = "open"]
  /\ Goto(t, "io")
  /\ UNCHANGED <<breaker, tries, late, fired, outcome, dns>>

\* AttemptDeadline.bind of the next address's socket, and again of the TLS one.
Bind(t) ==
  /\ pc[t] = "connect"
  /\ IF late[t]
     THEN EndBody(t, "retryable") /\ UNCHANGED sock
     ELSE /\ sock' = [sock EXCEPT ![t] = "open"]
          /\ Goto(t, "io")
          /\ UNCHANGED outcome
  /\ UNCHANGED <<breaker, tries, late, fired, dns>>

\* The address does not connect; the next one is tried.
NextAddress(t) ==
  /\ pc[t] = "io" /\ ~late[t]
  /\ sock' = [sock EXCEPT ![t] = "closed"]
  /\ Goto(t, "connect")
  /\ UNCHANGED <<breaker, tries, late, fired, outcome, dns>>

\* The exchange with the server ends, well or badly.
Respond(t, how) ==
  /\ pc[t] = "io" /\ sock[t] = "open"
  /\ EndBody(t, how)
  /\ UNCHANGED <<breaker, tries, late, fired, sock, dns>>

\* Blocked I/O returns because the watchdog has closed the socket.
Interrupted(t) ==
  /\ pc[t] = "io" /\ sock[t] = "closed"
  /\ EndBody(t, "retryable")
  /\ UNCHANGED <<breaker, tries, late, fired, sock, dns>>

DeadlinePasses(t) ==
  /\ pc[t] \in InAttempt /\ ~late[t]
  /\ late' = [late EXCEPT ![t] = TRUE]
  /\ UNCHANGED <<breaker, pc, tries, fired, sock, outcome, dns>>

\* Mutant of Watchdog: the event is set and the socket is left alone.
WatchdogOnlyFlags(t) ==
  /\ pc[t] \in InAttempt /\ late[t] /\ ~fired[t]
  /\ fired' = [fired EXCEPT ![t] = TRUE]
  /\ UNCHANGED <<breaker, pc, tries, late, sock, outcome, dns>>

\* _expire, in the timer's own thread, under the deadline's lock.
Watchdog(t) ==
  /\ pc[t] \in InAttempt /\ late[t] /\ ~fired[t]
  /\ fired' = [fired EXCEPT ![t] = TRUE]
  /\ sock' = [sock EXCEPT ![t] = IF @ = "open" THEN "closed" ELSE @]
  /\ UNCHANGED <<breaker, pc, tries, late, outcome, dns>>

\* Mutant of MayRetry: one attempt more than the policy allows.
RetriesOnceMore(t) == tries[t] <= MaxRetries + 1

\* index < max_retries
MayRetry(t) == tries[t] <= MaxRetries

\* __exit__ closes the socket and turns whatever happened into a timeout when
\* the deadline has passed; then the loop of request_json goes on.
ExitAttempt(t) ==
  LET result == IF late[t] THEN "retryable" ELSE outcome[t] IN
  /\ pc[t] = "exit"
  /\ sock' = [sock EXCEPT ![t] = "none"]
  /\ \/ /\ result = "success"
        /\ Goto(t, "ok") /\ UNCHANGED <<tries, late, fired, outcome>>
     \/ /\ result = "escape"
        /\ Return(t) /\ UNCHANGED <<late, fired, outcome>>
     \/ /\ result = "retryable" /\ MayRetry(t)
        /\ StartAttempt(t)
     \/ /\ result = "final" \/ (result = "retryable" /\ ~MayRetry(t))
        /\ Goto(t, "fail") /\ UNCHANGED <<tries, late, fired, outcome>>
  /\ UNCHANGED <<breaker, dns>>

-----------------------------------------------------------------------------
(***************************************************************************)
(* _dns_worker.                                                            *)
(***************************************************************************)

\* A job that is cancelled or past its deadline is dropped.
TakeJob(w) ==
  LET j == Head(queue) IN
  /\ worker[w] = None /\ queue # <<>>
  /\ queue' = Tail(queue)
  /\ worker' = [worker EXCEPT ![w] =
       IF j = Gone THEN None ELSE IF late[j] THEN None ELSE j]
  /\ UNCHANGED <<breaker, pc, tries, attempt, answer>>

\* getaddrinfo returns; nobody knows when.
Answer(w, a) ==
  LET j == worker[w] IN
  /\ j # None
  /\ answer' = IF j = Gone THEN answer ELSE [answer EXCEPT ![j] = a]
  /\ worker' = [worker EXCEPT ![w] = None]
  /\ UNCHANGED <<breaker, pc, tries, attempt, queue>>

-----------------------------------------------------------------------------
Next ==
  \/ ClockTicks
  \/ \E t \in Threads :
       \/ Request(t) \/ Allow(t) \/ Success(t) \/ Failure(t)
       \/ PutJob(t) \/ ResolveTimesOut(t) \/ Resolved(t)
       \/ Bind(t) \/ NextAddress(t) \/ Interrupted(t) \/ ExitAttempt(t)
       \/ DeadlinePasses(t) \/ Watchdog(t)
       \/ \E how \in {"success", "retryable", "final"} : Respond(t, how)
  \/ \E w \in Workers : TakeJob(w) \/ \E a \in {"addresses", "error"} : Answer(w, a)

Spec == Init /\ [][Next]_vars

\* Threads and timers run and time passes, and somebody keeps asking.  Nothing
\* is assumed of the resolver or of the server: getaddrinfo and the socket may
\* stay silent for ever.
FairSpec ==
  /\ Spec
  /\ WF_vars(ClockTicks)
  /\ \A t \in Threads :
       /\ WF_vars(Request(t)) /\ WF_vars(Allow(t))
       /\ WF_vars(Success(t)) /\ WF_vars(Failure(t))
       /\ WF_vars(ResolveTimesOut(t)) /\ WF_vars(Bind(t))
       /\ WF_vars(Interrupted(t)) /\ WF_vars(ExitAttempt(t))
       /\ WF_vars(DeadlinePasses(t)) /\ WF_vars(Watchdog(t))

-----------------------------------------------------------------------------
(***************************************************************************)
(* Properties.                                                             *)
(***************************************************************************)

\* The circuit is closed exactly while fewer than Threshold exchanges have
\* failed since one last succeeded, however the answers of requests admitted
\* before and after it opened interleave.
ClosedWhileHealthy == state = "closed" <=> streak < Threshold

\* No socket outlives its deadline: once the watchdog has run, and outside an
\* attempt, there is none open, although binding and expiry race.
SocketsDie ==
  \A t \in Threads : sock[t] = "open" => pc[t] \in {"io", "exit"} /\ ~fired[t]

\* Every request returns, even when all resolver workers are stuck and the
\* server never answers.
RequestsEnd == \A t \in Threads : pc[t] # "idle" ~> pc[t] = "idle"

\* An open circuit lets somebody try again, although requests admitted earlier
\* may still fail and start the waiting time again.
OpenRecovers == state = "open" ~> state # "open"

\* Both: neither a request nor an open circuit lasts for ever.
NetworkRecovers == RequestsEnd /\ OpenRecovers
=============================================================================
