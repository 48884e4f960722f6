--------------------------- MODULE LoginThrottle ---------------------------
(***************************************************************************)
(* The throttle in front of the identity routes (IdentityService.throttle  *)
(* and the chain of throttles a login passes).  A row of identity_throttle *)
(* counts the hits of one scope and key in a fixed window that opens with  *)
(* the first hit.  The clock is read before the transaction opens, and a   *)
(* request may wait for the database lock in between.                      *)
(*                                                                         *)
(* Time is counted in ticks, PerSecond of them make a second: the expiry   *)
(* is a float, the answer to a refused client is in whole seconds.         *)
(***************************************************************************)
EXTENDS Integers, Sequences, FiniteSets

CONSTANTS
  Requests,  \* requests under way at a time
  Accounts,  \* login names
  Limit,     \* hits per window: [{"login", "login-total", "login-account"} -> Nat]
  Window,    \* window_seconds, in ticks
  PerSecond, \* ticks per second
  Waits,     \* longest waits for the database lock that are looked at, in ticks
  MaxTime    \* bound: ticks explored, for each of Waits

\* The throttles of one login, in the order it passes them: the route's for
\* the peer, the service's for everybody and for the account.  All requests
\* come from one peer.
Chain(a) == <<<<"login", "peer">>, <<"login-total", "local">>, <<"login-account", a>>>>

Keys == {<<"login", "peer">>, <<"login-total", "local">>}
          \cup {<<"login-account", a>> : a \in Accounts}

VARIABLES
  now,      \* time.time()
  rows,     \* identity_throttle: hits and expires_at, hits = 0 for no row
  req,      \* each request: its account, the throttle it is at, the clock it has read
  granted,  \* history: the requests that each key let pass within the last window
  refused,  \* history: last refusal of each key and the end of its Retry-After
  wait      \* the longest wait for the lock: a request that waits longer fails

vars == <<now, rows, req, granted, refused, wait>>

NoRow == [hits |-> 0, expires |-> 0]
Idle == [account |-> "none", at |-> 0, clock |-> -1]

\* The request that key k lets pass now, told from others of this tick.
Pass(k) == [time |-> now, nth |-> Cardinality({g \in granted[k] : g.time = now})]

TypeOK ==
  /\ now \in 0..MaxTime[wait]
  /\ rows \in [Keys -> [hits : Nat, expires : 0..(now + Window)]]
  /\ \A k \in Keys : rows[k].hits <= Limit[k[1]]
  /\ req \in [Requests -> [account : Accounts \cup {"none"}, at : 0..3, clock : -1..now]]
  /\ \A k \in Keys : Pass(k) \notin granted[k]

Init ==
  /\ now = 0
  /\ rows = [k \in Keys |-> NoRow]
  /\ req = [r \in Requests |-> Idle]
  /\ granted = [k \in Keys |-> {}]
  /\ refused = [k \in Keys |-> [expires |-> 0, until |-> 0]]
  /\ wait \in Waits

\* Nobody waits for the lock longer than its timeout.
Tick ==
  /\ now < MaxTime[wait]
  /\ \A r \in Requests : req[r].clock >= 0 => now + 1 - req[r].clock <= wait
  /\ now' = now + 1
  /\ granted' = [k \in Keys |-> {g \in granted[k] : g.time + Window > now + 1}]
  /\ UNCHANGED <<rows, req, refused, wait>>

Start(r, a) ==
  /\ req[r] = Idle
  /\ req' = [req EXCEPT ![r] = [account |-> a, at |-> 1, clock |-> -1]]
  /\ UNCHANGED <<now, rows, granted, refused, wait>>

\* now = time.time(), then BEGIN IMMEDIATE.
ReadClock(r) ==
  /\ req[r].at > 0 /\ req[r].clock = -1
  /\ req' = [req EXCEPT ![r].clock = now]
  /\ UNCHANGED <<now, rows, granted, refused, wait>>

\* Mutant of Purged: a row goes a tick early.
PurgedEarly(clock) ==
  [k \in Keys |-> IF rows[k].expires <= clock + 1 THEN NoRow ELSE rows[k]]

\* DELETE ... WHERE expires_at <= now, for every scope and key.
Purged(clock) ==
  [k \in Keys |-> IF rows[k].expires <= clock THEN NoRow ELSE rows[k]]

\* Mutant of RetryAfter: rounded down.
RetryAfterFloor(expires, clock) ==
  LET left == (expires - clock) \div PerSecond IN IF left < 1 THEN 1 ELSE left

\* max(1, ceil(expires_at - now)) seconds.
RetryAfter(expires, clock) ==
  LET left == (expires - clock + PerSecond - 1) \div PerSecond IN IF left < 1 THEN 1 ELSE left

\* Mutant of Full: one hit too many.
FullPast(row, k) == row.hits > Limit[k[1]]

Full(row, k) == row.hits >= Limit[k[1]]

\* A first hit opens a window; later ones only count.
Counted(row, clock) ==
  IF row.hits = 0 THEN [hits |-> 1, expires |-> clock + Window]
  ELSE [row EXCEPT !.hits = @ + 1]

\* The transaction of one throttle.  A request that a later throttle refuses
\* has been counted by the earlier ones.
Throttle(r) ==
  LET k == Chain(req[r].account)[req[r].at]
      clock == req[r].clock
      purged == Purged(clock)
      row == purged[k]
  IN  /\ req[r].at > 0 /\ clock >= 0
      /\ \/ /\ Full(row, k)
            /\ rows' = purged
            /\ refused' = [refused EXCEPT ![k] =
                 [expires |-> row.expires,
                  until |-> now + PerSecond * RetryAfter(row.expires, clock)]]
            /\ req' = [req EXCEPT ![r] = Idle]
            /\ UNCHANGED granted
         \/ /\ ~Full(row, k)
            /\ rows' = [purged EXCEPT ![k] = Counted(row, clock)]
            /\ granted' = [granted EXCEPT ![k] = @ \cup {Pass(k)}]
            /\ req' = [req EXCEPT ![r] =
                 IF @.at = 3 THEN Idle ELSE [account |-> @.account, at |-> @.at + 1, clock |-> -1]]
            /\ UNCHANGED refused
      /\ UNCHANGED <<now, wait>>

Next ==
  \/ Tick
  \/ \E r \in Requests : ReadClock(r) \/ Throttle(r) \/ \E a \in Accounts : Start(r, a)

Spec == Init /\ [][Next]_vars

-----------------------------------------------------------------------------
(* Properties *)

Within(k, from, span) ==
  Cardinality({g \in granted[k] : g.time \in from..(from + span - 1)})

\* Although windows are fixed and their clock may be stale, no key lets more
\* than two windows' worth of requests pass in any span of one window less
\* the longest wait for the lock.
SlidingBound ==
  \A k \in Keys : \A t \in 0..now : Within(k, t, Window - wait) <= 2 * Limit[k[1]]

\* Without a wait the first hit of a window is outside of every such span
\* that reaches into the next one.
SlidingBoundExact ==
  wait = 0 =>
    \A k \in Keys : \A t \in 0..now : Within(k, t, Window) <= 2 * Limit[k[1]] - 1

\* A client that waits as long as Retry-After says is not refused by the same
\* window again.
RetryAfterHolds ==
  \A k \in Keys :
    (refused[k].until > 0 /\ now >= refused[k].until) => refused[k].expires <= now
=============================================================================
