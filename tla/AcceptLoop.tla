----------------------------- MODULE AcceptLoop -----------------------------
(***************************************************************************)
(* accept_loop: a table of token buckets by address. Buckets are made when *)
(* an address first connects, and every CleanupTicks the next attempt, of  *)
(* whomever, drops those that would be full by now.                        *)
(*                                                                         *)
(* The two or three readings of the clock in one round of the loop are one *)
(* instant here; the clock does not go back (Instant is monotonic).        *)
(***************************************************************************)
EXTENDS TokenBucket

CONSTANTS
    IP,            \* the addresses that connect
    CleanupTicks,  \* 60 seconds
    MaxNow         \* bound: the ticks of a behaviour

ASSUME AcceptConstants == CleanupTicks \in Nat /\ MaxNow \in Nat

VARIABLES
    now,           \* Instant::now()
    conn_buckets,  \* the table: a function on the addresses it holds
    last_cleanup,
    outcome,       \* the last attempt: whose, and whether it was granted
    granted,       \* history: connections granted since a window opened
    elapsed        \* history: ticks since then

accept_vars == <<now, conn_buckets, last_cleanup, outcome, granted, elapsed>>

Held == DOMAIN conn_buckets

AcceptTypeOK ==
    /\ now \in Nat /\ last_cleanup \in 0..now
    /\ Held \subseteq IP
    /\ \A ip \in Held : conn_buckets[ip] \in Buckets /\ conn_buckets[ip].last_refill <= now
    /\ outcome \in {<<>>} \cup (IP \X BOOLEAN)
    /\ granted \in [IP -> Nat]
    /\ elapsed \in 0..now

AcceptInit ==
    /\ now = 0
    /\ conn_buckets = [ip \in {} |-> FullBucket(0)]
    /\ last_cleanup = 0
    /\ outcome = <<>>
    /\ granted = [ip \in IP |-> 0]
    /\ elapsed = 0

-----------------------------------------------------------------------------
CleanupDue == now - last_cleanup > CleanupTicks

\* Mutant of Stale: whoever has not connected since the last cleanup.
StaleByAge(ip) == conn_buckets[ip].last_refill <= last_cleanup

\* The bucket would be full by now (the refill here is not capped).
Stale(ip) ==
    conn_buckets[ip].tokens + (now - conn_buckets[ip].last_refill) * Rate >= Capacity

\* The addresses whose buckets outlive the cleanup, if there is one.
Surviving == IF CleanupDue THEN {ip \in Held : ~Stale(ip)} ELSE Held

\* entry(ip).or_insert_with(TokenBucket::new).
BucketOf(ip) == IF ip \in Surviving THEN conn_buckets[ip] ELSE FullBucket(now)

\* Mutant of Accept: a refused attempt puts a new bucket in the table.
AcceptRenewing(ip) ==
    /\ outcome' = <<ip, CanConsume(BucketOf(ip), now)>>
    /\ granted' = [granted EXCEPT ![ip] =
                      IF CanConsume(BucketOf(ip), now) THEN @ + 1 ELSE @]
    /\ conn_buckets' = [i \in Surviving \cup {ip} |->
                          IF i # ip THEN conn_buckets[i]
                          ELSE IF CanConsume(BucketOf(ip), now)
                               THEN Consumed(BucketOf(ip), now) ELSE FullBucket(now)]
    /\ last_cleanup' = IF CleanupDue THEN now ELSE last_cleanup
    /\ UNCHANGED <<now, elapsed>>

\* One round of the loop: an attempt from an address is handed to a new
\* handler or refused.
Accept(ip) ==
    /\ outcome' = <<ip, CanConsume(BucketOf(ip), now)>>
    /\ granted' = [granted EXCEPT ![ip] =
                      IF CanConsume(BucketOf(ip), now) THEN @ + 1 ELSE @]
    /\ conn_buckets' = [i \in Surviving \cup {ip} |->
                          IF i = ip THEN Consumed(BucketOf(ip), now) ELSE conn_buckets[i]]
    /\ last_cleanup' = IF CleanupDue THEN now ELSE last_cleanup
    /\ UNCHANGED <<now, elapsed>>

\* Time passes.
Elapse ==
    /\ now < MaxNow
    /\ now' = now + 1
    /\ elapsed' = elapsed + 1
    /\ UNCHANGED <<conn_buckets, last_cleanup, outcome, granted>>

\* History only: start counting here.
OpenWindow ==
    /\ granted' = [ip \in IP |-> 0]
    /\ elapsed' = 0
    /\ UNCHANGED <<now, conn_buckets, last_cleanup, outcome>>

AcceptNext == (\E ip \in IP : Accept(ip)) \/ Elapse \/ OpenWindow

AcceptSpec == AcceptInit /\ [][AcceptNext]_accept_vars

-----------------------------------------------------------------------------
(* Properties. *)

\* Over any window, from whenever it opens, an address is granted at most a
\* burst of connections and the rate times the time that has passed, though
\* its bucket may have been dropped and made anew in between.
WindowBound ==
    \A ip \in IP : granted[ip] * Unit <= Capacity + elapsed * Rate

Level(ip) == IF ip \in Held THEN Refilled(conn_buckets[ip], now) ELSE Capacity

Limit == INSTANCE ConnectLimit WITH level <- [ip \in IP |-> Level(ip)]

\* The cleanup of the table and the lazy refill cannot be observed: the loop
\* grants and refuses as if every address had kept its bucket for ever.
ImplementsLimit == Limit!LimitSpec
=============================================================================
