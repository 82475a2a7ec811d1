----------------------------- MODULE TokenBucket -----------------------------
(***************************************************************************)
(* struct TokenBucket of the server: the limiter of connections per        *)
(* address and of signaling commands per client. A bucket is a value,      *)
(* try_consume an operator on it and the present instant.                  *)
(*                                                                         *)
(* Time is counted in ticks and tokens in parts of a token, both integers  *)
(* in place of the code's f64: Rate parts flow in per tick, Unit parts are *)
(* one token. What rounding does to the last bit is left out.              *)
(***************************************************************************)
EXTENDS Integers

CONSTANTS
    Unit,      \* the parts of one token
    Rate,      \* parts per tick: connect_rate_per_ip or signal_rate
    Capacity   \* parts: connect_burst_per_ip or signal_burst

\* ServerConfig::validate refuses a rate or a burst of 0.
ASSUME BucketConstants ==
    /\ Unit \in Nat \ {0}
    /\ Rate \in Nat \ {0}
    /\ Capacity \in Nat /\ Capacity >= Unit

Buckets == [tokens : 0..Capacity, last_refill : Nat]

\* TokenBucket::new.
FullBucket(now) == [tokens |-> Capacity, last_refill |-> now]

Capped(tokens) == IF tokens > Capacity THEN Capacity ELSE tokens

\* The tokens at an instant, up to the capacity.
Refilled(b, now) == Capped(b.tokens + (now - b.last_refill) * Rate)

\* try_consume: it returns CanConsume, and leaves Consumed.
CanConsume(b, now) == Refilled(b, now) >= Unit

Consumed(b, now) ==
    [tokens |-> IF CanConsume(b, now) THEN Refilled(b, now) - Unit ELSE Refilled(b, now),
     last_refill |-> now]
=============================================================================
