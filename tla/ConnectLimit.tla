---------------------------- MODULE ConnectLimit ----------------------------
(***************************************************************************)
(* What the accept loop promises: every address has a bucket of its own    *)
(* for all time, full at the start, which each connection attempt asks for *)
(* one token. No table, no clean-up, no time of last refill.               *)
(*                                                                         *)
(* A window is any stretch of time over which the connections granted to   *)
(* an address are counted; when it opens is left open.                     *)
(***************************************************************************)
EXTENDS Integers

CONSTANTS IP, Unit, Rate, Capacity

VARIABLES
    level,    \* the parts of a token each address has at this instant
    outcome,  \* the last attempt: whose, and whether it was granted
    granted,  \* connections granted to each address since the window opened
    elapsed   \* ticks since the window opened

limit_vars == <<level, outcome, granted, elapsed>>

LimitInit ==
    /\ level = [ip \in IP |-> Capacity]
    /\ outcome = <<>>
    /\ granted = [ip \in IP |-> 0]
    /\ elapsed = 0

Grant(ip) ==
    /\ level[ip] >= Unit
    /\ level' = [level EXCEPT ![ip] = @ - Unit]
    /\ outcome' = <<ip, TRUE>>
    /\ granted' = [granted EXCEPT ![ip] = @ + 1]
    /\ UNCHANGED elapsed

Refuse(ip) ==
    /\ level[ip] < Unit
    /\ outcome' = <<ip, FALSE>>
    /\ UNCHANGED <<level, granted, elapsed>>

Refill ==
    /\ level' = [ip \in IP |->
                    IF level[ip] + Rate > Capacity THEN Capacity ELSE level[ip] + Rate]
    /\ elapsed' = elapsed + 1
    /\ UNCHANGED <<outcome, granted>>

OpenLimitWindow ==
    /\ granted' = [ip \in IP |-> 0]
    /\ elapsed' = 0
    /\ UNCHANGED <<level, outcome>>

LimitNext == (\E ip \in IP : Grant(ip) \/ Refuse(ip)) \/ Refill \/ OpenLimitWindow

LimitSpec == LimitInit /\ [][LimitNext]_limit_vars
=============================================================================
