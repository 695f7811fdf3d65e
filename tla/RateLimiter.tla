---------------------------- MODULE RateLimiter ----------------------------
(***************************************************************************)
(* The limit on requests of one address (api/middleware/ratelimit.go).     *)
(* Time counts in ticks of the clock, Window of them to a window.          *)
(***************************************************************************)
EXTENDS Naturals

CONSTANTS
    Addresses,   \* addresses requests come from
    Limit,       \* requests a window allows
    Window,      \* its length
    MaxTime,     \* bound: the clock stops here
    MaxAttempts, \* bound: requests counted in one window
    NoAttempt    \* no entry in the map

ASSUME RateAssumption ==
    /\ Limit \in Nat \ {0} /\ Window \in Nat /\ MaxTime \in Nat /\ MaxAttempts \in Nat
    /\ NoAttempt \notin [count : Nat, first : Nat]

VARIABLES
    now,
    attempts,   \* by address, NoAttempt where the map has no entry
    served      \* history: requests let through, by address and by the time
                \* the entry that counted them was made

rateVars == <<now, attempts, served>>

Times == 0 .. MaxTime

Entry(ip) == attempts[ip] # NoAttempt

Expired(ip) == now - attempts[ip].first > Window

Serve(ip, first) == served' = [served EXCEPT ![ip][first] = @ + 1]

(* Mutant: the last tick of a window is outside of it. *)
FreshEarly(ip) ==
    /\ Entry(ip) => now - attempts[ip].first >= Window
    /\ attempts' = [attempts EXCEPT ![ip] = [count |-> 1, first |-> now]]
    /\ Serve(ip, now)
    /\ UNCHANGED now

(* Middleware: the first request, or the first after a window, opens one;   *)
Fresh(ip) ==
    /\ Entry(ip) => Expired(ip)
    /\ attempts' = [attempts EXCEPT ![ip] = [count |-> 1, first |-> now]]
    /\ Serve(ip, now)
    /\ UNCHANGED now

(* any other is counted, and refused beyond the limit. *)
Counted(ip) ==
    /\ Entry(ip) /\ ~Expired(ip) /\ attempts[ip].count < MaxAttempts
    /\ attempts' = [attempts EXCEPT ![ip].count = @ + 1]
    /\ IF attempts[ip].count < Limit
       THEN Serve(ip, attempts[ip].first)
       ELSE UNCHANGED served
    /\ UNCHANGED now

(* cleanup, every five minutes. *)
Cleanup ==
    /\ attempts' = [ip \in Addresses |->
            IF Entry(ip) /\ Expired(ip) THEN NoAttempt ELSE attempts[ip]]
    /\ UNCHANGED <<now, served>>

Tick == now < MaxTime /\ now' = now + 1 /\ UNCHANGED <<attempts, served>>

RateInit ==
    /\ now = 0
    /\ attempts = [ip \in Addresses |-> NoAttempt]
    /\ served = [ip \in Addresses |-> [f \in Times |-> 0]]

RateNext == (\E ip \in Addresses : Fresh(ip) \/ Counted(ip)) \/ Cleanup \/ Tick

RateSpec == RateInit /\ [][RateNext]_rateVars

-----------------------------------------------------------------------------
(* Properties *)

RateTypeOK ==
    /\ now \in Times
    /\ attempts \in [Addresses -> [count : Nat \ {0}, first : Times] \cup {NoAttempt}]
    /\ served \in [Addresses -> [Times -> Nat]]

(* What the limit is for: the requests let through fall into windows that   *)
(* begin more than a window apart, at most Limit in each.  So no period of   *)
(* that length lets through more than twice the limit, however requests,    *)
(* the clock and the clean-up interleave.                                   *)
ServedApart ==
    \A ip \in Addresses, f \in Times :
        served[ip][f] > 0 =>
            /\ served[ip][f] <= Limit
            /\ \A g \in Times : g > f /\ served[ip][g] > 0 => g - f > Window

=============================================================================
