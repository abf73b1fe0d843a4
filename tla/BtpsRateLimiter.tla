-------------------------- MODULE BtpsRateLimiter --------------------------
(***************************************************************************)
(* BtpsSimpleRateLimiter: a counter for each key, with the start of the    *)
(* window it counts in.  A window lasts until a request finds it older     *)
(* than Window, and a timer throws the counters of old windows away.       *)
(***************************************************************************)
EXTENDS Naturals

CONSTANTS
    Keys,      \* what is counted: an address or an identity
    Limit,     \* ipLimitPerSec or identityLimitPerSec, for each of them
    Window,    \* the 1000 ms
    None       \* JavaScript's undefined

ASSUME LimitAssumption  == Limit \in [Keys -> Nat]
ASSUME WindowAssumption == Window \in Nat

Counters == [count : Nat, windowStart : Nat]

ASSUME NoCounterAssumption == None \notin Counters

\* windowStart < now - 1000
IsOld(counter, now) == counter.windowStart + Window < now

\* Whether a request at `now` starts a window of its own
StartsWindow(counter, now) == counter = None \/ IsOld(counter, now)

\* isAllowed(): the answer, and the counter it leaves
IsAllowed(key, counter, now) ==
    StartsWindow(counter, now) \/ counter.count < Limit[key]

Counted(key, counter, now) ==
    IF StartsWindow(counter, now) THEN [count |-> 1, windowStart |-> now]
    ELSE IF counter.count < Limit[key]
    THEN [counter EXCEPT !.count = @ + 1]
    ELSE counter

\* Mutant of Cleaned: the current windows go as well
CleanedAll(counters, now) ==
    [k \in Keys |-> IF counters[k] # None /\ counters[k].windowStart < now
                    THEN None ELSE counters[k]]

\* cleanup()
Cleaned(counters, now) ==
    [k \in Keys |-> IF counters[k] # None /\ IsOld(counters[k], now)
                    THEN None ELSE counters[k]]
=============================================================================
