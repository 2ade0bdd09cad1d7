------------------------------ MODULE Throttler ------------------------------
(***************************************************************************)
(* ThrottlerGuard: requests of any number of clients against a clock, with *)
(* the sweep of lapsed windows that an interval runs beside them.          *)
(* canActivate() is synchronous, so one request is one step.               *)
(***************************************************************************)
EXTENDS RateWindow

CONSTANTS
    Limit,          \* limit of the route a bucket belongs to
    Span,           \* windowSeconds of that route
    MaxSeconds      \* bound: seconds that pass

ASSUME ThrottlerAssumption ==
    /\ Limit \in [Bucket -> Nat \ {0}]
    /\ Span \in [Bucket -> Nat]
    /\ MaxSeconds \in Nat

VARIABLES
    store,      \* the guard's Map
    seconds,    \* Date.now()
    since       \* history: requests let through at t or later, for each second t

throttlerVars == <<store, seconds, since>>

Second == 0..MaxSeconds

ThrottlerTypeOK ==
    /\ store \in [Bucket -> Window]
    /\ seconds \in Second
    /\ since \in [Bucket -> [Second -> Nat]]

ThrottlerInit ==
    /\ store = [b \in Bucket |-> NoWindow]
    /\ seconds = 0
    /\ since = [b \in Bucket |-> [t \in Second |-> 0]]

LetThrough(b) ==
    /\ ~Refused(store[b], seconds, Limit[b])
    /\ store' = [store EXCEPT ![b] = Counted(@, seconds, Span[b])]
    /\ since' = [since EXCEPT ![b] = [t \in Second |-> IF t <= seconds THEN @[t] + 1 ELSE @[t]]]
    /\ UNCHANGED seconds

Refuse(b) ==
    /\ Refused(store[b], seconds, Limit[b])
    /\ UNCHANGED throttlerVars

CanActivate(b) == LetThrough(b) \/ Refuse(b)

Cleanup ==
    /\ store' = Swept(store, seconds)
    /\ UNCHANGED <<seconds, since>>

PassSecond ==
    /\ seconds < MaxSeconds
    /\ seconds' = seconds + 1
    /\ UNCHANGED <<store, since>>

ThrottlerNext ==
    \/ \E b \in Bucket : CanActivate(b)
    \/ Cleanup
    \/ PassSecond

ThrottlerSpec == ThrottlerInit /\ [][ThrottlerNext]_throttlerVars

-----------------------------------------------------------------------------
\* No stretch as long as the window sees more than twice the limit let through,
\* however windows lie in it and whenever the sweep runs (canActivate, cleanup):
\* a fixed window does not promise the limit itself to every stretch.
BurstBound ==
    \A b \in Bucket, t \in Second :
        t <= seconds /\ seconds <= t + Span[b] => since[b][t] <= 2 * Limit[b]

\* A client is refused only while the stretch since its window opened has used
\* the whole limit, so one that keeps asking is let through after Span + 1
\* seconds at the latest (canActivate).
RefusedForCause ==
    \A b \in Bucket :
        Refused(store[b], seconds, Limit[b]) =>
            /\ seconds <= store[b].reset
            /\ since[b][store[b].reset - Span[b]] >= Limit[b]
            /\ RetryAfter(store[b], seconds) <= Span[b]

\* Both: the windows of ThrottlerGuard are neither too wide nor too narrow.
WindowSound == BurstBound /\ RefusedForCause

-----------------------------------------------------------------------------
(* The inductive invariant: what a window w knows of the requests let      *)
(* through, f[t] of them at t or later, by second n.                       *)

\* Everything since the window opened is on its books, its predecessor used its
\* limit at most, and nothing was let through after its last second.
OpenBooks(w, f, n, limit, span) ==
    LET opened == w.reset - span IN
    /\ w.count \in 1..limit
    /\ w.reset >= span
    /\ opened <= n
    /\ f[opened] = w.count
    /\ \A t \in Second : opened <= t => f[t] <= w.count
    /\ \A t \in Second : opened <= t + span => f[t] <= w.count + limit
    /\ \A t \in Second : w.reset < t => f[t] = 0

\* Without a window, the last Span seconds saw one limit at most, and this one none.
ClosedBooks(f, n, limit, span) ==
    /\ \A t \in Second : n <= t + span => f[t] <= limit
    /\ \A t \in Second : n <= t => f[t] = 0

Books(w, f, n, limit, span) ==
    /\ \A t \in Second : n < t => f[t] = 0
    /\ w # NoWindow => OpenBooks(w, f, n, limit, span)
    /\ w = NoWindow => ClosedBooks(f, n, limit, span)

ThrottlerIInv ==
    /\ ThrottlerTypeOK
    /\ \A b \in Bucket : Books(store[b], since[b], seconds, Limit[b], Span[b])

=============================================================================
