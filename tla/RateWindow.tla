----------------------------- MODULE RateWindow -----------------------------
(***************************************************************************)
(* The fixed window of ThrottlerGuard as operators on a store: a function  *)
(* from buckets (the guard's instance, the key's prefix and the client) to *)
(* the window that is open for them.  Times are whole seconds.             *)
(***************************************************************************)
EXTENDS Naturals

CONSTANT Bucket

Window == [count: Nat, reset: Nat]
NoWindow == [count |-> 0, reset |-> 0]

\* No window, or one whose last second is past.
Lapsed(w, now) == w = NoWindow \/ now > w.reset

\* canActivate() answers 429: the window is open and its budget is spent.
Refused(w, now, limit) == ~Lapsed(w, now) /\ w.count >= limit

\* The window after canActivate() has let a request through.
Counted(w, now, span) ==
    IF Lapsed(w, now)
    THEN [count |-> 1, reset |-> now + span]
    ELSE [w EXCEPT !.count = @ + 1]

\* Mutant: the sweep drops windows that are still open.
SweptAll(store, now) == [b \in Bucket |-> NoWindow]

\* cleanup() over the whole store.
Swept(store, now) ==
    [b \in Bucket |-> IF Lapsed(store[b], now) THEN NoWindow ELSE store[b]]

\* Retry-After of a refused request.
RetryAfter(w, now) == w.reset - now
=============================================================================
