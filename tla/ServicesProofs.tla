--------------------------- MODULE ServicesProofs ---------------------------
(***************************************************************************)
(* What ThrottlerGuard, EmailService, EncryptionService, parallel() and    *)
(* CacheService promise, for every number of clients and every setting.    *)
(***************************************************************************)
EXTENDS Throttler, Email, Cache, Async, Encryption, TLAPS

-----------------------------------------------------------------------------
(* ThrottlerGuard.  The books of one window w, over the history f, at      *)
(* second n.                                                               *)

\* The history after one more request at second n.
Bumped(f, n) == [t \in Second |-> IF t <= n THEN f[t] + 1 ELSE f[t]]

LEMMA BooksOpen ==
    ASSUME NEW w \in Window, NEW f \in [Second -> Nat], NEW n \in Second,
           NEW limit \in Nat \ {0}, NEW span \in Nat,
           Books(w, f, n, limit, span), Lapsed(w, n)
    PROVE  Books([count |-> 1, reset |-> n + span], Bumped(f, n), n, limit, span)
<1> DEFINE v == [count |-> 1, reset |-> n + span]
           g == Bumped(f, n)
<1>1. n \in Nat /\ w.count \in Nat /\ w.reset \in Nat /\ \A t \in Second : t \in Nat /\ f[t] \in Nat
  BY ThrottlerAssumption DEF Window, Second
<1>2. \A t \in Second : n <= t => f[t] = 0
  <2>1. CASE w = NoWindow
    BY <2>1 DEF Books, ClosedBooks
  <2>2. CASE w # NoWindow
    BY <1>1, <2>2 DEF Books, OpenBooks, Lapsed
  <2>3. QED
    BY <2>1, <2>2
<1>3. \A t \in Second : n <= t + span => f[t] <= limit
  <2>1. CASE w = NoWindow
    BY <2>1 DEF Books, ClosedBooks
  <2>2. CASE w # NoWindow
    <3>1. n > w.reset /\ OpenBooks(w, f, n, limit, span)
      BY <2>2 DEF Books, Lapsed
    <3>2. ASSUME NEW t \in Second, n <= t + span PROVE f[t] <= limit
      <4>1. w.reset - span <= t
        BY <1>1, <3>1, <3>2 DEF OpenBooks
      <4>2. f[t] <= w.count /\ w.count <= limit
        BY <3>1, <4>1 DEF OpenBooks
      <4>3. QED
        BY <1>1, <4>2
    <3>3. QED
      BY <3>2
  <2>3. QED
    BY <2>1, <2>2
<1>4. v # NoWindow /\ v.count = 1 /\ v.reset = n + span /\ v.reset - span = n
  BY <1>1 DEF NoWindow
<1>5. \A t \in Second : g[t] = IF t <= n THEN f[t] + 1 ELSE f[t]
  BY DEF Bumped
<1>6. \A t \in Second : n < t => g[t] = 0
  BY <1>1, <1>2, <1>5
<1>7. g[n] = 1
  BY <1>1, <1>2, <1>5
<1>8. \A t \in Second : n <= t => g[t] <= 1
  BY <1>1, <1>2, <1>5
<1>9. \A t \in Second : n <= t + span => g[t] <= 1 + limit
  BY <1>1, <1>3, <1>5
<1>10. OpenBooks(v, g, n, limit, span)
  BY <1>1, <1>4, <1>6, <1>7, <1>8, <1>9 DEF OpenBooks
<1>11. QED
  BY <1>4, <1>6, <1>10 DEF Books

LEMMA BooksCount ==
    ASSUME NEW w \in Window, NEW f \in [Second -> Nat], NEW n \in Second,
           NEW limit \in Nat \ {0}, NEW span \in Nat,
           Books(w, f, n, limit, span), ~ Lapsed(w, n), w.count < limit
    PROVE  Books([w EXCEPT !.count = @ + 1], Bumped(f, n), n, limit, span)
<1> DEFINE v == [w EXCEPT !.count = @ + 1]
           g == Bumped(f, n)
<1>1. n \in Nat /\ w.count \in Nat /\ w.reset \in Nat /\ \A t \in Second : t \in Nat /\ f[t] \in Nat
  BY ThrottlerAssumption DEF Window, Second
<1>2. v.count = w.count + 1 /\ v.reset = w.reset /\ v # NoWindow
  BY <1>1 DEF Window, NoWindow
<1>3. OpenBooks(w, f, n, limit, span) /\ n <= w.reset
  BY <1>1 DEF Books, Lapsed
<1>4. \A t \in Second : g[t] = IF t <= n THEN f[t] + 1 ELSE f[t]
  BY DEF Bumped
<1>5. w.reset - span \in Second
  BY <1>1, <1>3, ThrottlerAssumption DEF OpenBooks, Second
<1>6. v.count \in 1..limit
  BY <1>1, <1>2
<1>7. g[w.reset - span] = v.count
  BY <1>1, <1>2, <1>3, <1>4, <1>5 DEF OpenBooks
<1>8. \A t \in Second : w.reset - span <= t => g[t] <= v.count
  BY <1>1, <1>2, <1>3, <1>4 DEF OpenBooks
<1>9. \A t \in Second : w.reset - span <= t + span => g[t] <= v.count + limit
  BY <1>1, <1>2, <1>3, <1>4 DEF OpenBooks
<1>10. \A t \in Second : w.reset < t => g[t] = 0
  BY <1>1, <1>3, <1>4 DEF OpenBooks
<1>11. \A t \in Second : n < t => g[t] = 0
  BY <1>1, <1>4 DEF Books
<1>12. w.reset >= span /\ w.reset - span <= n
  BY <1>3 DEF OpenBooks
<1>13. OpenBooks(v, g, n, limit, span)
  BY <1>2, <1>6, <1>7, <1>8, <1>9, <1>10, <1>12 DEF OpenBooks
<1>14. QED
  BY <1>2, <1>11, <1>13 DEF Books

LEMMA BooksSwept ==
    ASSUME NEW w \in Window, NEW f \in [Second -> Nat], NEW n \in Second,
           NEW limit \in Nat \ {0}, NEW span \in Nat,
           Books(w, f, n, limit, span), Lapsed(w, n)
    PROVE  Books(NoWindow, f, n, limit, span)
<1>1. n \in Nat /\ w.count \in Nat /\ w.reset \in Nat /\ \A t \in Second : t \in Nat /\ f[t] \in Nat
  BY ThrottlerAssumption DEF Window, Second
<1>2. CASE w = NoWindow
  BY <1>2
<1>3. CASE w # NoWindow
  <2>1. n > w.reset /\ OpenBooks(w, f, n, limit, span)
    BY <1>3 DEF Books, Lapsed
  <2>2. ASSUME NEW t \in Second, n <= t + span PROVE f[t] <= limit
    <3>1. w.reset - span <= t
      BY <1>1, <2>1, <2>2 DEF OpenBooks
    <3>2. f[t] <= w.count /\ w.count <= limit
      BY <2>1, <3>1 DEF OpenBooks
    <3>3. QED
      BY <1>1, <3>2
  <2>3. \A t \in Second : n <= t => f[t] = 0
    BY <1>1, <2>1 DEF OpenBooks
  <2>4. QED
    BY <2>2, <2>3 DEF Books, ClosedBooks
<1>4. QED
  BY <1>2, <1>3

LEMMA BooksTick ==
    ASSUME NEW w \in Window, NEW f \in [Second -> Nat], NEW n \in Second,
           NEW limit \in Nat \ {0}, NEW span \in Nat,
           Books(w, f, n, limit, span)
    PROVE  Books(w, f, n + 1, limit, span)
<1>1. n \in Nat /\ w.count \in Nat /\ w.reset \in Nat /\ \A t \in Second : t \in Nat /\ f[t] \in Nat
  BY ThrottlerAssumption DEF Window, Second
<1>2. \A t \in Second : n + 1 < t => f[t] = 0
  BY <1>1 DEF Books
<1>3. w # NoWindow => OpenBooks(w, f, n + 1, limit, span)
  BY <1>1 DEF Books, OpenBooks
<1>4. w = NoWindow => ClosedBooks(f, n + 1, limit, span)
  BY <1>1 DEF Books, ClosedBooks
<1>5. QED
  BY <1>2, <1>3, <1>4 DEF Books

LEMMA ThrottlerStart == ThrottlerInit => ThrottlerIInv
<1> SUFFICES ASSUME ThrottlerInit PROVE ThrottlerIInv
  OBVIOUS
<1>1. NoWindow \in Window /\ 0 \in Second
  BY ThrottlerAssumption DEF NoWindow, Window, Second
<1>2. ThrottlerTypeOK
  BY <1>1 DEF ThrottlerInit, ThrottlerTypeOK
<1>3. ASSUME NEW b \in Bucket PROVE Books(store[b], since[b], seconds, Limit[b], Span[b])
  <2>1. store[b] = NoWindow /\ \A t \in Second : since[b][t] = 0
    BY DEF ThrottlerInit
  <2>2. QED
    BY <2>1, ThrottlerAssumption DEF Books, ClosedBooks
<1>4. QED
  BY <1>2, <1>3 DEF ThrottlerIInv

LEMMA ThrottlerStep == ThrottlerIInv /\ [ThrottlerNext]_throttlerVars => ThrottlerIInv'
<1> SUFFICES ASSUME ThrottlerIInv, [ThrottlerNext]_throttlerVars PROVE ThrottlerIInv'
  OBVIOUS
<1>1. /\ \A b \in Bucket : store[b] \in Window /\ since[b] \in [Second -> Nat]
      /\ seconds \in Second /\ seconds \in Nat
      /\ \A b \in Bucket : Limit[b] \in Nat \ {0} /\ Span[b] \in Nat
      /\ \A b \in Bucket : Books(store[b], since[b], seconds, Limit[b], Span[b])
  BY ThrottlerAssumption DEF ThrottlerIInv, ThrottlerTypeOK, Second
<1>2. ASSUME NEW b \in Bucket, LetThrough(b) PROVE ThrottlerIInv'
  <2> DEFINE w == Counted(store[b], seconds, Span[b])
             g == Bumped(since[b], seconds)
  <2>1. w \in Window
    BY <1>1 DEF Counted, Window
  <2>2. g \in [Second -> Nat]
    BY <1>1 DEF Bumped
  <2>3. store' = [store EXCEPT ![b] = w] /\ since' = [since EXCEPT ![b] = g]
        /\ UNCHANGED seconds
    BY <1>2 DEF LetThrough, Bumped
  <2>4. ThrottlerTypeOK'
    BY <2>1, <2>2, <2>3 DEF ThrottlerIInv, ThrottlerTypeOK
  <2>5. Books(w, g, seconds, Limit[b], Span[b])
    <3>1. CASE Lapsed(store[b], seconds)
      BY <1>1, <3>1, BooksOpen DEF Counted
    <3>2. CASE ~ Lapsed(store[b], seconds)
      <4>1. store[b].count < Limit[b]
        BY <1>1, <1>2, <3>2 DEF LetThrough, Refused, Window
      <4>2. QED
        BY <1>1, <3>2, <4>1, BooksCount DEF Counted
    <3>3. QED
      BY <3>1, <3>2
  <2>6. ASSUME NEW c \in Bucket PROVE Books(store'[c], since'[c], seconds', Limit[c], Span[c])
    <3>1. CASE c = b
      <4>1. store'[c] = w /\ since'[c] = g /\ seconds' = seconds
        BY <2>3, <3>1 DEF ThrottlerIInv, ThrottlerTypeOK
      <4>2. QED
        BY <2>5, <3>1, <4>1
    <3>2. CASE c # b
      <4>1. store'[c] = store[c] /\ since'[c] = since[c] /\ seconds' = seconds
        BY <2>3, <3>2 DEF ThrottlerIInv, ThrottlerTypeOK
      <4>2. QED
        BY <1>1, <4>1
    <3>3. QED
      BY <3>1, <3>2
  <2>7. QED
    BY <2>4, <2>6 DEF ThrottlerIInv
<1>3. CASE Cleanup
  <2>1. store' = Swept(store, seconds) /\ UNCHANGED <<seconds, since>>
    BY <1>3 DEF Cleanup
  <2>2. NoWindow \in Window
    BY DEF NoWindow, Window
  <2>3. ThrottlerTypeOK'
    BY <1>1, <2>1, <2>2 DEF ThrottlerIInv, ThrottlerTypeOK, Swept
  <2>4. ASSUME NEW b \in Bucket PROVE Books(store'[b], since'[b], seconds', Limit[b], Span[b])
    <3>1. since'[b] = since[b] /\ seconds' = seconds
          /\ store'[b] = IF Lapsed(store[b], seconds) THEN NoWindow ELSE store[b]
      BY <2>1 DEF Swept
    <3>2. CASE Lapsed(store[b], seconds)
      BY <1>1, <3>1, <3>2, BooksSwept
    <3>3. CASE ~ Lapsed(store[b], seconds)
      BY <1>1, <3>1, <3>3
    <3>4. QED
      BY <3>2, <3>3
  <2>5. QED
    BY <2>3, <2>4 DEF ThrottlerIInv
<1>4. CASE PassSecond
  <2>1. seconds' = seconds + 1 /\ UNCHANGED <<store, since>> /\ seconds' \in Second
    BY <1>1, <1>4, ThrottlerAssumption DEF PassSecond, Second
  <2>2. ThrottlerTypeOK'
    BY <2>1 DEF ThrottlerIInv, ThrottlerTypeOK
  <2>3. \A b \in Bucket : Books(store[b], since[b], seconds + 1, Limit[b], Span[b])
    BY <1>1, BooksTick
  <2>4. QED
    BY <2>1, <2>2, <2>3 DEF ThrottlerIInv
<1>5. CASE UNCHANGED throttlerVars
  BY <1>5 DEF throttlerVars, ThrottlerIInv, ThrottlerTypeOK
<1>6. QED
  BY <1>2, <1>3, <1>4, <1>5 DEF ThrottlerNext, CanActivate, Refuse

LEMMA BooksBound == ThrottlerIInv => WindowSound
<1> SUFFICES ASSUME ThrottlerIInv PROVE WindowSound
  OBVIOUS
<1>1. /\ \A b \in Bucket : store[b] \in Window /\ since[b] \in [Second -> Nat]
      /\ seconds \in Second /\ seconds \in Nat
      /\ \A b \in Bucket : Limit[b] \in Nat \ {0} /\ Span[b] \in Nat
      /\ \A b \in Bucket : Books(store[b], since[b], seconds, Limit[b], Span[b])
  BY ThrottlerAssumption DEF ThrottlerIInv, ThrottlerTypeOK, Second
<1>2. ASSUME NEW b \in Bucket, NEW t \in Second, t <= seconds, seconds <= t + Span[b]
      PROVE  since[b][t] <= 2 * Limit[b]
  <2>1. t \in Nat /\ since[b][t] \in Nat /\ store[b].count \in Nat /\ store[b].reset \in Nat
    BY <1>1, ThrottlerAssumption DEF Second, Window
  <2>2. CASE store[b] = NoWindow
    BY <1>1, <1>2, <2>1, <2>2 DEF Books, ClosedBooks
  <2>3. CASE store[b] # NoWindow
    <3>1. OpenBooks(store[b], since[b], seconds, Limit[b], Span[b])
      BY <1>1, <2>3 DEF Books
    <3>2. store[b].reset - Span[b] <= t + Span[b] /\ store[b].count <= Limit[b]
      BY <1>1, <1>2, <2>1, <3>1 DEF OpenBooks
    <3>3. since[b][t] <= store[b].count + Limit[b]
      BY <3>1, <3>2 DEF OpenBooks
    <3>4. QED
      BY <1>1, <2>1, <3>2, <3>3
  <2>4. QED
    BY <2>2, <2>3
<1>3. ASSUME NEW b \in Bucket, Refused(store[b], seconds, Limit[b])
      PROVE  /\ seconds <= store[b].reset
             /\ since[b][store[b].reset - Span[b]] >= Limit[b]
             /\ RetryAfter(store[b], seconds) <= Span[b]
  <2>1. store[b].count \in Nat /\ store[b].reset \in Nat
    BY <1>1 DEF Window
  <2>2. OpenBooks(store[b], since[b], seconds, Limit[b], Span[b]) /\ seconds <= store[b].reset
        /\ store[b].count >= Limit[b]
    BY <1>1, <1>3, <2>1 DEF Refused, Lapsed, Books
  <2>3. QED
    BY <1>1, <2>1, <2>2 DEF OpenBooks, RetryAfter
<1>4. QED
  BY <1>2, <1>3 DEF WindowSound, BurstBound, RefusedForCause

(* The windows of ThrottlerGuard let no stretch as long as a window have   *)
(* more than twice the limit, and refuse a client only over a spent limit, *)
(* for any limits, spans and clients (canActivate, cleanup).               *)
THEOREM ThrottlerWindowSound == ThrottlerSpec => []WindowSound
BY ThrottlerStart, ThrottlerStep, BooksBound, PTL DEF ThrottlerSpec

(* The store of ThrottlerGuard holds windows, and its history counts.      *)
THEOREM ThrottlerTypeCorrect == ThrottlerSpec => []ThrottlerTypeOK
<1>1. ThrottlerIInv => ThrottlerTypeOK
  BY DEF ThrottlerIInv
<1>2. QED
  BY <1>1, ThrottlerStart, ThrottlerStep, PTL DEF ThrottlerSpec

-----------------------------------------------------------------------------
(* EmailService.                                                           *)

LEMMA EmailConstants ==
    /\ RateLimit \in Nat \ {0} /\ Parts \in Nat \ {0} /\ MaxRetries \in Nat \ {0}
    /\ Refill \in Nat /\ MaxTicks \in Nat
    /\ Full \in Nat \ {0}
    /\ \A t \in Tick : t \in Nat
<1>1. RateLimit \in Nat \ {0} /\ Parts \in Nat \ {0} /\ MaxRetries \in Nat \ {0}
      /\ Refill \in Nat /\ MaxTicks \in Nat
  BY EmailAssumption
<1>2. \A i, j \in Nat \ {0} : i * j \in Nat \ {0}
  OBVIOUS
<1>3. QED
  BY <1>1, <1>2 DEF Full, Tick

LEMMA Added == ASSUME NEW a \in Nat, NEW b \in Nat, a <= b PROVE (b - a) * Refill \in Nat
<1>1. Refill \in Nat
  BY EmailConstants
<1>2. PICK x \in Nat : b - a = x
  OBVIOUS
<1>3. x * Refill \in Nat
  BY <1>1
<1>4. QED
  BY <1>2, <1>3

LEMMA Elapsed ==
    ASSUME NEW a \in Nat, NEW b \in Nat, NEW c \in Nat, a <= b, b <= c
    PROVE  (b - a) * Refill + (c - b) * Refill = (c - a) * Refill
<1>1. Refill \in Nat
  BY EmailConstants
<1>2. PICK x \in Nat, y \in Nat : b - a = x /\ c - b = y /\ c - a = x + y
  OBVIOUS
<1>3. x * Refill + y * Refill = (x + y) * Refill
  BY <1>1
<1>4. QED
  BY <1>2, <1>3

LEMMA RefilledBounds ==
    ASSUME EmailIInv
    PROVE  /\ Refilled \in Int /\ -Parts < Refilled /\ Refilled <= Full
           /\ \A t \in Tick : t <= tick => taken[t] + Refilled <= Full + (tick - t) * Refill
<1> DEFINE added == (tick - lastRefill) * Refill
<1>1. tokens \in Int /\ lastRefill \in Nat /\ tick \in Nat /\ lastRefill <= tick
      /\ -Parts < tokens /\ tokens <= Full
      /\ \A t \in Tick : taken[t] \in Nat
  BY EmailConstants DEF EmailIInv, EmailTypeOK, TokensConserved
<1>2. added \in Nat
  BY <1>1, Added
<1>3. Refilled = IF tokens + added < Full THEN tokens + added ELSE Full
  BY DEF Refilled
<1>4. Refilled \in Int /\ -Parts < Refilled /\ Refilled <= Full /\ Refilled <= tokens + added
  <2> HIDE DEF added
  <2>1. QED
    BY <1>1, <1>2, <1>3, EmailConstants
<1>5. ASSUME NEW t \in Tick, t <= tick
      PROVE  taken[t] + Refilled <= Full + (tick - t) * Refill
  <2>1. t \in Nat
    BY EmailConstants
  <2>2. CASE t <= lastRefill
    <3>1. taken[t] + tokens <= Full + (lastRefill - t) * Refill
      BY <2>2 DEF EmailIInv, TokensConserved
    <3>2. (lastRefill - t) * Refill \in Nat /\ (lastRefill - t) * Refill + added = (tick - t) * Refill
      BY <1>1, <2>1, <2>2, Elapsed, Added
    <3> HIDE DEF added
    <3>3. QED
      BY <1>1, <1>2, <1>4, <3>1, <3>2, EmailConstants
  <2>3. CASE lastRefill < t
    <3>1. taken[t] = 0
      BY <2>3 DEF EmailIInv, TokensConserved
    <3>2. (tick - t) * Refill \in Nat
      BY <1>1, <1>5, <2>1, Added
    <3>3. QED
      BY <1>4, <3>1, <3>2, EmailConstants
  <2>4. QED
    BY <1>1, <2>1, <2>2, <2>3
<1>6. QED
  BY <1>4, <1>5

LEMMA EmailStart == EmailInit => EmailIInv
<1> SUFFICES ASSUME EmailInit PROVE EmailIInv
  OBVIOUS
<1>1. 0 \in Tick
  BY EmailConstants DEF Tick
<1>2. EmailTypeOK
  BY <1>1, EmailConstants DEF EmailInit, EmailTypeOK, MailState
<1>3. TokensConserved
  BY EmailConstants DEF EmailInit, TokensConserved
<1>4. \A m \in Mail : mail[m] # "waiting"
  BY DEF EmailInit
<1>5. QED
  BY <1>2, <1>3, <1>4 DEF EmailIInv

LEMMA SendInv == ASSUME EmailIInv, NEW m \in Mail, NEW params, Send(m, params) PROVE EmailIInv'
<1>1. /\ Refilled \in Int /\ -Parts < Refilled /\ Refilled <= Full
      /\ \A t \in Tick : t <= tick => taken[t] + Refilled <= Full + (tick - t) * Refill
  BY RefilledBounds
<1>2. tick \in Tick /\ lastRefill' = tick /\ tick' = tick /\ tick \in Nat
      /\ lastRefill \in Nat /\ lastRefill <= tick
      /\ \A t \in Tick : taken[t] \in Nat /\ (lastRefill < t => taken[t] = 0)
  BY EmailConstants DEF Send, EmailIInv, EmailTypeOK, TokensConserved
<1>3. CASE Refilled <= 0
  <2>1. tokens' = Refilled /\ taken' = taken /\ mail' = [mail EXCEPT ![m] = "limited"]
        /\ attempt' = attempt
    BY <1>3 DEF Send
  <2>2. EmailTypeOK'
    BY <1>1, <1>2, <2>1 DEF EmailIInv, EmailTypeOK, MailState
  <2>3. TokensConserved'
    BY <1>1, <1>2, <2>1, EmailConstants DEF TokensConserved
  <2>4. \A n \in Mail : mail'[n] = "waiting" => attempt'[n] < MaxRetries
    BY <2>1 DEF EmailIInv, EmailTypeOK
  <2>5. QED
    BY <2>2, <2>3, <2>4 DEF EmailIInv
<1>4. CASE ~ (Refilled <= 0)
  <2>1. /\ tokens' = Refilled - Parts
        /\ taken' = [t \in Tick |-> IF t <= tick THEN taken[t] + Parts ELSE taken[t]]
        /\ mail' = [mail EXCEPT ![m] = IF Valid(params) THEN "trying" ELSE "invalid"]
        /\ attempt' = [attempt EXCEPT ![m] = IF Valid(params) THEN 1 ELSE 0]
    BY <1>4 DEF Send
  <2>2. tokens' \in Int /\ taken' \in [Tick -> Nat]
    BY <1>1, <1>2, <2>1, EmailConstants
  <2>3. mail' \in [Mail -> MailState] /\ attempt' \in [Mail -> 0..MaxRetries]
    BY <2>1, EmailConstants DEF EmailIInv, EmailTypeOK, MailState
  <2>4. EmailTypeOK'
    BY <1>2, <2>2, <2>3 DEF EmailTypeOK
  <2>5. -Parts < tokens' /\ tokens' <= Full
    BY <1>1, <1>4, <2>1, EmailConstants
  <2>6. ASSUME NEW t \in Tick
        PROVE  /\ t <= tick => taken'[t] + tokens' <= Full + (tick - t) * Refill
               /\ tick < t => taken'[t] = 0
    <3>1. t \in Nat
      BY EmailConstants
    <3>2. CASE t <= tick
      <4>1. taken'[t] + tokens' = taken[t] + Refilled
        BY <1>1, <1>2, <2>1, <3>2, EmailConstants
      <4>2. QED
        BY <1>1, <1>2, <3>1, <3>2, <4>1
    <3>3. CASE tick < t
      BY <1>2, <2>1, <3>1, <3>3
    <3>4. QED
      BY <1>2, <3>1, <3>2, <3>3
  <2>7. TokensConserved'
    BY <1>2, <2>5, <2>6 DEF TokensConserved
  <2>8. \A n \in Mail : mail'[n] = "waiting" => attempt'[n] < MaxRetries
    BY <2>1 DEF EmailIInv, EmailTypeOK
  <2>9. QED
    BY <2>4, <2>7, <2>8 DEF EmailIInv
<1>5. QED
  BY <1>3, <1>4

LEMMA EmailStep == EmailIInv /\ [EmailNext]_emailVars => EmailIInv'
<1> SUFFICES ASSUME EmailIInv, [EmailNext]_emailVars PROVE EmailIInv'
  OBVIOUS
<1>1. ASSUME NEW m \in Mail, NEW params, Send(m, params) PROVE EmailIInv'
  BY <1>1, SendInv
<1>2. ASSUME NEW m \in Mail, NEW error, Rejected(m, error) PROVE EmailIInv'
  BY <1>2 DEF Rejected, EmailIInv, EmailTypeOK, TokensConserved, MailState
<1>3. ASSUME NEW m \in Mail, Accepted(m) PROVE EmailIInv'
  BY <1>3 DEF Accepted, EmailIInv, EmailTypeOK, TokensConserved, MailState
<1>4. CASE PassTick
  <2>1. tick' \in Tick /\ lastRefill <= tick'
    BY <1>4, EmailConstants DEF PassTick, EmailIInv, EmailTypeOK, TokensConserved, Tick
  <2>2. QED
    BY <1>4, <2>1 DEF PassTick, EmailIInv, EmailTypeOK, TokensConserved
<1>5. CASE UNCHANGED emailVars
  BY <1>5 DEF emailVars, EmailIInv, EmailTypeOK, TokensConserved
<1>6. ASSUME NEW m \in Mail, Retry(m) PROVE EmailIInv'
  <2>1. attempt' \in [Mail -> 0..MaxRetries]
    BY <1>6, EmailConstants DEF Retry, EmailIInv, EmailTypeOK
  <2>2. QED
    BY <1>6, <2>1 DEF Retry, EmailIInv, EmailTypeOK, TokensConserved, MailState
<1>7. QED
  BY <1>1, <1>2, <1>3, <1>4, <1>5, <1>6 DEF EmailNext

LEMMA TokensBound == EmailIInv => SendsWithinRate
<1> SUFFICES ASSUME EmailIInv, NEW t \in Tick, t <= tick
             PROVE  taken[t] < Full + (tick - t) * Refill + Parts
  BY DEF SendsWithinRate
<1>1. Refilled \in Int /\ -Parts < Refilled
      /\ taken[t] + Refilled <= Full + (tick - t) * Refill
  BY RefilledBounds
<1>2. taken[t] \in Nat /\ tick \in Nat /\ t \in Nat
  BY EmailConstants DEF EmailIInv, EmailTypeOK
<1>3. (tick - t) * Refill \in Nat
  BY <1>2, Added
<1>4. QED
  BY <1>1, <1>2, <1>3, EmailConstants

(* EmailService lets no stretch of time have more sends than a full bucket *)
(* and its refill pay for, and one more, for any rate, window and number   *)
(* of overlapping calls (send, refillTokens).                              *)
THEOREM EmailWithinRate == EmailSpec => []SendsWithinRate
BY EmailStart, EmailStep, TokensBound, PTL DEF EmailSpec

(* The bucket, the clock and the calls of send() keep their types.         *)
THEOREM EmailTypeCorrect == EmailSpec => []EmailTypeOK
<1>1. EmailIInv => EmailTypeOK
  BY DEF EmailIInv
<1>2. QED
  BY <1>1, EmailStart, EmailStep, PTL DEF EmailSpec

-----------------------------------------------------------------------------
(* EncryptionService.                                                      *)

LEMMA EncryptionStart == EncryptionInit => EncryptionIInv
BY EncryptionAssumption
   DEF EncryptionInit, EncryptionIInv, EncryptionTypeOK, LabelsTrue, Config, KeyVersion

LEMMA EncryptInv ==
    ASSUME EncryptionIInv, NEW p \in Process, NEW d \in Datum, NEW empty \in BOOLEAN,
           Encrypt(p, d, empty)
    PROVE  EncryptionIInv'
<1>1. CASE empty \/ CurrentKeys(p) = {}
  BY <1>1 DEF Encrypt, Throws, EncryptionIInv, EncryptionTypeOK, LabelsTrue
<1>2. CASE ~ (empty \/ CurrentKeys(p) = {})
  <2>1. PICK v \in CurrentKeys(p) : stored' = [stored EXCEPT ![d] = Sealed(p, v, d)]
    BY <1>2 DEF Encrypt
  <2>2. config[p] \in Config /\ v = config[p].versions
    BY DEF CurrentKeys, EncryptionIInv, EncryptionTypeOK
  <2>3. Sealed(p, v, d) \in Ciphertext
    BY <2>2 DEF Sealed, Config, Ciphertext
  <2>4. Sealed(p, v, d).label = v /\ Sealed(p, v, d).version = v /\ Sealed(p, v, d).upTo = v
    BY <2>2 DEF Sealed
  <2>5. v <= v
    BY <2>2, EncryptionAssumption DEF Config, KeyVersion
  <2>6. thrown' \in [Process -> BOOLEAN] /\ config' = config
    BY <1>2 DEF Encrypt, Returns, EncryptionIInv, EncryptionTypeOK
  <2>7. EncryptionTypeOK'
    BY <2>1, <2>3, <2>6 DEF EncryptionIInv, EncryptionTypeOK
  <2>8. LabelsTrue'
    BY <2>1, <2>4, <2>5 DEF EncryptionIInv, EncryptionTypeOK, LabelsTrue
  <2>9. QED
    BY <2>7, <2>8 DEF EncryptionIInv
<1>3. QED
  BY <1>1, <1>2

LEMMA EncryptionStep == EncryptionIInv /\ [EncryptionNext]_encryptionVars => EncryptionIInv'
<1> SUFFICES ASSUME EncryptionIInv, [EncryptionNext]_encryptionVars PROVE EncryptionIInv'
  OBVIOUS
<1>1. ASSUME NEW p \in Process, Throws(p) PROVE EncryptionIInv'
  BY <1>1 DEF Throws, EncryptionIInv, EncryptionTypeOK, LabelsTrue
<1>2. ASSUME NEW p \in Process, NEW d \in Datum, Decrypt(p, d) PROVE EncryptionIInv'
  BY <1>1, <1>2 DEF Decrypt, Returns, EncryptionIInv, EncryptionTypeOK, LabelsTrue
<1>3. ASSUME NEW p \in Process, NEW d \in Datum, ReEncrypt(p, d) PROVE EncryptionIInv'
  BY <1>1, <1>3, EncryptInv DEF ReEncrypt
<1>4. ASSUME NEW p \in Process, NEW c \in Config, StartAnew(p, c) PROVE EncryptionIInv'
  BY <1>4 DEF StartAnew, Returns, EncryptionIInv, EncryptionTypeOK, LabelsTrue
<1>5. CASE UNCHANGED encryptionVars
  BY <1>5 DEF encryptionVars, EncryptionIInv, EncryptionTypeOK, LabelsTrue
<1>6. QED
  BY <1>2, <1>3, <1>4, <1>5, EncryptInv DEF EncryptionNext

LEMMA LabelsOpen == EncryptionIInv => UnreadableHasCause
<1> SUFFICES ASSUME EncryptionIInv, NEW p \in Process, NEW d \in Datum,
                    stored[d] # Nothing, ~ Opens(p, stored[d]),
                    config[p].master = stored[d].master
             PROVE  config[p].versions < stored[d].upTo
  BY DEF UnreadableHasCause
<1>1. stored[d] \in Ciphertext /\ config[p] \in Config
  BY DEF EncryptionIInv, EncryptionTypeOK
<1>2. stored[d].label \in KeyVersion /\ stored[d].upTo \in KeyVersion /\ config[p].versions \in KeyVersion
  BY <1>1 DEF Ciphertext, Config
<1>3. stored[d].label = stored[d].version /\ stored[d].label <= stored[d].upTo
  BY DEF EncryptionIInv, LabelsTrue
<1>4. stored[d].label \notin 1..config[p].versions
  BY <1>3 DEF Opens, Keys
<1>5. QED
  BY <1>2, <1>3, <1>4, EncryptionAssumption DEF KeyVersion

(* A process of EncryptionService that cannot open a ciphertext has        *)
(* another master key, or fewer versions, than the one that sealed it, for *)
(* any number of processes and every order of rotations (encrypt, decrypt, *)
(* reEncrypt, initializeKeys).                                             *)
THEOREM EncryptionReadable == EncryptionSpec => []UnreadableHasCause
BY EncryptionStart, EncryptionStep, LabelsOpen, PTL DEF EncryptionSpec

-----------------------------------------------------------------------------
(* CacheService.                                                           *)

LEMMA CacheStart == CacheInit => CacheIInv
BY CacheAssumption
   DEF CacheInit, CacheIInv, CacheTypeOK, OvertakenKnown, StaleHasCause, Stale, Version, Step

LEMMA CacheTypeStep == CacheTypeOK /\ [CacheNext]_cacheVars => CacheTypeOK'
<1> SUFFICES ASSUME CacheTypeOK, [CacheNext]_cacheVars PROVE CacheTypeOK'
  OBVIOUS
<1> USE DEF CacheTypeOK
<1>1. ASSUME NEW c \in Caller, NEW step \in Step, Goto(c, step) PROVE at' \in [Caller -> Step]
  BY <1>1 DEF Goto
<1>2. "idle" \in Step /\ "compute" \in Step /\ "set" \in Step /\ "delete" \in Step
      /\ "exec" \in Step /\ "get" \in Step /\ "change" \in Step /\ "scan" \in Step
  BY DEF Step
<1>3. ASSUME NEW c \in Caller, NEW k \in Key, NEW step \in {"get", "change", "scan"},
             Call(c, k, step)
      PROVE  CacheTypeOK'
  BY <1>1, <1>2, <1>3 DEF Call
<1>4. ASSUME NEW c \in Caller, Get(c) PROVE CacheTypeOK'
  BY <1>1, <1>2, <1>4 DEF Get
<1>5. ASSUME NEW c \in Caller, Compute(c) PROVE CacheTypeOK'
  BY <1>1, <1>2, <1>5 DEF Compute
<1>6. ASSUME NEW c \in Caller, Set(c) PROVE CacheTypeOK'
  <2>1. entry' \in [Key -> Version \cup {Gone}] /\ lapses' \subseteq Key /\ excused' \subseteq Key
    BY <1>6 DEF Set, Stored
  <2>2. QED
    BY <1>1, <1>2, <1>6, <2>1 DEF Set
<1>7. ASSUME NEW c \in Caller, Change(c) PROVE CacheTypeOK'
  <2>1. source' \in [Key -> Version]
    BY <1>7, CacheAssumption DEF Change, Version
  <2>2. QED
    BY <1>1, <1>2, <1>7, <2>1 DEF Change
<1>8. ASSUME NEW names, Dropped(names)
      PROVE  entry' \in [Key -> Version \cup {Gone}] /\ lapses' \subseteq Key /\ excused' \subseteq Key
  BY <1>8 DEF Dropped
<1>9. ASSUME NEW c \in Caller, Delete(c) PROVE CacheTypeOK'
  <2>1. entry' \in [Key -> Version \cup {Gone}] /\ lapses' \subseteq Key /\ excused' \subseteq Key
    BY <1>8, <1>9 DEF Delete
  <2>2. QED
    BY <1>1, <1>2, <1>9, <2>1 DEF Delete
<1>10. ASSUME NEW c \in Caller, Scan(c) PROVE CacheTypeOK'
  <2>1. matched' \in [Caller -> SUBSET Name]
    BY <1>10 DEF Scan
  <2>2. QED
    BY <1>1, <1>2, <1>10, <2>1 DEF Scan
<1>11. ASSUME NEW c \in Caller, Exec(c) PROVE CacheTypeOK'
  <2>1. entry' \in [Key -> Version \cup {Gone}] /\ lapses' \subseteq Key /\ excused' \subseteq Key
    BY <1>8, <1>11 DEF Exec
  <2>2. matched' \in [Caller -> SUBSET Name]
    BY <1>11 DEF Exec
  <2>3. QED
    BY <1>1, <1>2, <1>11, <2>1, <2>2 DEF Exec
<1>12. ASSUME NEW k \in Key, Lapse(k) PROVE CacheTypeOK'
  BY <1>12 DEF Lapse
<1>13. CASE UNCHANGED cacheVars
  BY <1>13 DEF cacheVars
<1>14. QED
  BY <1>3, <1>4, <1>5, <1>6, <1>7, <1>9, <1>10, <1>11, <1>12, <1>13 DEF CacheNext, Go

LEMMA OvertakenStep ==
    CacheTypeOK /\ OvertakenKnown /\ [CacheNext]_cacheVars => OvertakenKnown'
<1> SUFFICES ASSUME CacheTypeOK, OvertakenKnown, [CacheNext]_cacheVars,
                    NEW d \in Caller, at'[d] = "set", value'[d] # source'[key'[d]]
             PROVE  d \in overtaken'
  BY DEF OvertakenKnown
<1> USE DEF CacheTypeOK, OvertakenKnown, Goto
<1>1. ASSUME NEW c \in Caller, NEW k \in Key, NEW step \in {"get", "change", "scan"},
             Call(c, k, step)
      PROVE  d \in overtaken'
  BY <1>1 DEF Call
<1>2. ASSUME NEW c \in Caller, Get(c) PROVE d \in overtaken'
  BY <1>2 DEF Get
<1>3. ASSUME NEW c \in Caller, Compute(c) PROVE d \in overtaken'
  BY <1>3 DEF Compute
<1>4. ASSUME NEW c \in Caller, Set(c) PROVE d \in overtaken'
  BY <1>4 DEF Set
<1>5. ASSUME NEW c \in Caller, Change(c) PROVE d \in overtaken'
  <2>1. at[d] = "set" /\ value'[d] = value[d] /\ key'[d] = key[d]
    BY <1>5 DEF Change
  <2>2. CASE key[d] = key[c]
    BY <1>5, <2>1, <2>2 DEF Change
  <2>3. CASE key[d] # key[c]
    <3>1. source'[key[d]] = source[key[d]]
      BY <1>5, <2>3 DEF Change
    <3>2. QED
      BY <1>5, <2>1, <3>1 DEF Change
  <2>4. QED
    BY <2>2, <2>3
<1>6. ASSUME NEW c \in Caller, Delete(c) PROVE d \in overtaken'
  BY <1>6 DEF Delete
<1>7. ASSUME NEW c \in Caller, Scan(c) PROVE d \in overtaken'
  BY <1>7 DEF Scan
<1>8. ASSUME NEW c \in Caller, Exec(c) PROVE d \in overtaken'
  BY <1>8 DEF Exec
<1>9. ASSUME NEW k \in Key, Lapse(k) PROVE d \in overtaken'
  BY <1>9 DEF Lapse
<1>10. CASE UNCHANGED cacheVars
  BY <1>10 DEF cacheVars
<1>11. QED
  BY <1>1, <1>2, <1>3, <1>4, <1>5, <1>6, <1>7, <1>8, <1>9, <1>10 DEF CacheNext, Go

LEMMA StaleStep == CacheIInv /\ [CacheNext]_cacheVars => StaleHasCause'
<1> SUFFICES ASSUME CacheIInv, [CacheNext]_cacheVars, NEW k \in Key,
                    entry'[k] # Gone, entry'[k] # source'[k]
             PROVE  (\E c \in Caller : at'[c] = "delete" /\ key'[c] = k) \/ k \in excused'
  BY DEF StaleHasCause, Stale
<1> DEFINE Excuse == (\E c \in Caller : at'[c] = "delete" /\ key'[c] = k) \/ k \in excused'
<1>1. CacheTypeOK /\ OvertakenKnown
      /\ (Stale(k) => (\E c \in Caller : at[c] = "delete" /\ key[c] = k) \/ k \in excused)
  BY DEF CacheIInv, StaleHasCause
<1> USE DEF CacheTypeOK, Goto, Stale
<1>2. ASSUME NEW c \in Caller, NEW j \in Key, NEW step \in {"get", "change", "scan"},
             Call(c, j, step)
      PROVE  Excuse
  BY <1>1, <1>2 DEF Call
<1>3. ASSUME NEW c \in Caller, Get(c) PROVE Excuse
  BY <1>1, <1>3 DEF Get
<1>4. ASSUME NEW c \in Caller, Compute(c) PROVE Excuse
  BY <1>1, <1>4 DEF Compute
<1>5. ASSUME NEW c \in Caller, Set(c) PROVE Excuse
  <2>1. CASE UNCHANGED <<entry, lapses, excused>>
    BY <1>1, <1>5, <2>1 DEF Set
  <2>2. CASE Stored(c) /\ key[c] = k
    <3>1. value[c] # source[key[c]]
      BY <1>1, <1>5, <2>2 DEF Set, Stored
    <3>2. c \in overtaken
      BY <1>1, <1>5, <3>1 DEF Set, OvertakenKnown
    <3>3. QED
      BY <2>2, <3>2 DEF Stored
  <2>3. CASE Stored(c) /\ key[c] # k
    <3>1. entry'[k] = entry[k] /\ source'[k] = source[k] /\ (k \in excused => k \in excused')
      BY <1>1, <1>5, <2>3 DEF Set, Stored
    <3>2. QED
      BY <1>1, <1>5, <3>1 DEF Set
  <2>4. QED
    BY <1>5, <2>1, <2>2, <2>3 DEF Set
<1>6. ASSUME NEW c \in Caller, Change(c) PROVE Excuse
  <2>1. CASE key[c] = k
    BY <1>1, <1>6, <2>1 DEF Change
  <2>2. CASE key[c] # k
    <3>1. source'[k] = source[k] /\ entry' = entry /\ excused' = excused /\ key' = key
      BY <1>1, <1>6, <2>2 DEF Change
    <3>2. \A b \in Caller : at[b] = "delete" => at'[b] = "delete"
      BY <1>1, <1>6 DEF Change
    <3>3. QED
      BY <1>1, <3>1, <3>2
  <2>3. QED
    BY <2>1, <2>2
<1>7. ASSUME NEW names, Dropped(names)
      PROVE  entry'[k] = entry[k] /\ (k \in excused => k \in excused')
             /\ ~ \E n \in names : Prefixed(n) = <<1, k>>
  BY <1>1, <1>7 DEF Dropped
<1>8. ASSUME NEW c \in Caller, Delete(c) PROVE Excuse
  <2>1. CASE Dropped({BuildKey(key[c])})
    <3>1. Prefixed(BuildKey(key[c])) = <<1, key[c]>>
      BY DEF Prefixed, BuildKey
    <3>2. key[c] # k
      BY <1>7, <2>1, <3>1
    <3>3. entry'[k] = entry[k] /\ source' = source /\ key' = key /\ (k \in excused => k \in excused')
      BY <1>7, <1>8, <2>1 DEF Delete
    <3>4. \A b \in Caller : at[b] = "delete" /\ key[b] = k => at'[b] = "delete"
      BY <1>1, <1>8, <3>2 DEF Delete
    <3>5. QED
      BY <1>1, <3>3, <3>4
  <2>2. CASE excused' = excused \cup {key[c]} /\ UNCHANGED <<entry, lapses>>
    <3>1. CASE key[c] = k
      BY <2>2, <3>1
    <3>2. CASE key[c] # k
      <4>1. \A b \in Caller : at[b] = "delete" /\ key[b] = k => at'[b] = "delete"
        BY <1>1, <1>8, <3>2 DEF Delete
      <4>2. QED
        BY <1>1, <1>8, <2>2, <4>1 DEF Delete
    <3>3. QED
      BY <3>1, <3>2
  <2>3. QED
    BY <1>8, <2>1, <2>2 DEF Delete
<1>9. ASSUME NEW c \in Caller, Scan(c) PROVE Excuse
  BY <1>1, <1>9 DEF Scan
<1>10. ASSUME NEW c \in Caller, Exec(c) PROVE Excuse
  <2>1. entry'[k] = entry[k] /\ (k \in excused => k \in excused')
    BY <1>7, <1>10 DEF Exec
  <2>2. source' = source /\ key' = key
    BY <1>10 DEF Exec
  <2>3. \A b \in Caller : at[b] = "delete" => at'[b] = "delete"
    BY <1>1, <1>10 DEF Exec
  <2>4. QED
    BY <1>1, <2>1, <2>2, <2>3
<1>11. ASSUME NEW j \in Key, Lapse(j) PROVE Excuse
  BY <1>1, <1>11 DEF Lapse
<1>12. CASE UNCHANGED cacheVars
  BY <1>1, <1>12 DEF cacheVars
<1>13. QED
  BY <1>2, <1>3, <1>4, <1>5, <1>6, <1>8, <1>9, <1>10, <1>11, <1>12 DEF CacheNext, Go

LEMMA CacheStep == CacheIInv /\ [CacheNext]_cacheVars => CacheIInv'
BY CacheTypeStep, OvertakenStep, StaleStep DEF CacheIInv

(* An entry of CacheService that differs from its source has one of three  *)
(* causes, for any number of callers and keys: its deletion is still due,  *)
(* its deletion failed, or a getOrSet stored what it had computed before   *)
(* the change (get, set, delete, getOrSet, invalidatePattern).             *)
THEOREM CacheStaleHasCause == CacheSpec => []StaleHasCause
<1>1. CacheIInv => StaleHasCause
  BY DEF CacheIInv
<1>2. QED
  BY <1>1, CacheStart, CacheStep, PTL DEF CacheSpec

(* Source, entries and callers keep their types.                           *)
THEOREM CacheTypeCorrect == CacheSpec => []CacheTypeOK
<1>1. CacheIInv => CacheTypeOK
  BY DEF CacheIInv
<1>2. QED
  BY <1>1, CacheStart, CacheStep, PTL DEF CacheSpec

-----------------------------------------------------------------------------
(* retry, parallel and timeout.                                            *)

LEMMA AsyncStart == AsyncInit => AsyncIInv
<1> SUFFICES ASSUME AsyncInit PROVE AsyncIInv
  OBVIOUS
<1>1. Tasks \in Nat \ {0} /\ Concurrency \in Nat \ {0} /\ MaxAttempts \in Nat \ {0}
  BY AsyncAssumption
<1>2. AsyncTypeOK
  <2>1. 1 \in 1..(Tasks + 1) /\ 0 \in 0..Tasks /\ 0 \in 0..MaxAttempts
    BY <1>1
  <2>2. QED
    BY <2>1 DEF AsyncInit, AsyncTypeOK
<1>3. TasksAccounted
  BY <1>1 DEF AsyncInit, TasksAccounted, Task, Busy
<1>4. ParallelSound
  BY DEF AsyncInit, ParallelSound, AnswerTruthful, WorkersApart
<1>5. QED
  BY <1>2, <1>3, <1>4 DEF AsyncIInv

\* A worker that is busy holds a task that has not ended, which no other holds.
LEMMA BusyHolds ==
    ASSUME AsyncIInv, NEW w \in Worker, Busy(w)
    PROVE  /\ task[w] \in Task
           /\ task[w] < nextTask
           /\ result[task[w]] = "none"
           /\ \A v \in Worker \ {w} : task[v] # task[w]
           /\ answer \notin {"uncalled", "resolved", "aggregate"}
<1>1. task[w] \in Task
  BY AsyncAssumption DEF AsyncIInv, AsyncTypeOK, TasksAccounted, Task
<1>2. result[task[w]] = "none" /\ \A v \in Worker \ {w} : task[v] # task[w]
  BY DEF AsyncIInv, TasksAccounted, ParallelSound, WorkersApart, Busy
<1>3. task[w] < nextTask /\ answer # "uncalled"
  BY DEF AsyncIInv, TasksAccounted, Busy
<1>4. answer # "resolved" /\ answer # "aggregate"
  BY <1>1, <1>2 DEF AsyncIInv, ParallelSound, AnswerTruthful
<1>5. QED
  BY <1>1, <1>2, <1>3, <1>4

LEMMA StartInv ==
    ASSUME AsyncIInv, NEW fast \in BOOLEAN, Start(fast)
    PROVE  AsyncIInv'
<1>1. nextTask = 1 /\ \A t \in Task : result[t] = "none"
  BY AsyncAssumption DEF Start, AsyncIInv, TasksAccounted, Task
<1>2. AsyncTypeOK'
  BY DEF Start, AsyncIInv, AsyncTypeOK
<1>3. TasksAccounted'
  BY <1>1, AsyncAssumption DEF Start, AsyncIInv, AsyncTypeOK, TasksAccounted, Busy, Task
<1>4. ParallelSound'
  BY <1>1 DEF Start, AsyncIInv, ParallelSound, AnswerTruthful, WorkersApart
<1>5. QED
  BY <1>2, <1>3, <1>4 DEF AsyncIInv

LEMMA TakeInv ==
    ASSUME AsyncIInv, NEW w \in Worker, TakeTask(w)
    PROVE  AsyncIInv'
<1>1. nextTask \in Task /\ nextTask \in Nat /\ result[nextTask] = "none" /\ answer # "uncalled"
  BY AsyncAssumption DEF TakeTask, AsyncIInv, AsyncTypeOK, TasksAccounted, Task
<1>2. AsyncTypeOK'
  BY <1>1, AsyncAssumption DEF TakeTask, AsyncIInv, AsyncTypeOK, Task
<1>3. task' = [task EXCEPT ![w] = nextTask] /\ doing' = [doing EXCEPT ![w] = "attempt"]
      /\ nextTask' = nextTask + 1 /\ UNCHANGED <<failFast, result, answer>>
      /\ task \in [Worker -> 0..Tasks] /\ doing[w] = "loop"
      /\ doing \in [Worker -> {"uncalled", "loop", "attempt", "sleep", "done", "thrown"}]
  BY DEF TakeTask, AsyncIInv, AsyncTypeOK
<1>4. TasksAccounted'
  <2>1. \A v \in Worker : task'[v] < nextTask'
    BY <1>1, <1>3 DEF AsyncIInv, TasksAccounted
  <2>2. \A v \in Worker : Busy(v)' => task'[v] # 0
    BY <1>1, <1>3, AsyncAssumption DEF AsyncIInv, TasksAccounted, Busy, Task
  <2>3. \A v \in Worker : doing'[v] = "done" => nextTask' > Tasks
    BY <1>1, <1>3, AsyncAssumption DEF AsyncIInv, TasksAccounted
  <2>4. \A t \in Task : t < nextTask' =>
            result'[t] # "none" \/ \E v \in Worker : task'[v] = t /\ Busy(v)'
    <3> SUFFICES ASSUME NEW t \in Task, t < nextTask', result[t] = "none"
                 PROVE  \E v \in Worker : task'[v] = t /\ Busy(v)'
      BY <1>3
    <3>1. CASE t = nextTask
      BY <3>1, <1>3 DEF Busy
    <3>2. CASE t # nextTask
      <4>1. t < nextTask
        BY <3>2, <1>1, <1>3 DEF Task
      <4>2. PICK v \in Worker : task[v] = t /\ Busy(v)
        BY <4>1 DEF AsyncIInv, TasksAccounted
      <4>3. v # w
        BY <4>2, <1>3 DEF Busy
      <4>4. QED
        BY <4>2, <4>3, <1>3 DEF Busy
    <3>3. QED
      BY <3>1, <3>2
  <2>5. \A t \in Task : t >= nextTask' => result'[t] = "none"
    BY <1>1, <1>3 DEF AsyncIInv, TasksAccounted, Task
  <2>6. \A v \in Worker : doing'[v] = "sleep" => tries'[task'[v]] < MaxAttempts
    <3> SUFFICES ASSUME NEW v \in Worker, doing'[v] = "sleep"
                 PROVE  tries'[task'[v]] < MaxAttempts
      OBVIOUS
    <3>1. v # w /\ doing[v] = "sleep" /\ task'[v] = task[v]
      BY <1>3
    <3>2. task[v] # nextTask /\ tries[task[v]] < MaxAttempts
      BY <3>1, <1>1 DEF AsyncIInv, AsyncTypeOK, TasksAccounted
    <3>3. tries'[task[v]] = tries[task[v]]
      BY <3>1, <3>2, BusyHolds DEF TakeTask, Busy, AsyncIInv, AsyncTypeOK
    <3>4. QED
      BY <3>1, <3>2, <3>3
  <2>7. QED
    BY <1>1, <1>3, <2>1, <2>2, <2>3, <2>4, <2>5, <2>6 DEF TasksAccounted
<1>5. AnswerTruthful'
  BY <1>3 DEF AsyncIInv, ParallelSound, AnswerTruthful
<1>6. WorkersApart'
  <2>1. \A u, v \in Worker : u # v /\ task'[u] # 0 => task'[u] # task'[v]
    BY <1>1, <1>3 DEF AsyncIInv, ParallelSound, WorkersApart, TasksAccounted
  <2>2. \A v \in Worker : doing'[v] \in {"attempt", "sleep"} => result'[task'[v]] = "none"
    BY <1>1, <1>3 DEF AsyncIInv, ParallelSound, WorkersApart
  <2>3. failFast' => \A t \in Task : result'[t] = "failed" =>
            \E v \in Worker : task'[v] = t /\ doing'[v] = "thrown"
    <3> SUFFICES ASSUME failFast, NEW t \in Task, result[t] = "failed"
                 PROVE  \E v \in Worker : task'[v] = t /\ doing'[v] = "thrown"
      BY <1>3
    <3>1. PICK v \in Worker : task[v] = t /\ doing[v] = "thrown"
      BY DEF AsyncIInv, ParallelSound, WorkersApart
    <3>2. QED
      BY <3>1, <1>3
  <2>4. QED
    BY <2>1, <2>2, <2>3 DEF WorkersApart
<1>7. QED
  BY <1>2, <1>4, <1>5, <1>6 DEF AsyncIInv, ParallelSound

\* When the last worker leaves, every task has ended.
LEMMA LeaveInv ==
    ASSUME AsyncIInv, NEW w \in Worker, Leave(w)
    PROVE  AsyncIInv'
<1>1. /\ doing' = [doing EXCEPT ![w] = "done"] /\ doing[w] = "loop" /\ nextTask > Tasks
      /\ UNCHANGED <<failFast, nextTask, task, tries, result>>
      /\ doing \in [Worker -> {"uncalled", "loop", "attempt", "sleep", "done", "thrown"}]
      /\ answer # "uncalled"
  BY DEF Leave, AsyncIInv, AsyncTypeOK, TasksAccounted
<1>2. answer' = answer \/ (AllReturned(doing') /\ answer = "pending" /\ answer' = Verdict)
  BY DEF Leave, Tell
<1>3. Verdict \in {"aggregate", "resolved"}
  BY DEF Verdict
<1>4. AsyncTypeOK'
  BY <1>1, <1>2, <1>3 DEF AsyncIInv, AsyncTypeOK
<1>5. TasksAccounted'
  BY <1>1, <1>2, <1>3 DEF AsyncIInv, TasksAccounted, Busy
<1>6. AnswerTruthful'
  <2>1. CASE answer' = answer
    BY <2>1, <1>1 DEF AsyncIInv, ParallelSound, AnswerTruthful
  <2>2. CASE AllReturned(doing') /\ answer' = Verdict
    <3>1. \A t \in Task : result[t] # "none"
      <4> SUFFICES ASSUME NEW t \in Task, result[t] = "none" PROVE FALSE
        OBVIOUS
      <4>1. t < nextTask
        BY <1>1, AsyncAssumption DEF Task, AsyncIInv, AsyncTypeOK
      <4>2. PICK v \in Worker : Busy(v)
        BY <4>1 DEF AsyncIInv, TasksAccounted
      <4>3. QED
        BY <4>2, <2>2, <1>1 DEF AllReturned, Busy
    <3>2. QED
      BY <3>1, <2>2, <1>1 DEF Verdict, AnswerTruthful, AsyncIInv, AsyncTypeOK
  <2>3. QED
    BY <2>1, <2>2, <1>2
<1>7. WorkersApart'
  BY <1>1 DEF AsyncIInv, ParallelSound, WorkersApart
<1>8. QED
  BY <1>4, <1>5, <1>6, <1>7 DEF AsyncIInv, ParallelSound

\* A task that ends: the worker that held it goes on, or fails with it.
LEMMA EndInv ==
    ASSUME AsyncIInv, NEW w \in Worker, NEW how \in {"ok", "failed"},
           doing[w] = "attempt",
           result' = [result EXCEPT ![task[w]] = how],
           doing' = [doing EXCEPT ![w] =
                        IF failFast /\ how = "failed" THEN "thrown" ELSE "loop"],
           answer' = IF failFast /\ how = "failed" THEN (IF answer = "pending" THEN "rejected" ELSE answer)
                                                   ELSE answer,
           UNCHANGED <<failFast, nextTask, task, tries>>
    PROVE  AsyncIInv'
<1>1. /\ task[w] \in Task /\ task[w] < nextTask /\ result[task[w]] = "none"
      /\ \A v \in Worker \ {w} : task[v] # task[w]
      /\ answer \notin {"uncalled", "resolved", "aggregate"}
  BY BusyHolds DEF Busy
<1>2. /\ doing \in [Worker -> {"uncalled", "loop", "attempt", "sleep", "done", "thrown"}]
      /\ result \in [Task -> {"none", "ok", "failed"}]
  BY DEF AsyncIInv, AsyncTypeOK
<1>3. AsyncTypeOK'
  BY <1>1 DEF AsyncIInv, AsyncTypeOK
<1>4. TasksAccounted'
  <2>1. \A v \in Worker : doing'[v] \in {"attempt", "sleep", "done"} => doing'[v] = doing[v]
    BY <1>2
  <2>2. \A v \in Worker : Busy(v)' => Busy(v)
    BY <2>1 DEF Busy
  <2>3. \A t \in Task : t < nextTask' =>
            result'[t] # "none" \/ \E v \in Worker : task'[v] = t /\ Busy(v)'
    <3> SUFFICES ASSUME NEW t \in Task, t < nextTask, result'[t] = "none"
                 PROVE  \E v \in Worker : task[v] = t /\ Busy(v)'
      OBVIOUS
    <3>1. t # task[w] /\ result[t] = "none"
      BY <1>1, <1>2
    <3>2. PICK v \in Worker : task[v] = t /\ Busy(v)
      BY <3>1 DEF AsyncIInv, TasksAccounted
    <3>3. QED
      BY <3>1, <3>2, <1>2 DEF Busy
  <2>4. \A t \in Task : t >= nextTask' => result'[t] = "none"
    BY <1>1, <1>2 DEF AsyncIInv, AsyncTypeOK, TasksAccounted, Task
  <2>5. QED
    BY <1>1, <2>1, <2>2, <2>3, <2>4 DEF AsyncIInv, TasksAccounted
<1>5. AnswerTruthful'
  BY <1>1, <1>2 DEF AsyncIInv, ParallelSound, AnswerTruthful
<1>6. WorkersApart'
  <2>1. \A v \in Worker : doing'[v] \in {"attempt", "sleep"} => result'[task'[v]] = "none"
    BY <1>1, <1>2 DEF AsyncIInv, ParallelSound, WorkersApart
  <2>2. failFast' => \A t \in Task : result'[t] = "failed" =>
            \E v \in Worker : task'[v] = t /\ doing'[v] = "thrown"
    <3> SUFFICES ASSUME failFast, NEW t \in Task, result'[t] = "failed"
                 PROVE  \E v \in Worker : task[v] = t /\ doing'[v] = "thrown"
      OBVIOUS
    <3>1. CASE t = task[w]
      BY <3>1, <1>1, <1>2
    <3>2. CASE t # task[w]
      BY <3>2, <1>1, <1>2 DEF AsyncIInv, ParallelSound, WorkersApart
    <3>3. QED
      BY <3>1, <3>2
  <2>3. QED
    BY <2>1, <2>2 DEF AsyncIInv, ParallelSound, WorkersApart
<1>7. QED
  BY <1>3, <1>4, <1>5, <1>6 DEF AsyncIInv, ParallelSound

\* An attempt that fails and will be made again, and the attempt after it.
LEMMA RetryInv ==
    ASSUME AsyncIInv, NEW w \in Worker,
           \/ /\ doing[w] = "attempt" /\ tries[task[w]] < MaxAttempts
              /\ doing' = [doing EXCEPT ![w] = "sleep"]
              /\ UNCHANGED <<failFast, nextTask, task, tries, result, answer>>
           \/ Again(w)
    PROVE  AsyncIInv'
<1>1. /\ task[w] \in Task /\ answer # "uncalled"
      /\ \A v \in Worker \ {w} : task[v] # task[w]
  BY BusyHolds DEF Again, Busy
<1>2. /\ doing \in [Worker -> {"uncalled", "loop", "attempt", "sleep", "done", "thrown"}]
      /\ tries \in [Task -> 0..MaxAttempts] /\ MaxAttempts \in Nat
  BY AsyncAssumption DEF AsyncIInv, AsyncTypeOK
<1>3. UNCHANGED <<failFast, nextTask, task, result, answer>>
  BY DEF Again
<1>4. \A v \in Worker : Busy(v)' <=> Busy(v)
  BY <1>2 DEF Again, Busy
<1>5. \A v \in Worker : doing'[v] \in {"done", "thrown"} <=> doing[v] \in {"done", "thrown"}
  BY <1>2 DEF Again
<1>6. \A v \in Worker : doing'[v] = "done" <=> doing[v] = "done"
  BY <1>2 DEF Again
<1>7. \A v \in Worker : doing'[v] = "sleep" => tries'[task'[v]] < MaxAttempts
  <2>1. ASSUME NEW v \in Worker \ {w}, doing'[v] = "sleep"
        PROVE  tries'[task'[v]] < MaxAttempts
    <3>1. doing[v] = "sleep" /\ task[v] \in Task
      BY <2>1, <1>2, BusyHolds DEF Again, Busy
    <3>2. tries'[task[v]] = tries[task[v]]
      BY <3>1, <1>1, <1>2 DEF Again
    <3>3. QED
      BY <3>1, <3>2, <1>3 DEF AsyncIInv, TasksAccounted
  <2>2. doing'[w] = "sleep" => tries'[task'[w]] < MaxAttempts
    BY <1>2 DEF Again
  <2>3. QED
    BY <2>1, <2>2
<1>8. AsyncTypeOK'
  <2>1. doing[w] = "sleep" => tries[task[w]] < MaxAttempts
    BY DEF AsyncIInv, TasksAccounted
  <2>2. doing' \in [Worker -> {"uncalled", "loop", "attempt", "sleep", "done", "thrown"}]
    BY <1>2 DEF Again
  <2>3. tries' \in [Task -> 0..MaxAttempts]
    BY <2>1, <1>1, <1>2 DEF Again
  <2>4. QED
    BY <2>2, <2>3, <1>3 DEF AsyncIInv, AsyncTypeOK
<1>9. TasksAccounted'
  BY <1>1, <1>3, <1>4, <1>6, <1>7 DEF AsyncIInv, TasksAccounted
<1>10. ParallelSound'
  <2>1. \A v \in Worker : doing'[v] = "thrown" <=> doing[v] = "thrown"
    BY <1>2 DEF Again
  <2>2. QED
    BY <1>3, <1>4, <2>1
       DEF AsyncIInv, ParallelSound, AnswerTruthful, WorkersApart, Busy
<1>11. QED
  BY <1>8, <1>9, <1>10 DEF AsyncIInv

LEMMA AsyncStep == AsyncIInv /\ [AsyncNext]_asyncVars => AsyncIInv'
<1> SUFFICES ASSUME AsyncIInv, [AsyncNext]_asyncVars PROVE AsyncIInv'
  OBVIOUS
<1>1. ASSUME NEW w \in Worker, Succeed(w) PROVE AsyncIInv'
  BY <1>1, EndInv DEF Succeed
<1>2. ASSUME NEW w \in Worker, NEW r \in BOOLEAN, Fail(w, r) PROVE AsyncIInv'
  <2>1. CASE r /\ tries[task[w]] < MaxAttempts
    BY <2>1, <1>2, RetryInv DEF Fail
  <2>2. CASE ~ (r /\ tries[task[w]] < MaxAttempts)
    BY <2>2, <1>2, EndInv DEF Fail, GiveUp, Tell
  <2>3. QED
    BY <2>1, <2>2
<1>3. CASE TimeOut \/ UNCHANGED asyncVars
  BY <1>3 DEF TimeOut, asyncVars, AsyncIInv, AsyncTypeOK, TasksAccounted, Busy,
              ParallelSound, AnswerTruthful, WorkersApart
<1>4. QED
  BY <1>1, <1>2, <1>3, StartInv, TakeInv, LeaveInv, RetryInv DEF AsyncNext

(* What parallel() under timeout() answers is so, and its workers never    *)
(* hold the same task, for any number of tasks, workers and attempts       *)
(* (parallel, retry, timeout).                                             *)
THEOREM AsyncSound == AsyncSpec => []ParallelSound
<1>1. AsyncIInv => ParallelSound
  BY DEF AsyncIInv
<1>2. QED
  BY <1>1, AsyncStart, AsyncStep, PTL DEF AsyncSpec

(* Every variable of parallel() under timeout() keeps its type, whatever   *)
(* the tasks do: no index past the last task, no attempt past the last.    *)
THEOREM AsyncTypeCorrect == AsyncSpec => []AsyncTypeOK
<1>1. AsyncIInv => AsyncTypeOK
  BY DEF AsyncIInv
<1>2. QED
  BY <1>1, AsyncStart, AsyncStep, PTL DEF AsyncSpec

=============================================================================
