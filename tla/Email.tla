-------------------------------- MODULE Email --------------------------------
(***************************************************************************)
(* EmailService: send() under the token bucket the whole service shares,   *)
(* and its attempts at the provider.  Date.now() has milliseconds and the  *)
(* bucket holds fractions of a token; the model counts in Parts of a       *)
(* token, so that a tick refills a whole number of parts.  doSend stands   *)
(* for the provider: an attempt is accepted, or fails with an error whose  *)
(* message says whether it is retried.                                     *)
(***************************************************************************)
EXTENDS Integers

CONSTANTS
    Mail,           \* calls of send() and sendTemplate()
    RateLimit,      \* tokens of a full bucket: 100
    Parts,          \* parts of a token
    Refill,         \* parts a tick adds: rateLimit * Parts / rateLimitWindowMs
    MaxRetries,     \* maxRetries: 3
    MaxTicks        \* bound: ticks of the clock

ASSUME EmailAssumption ==
    /\ {RateLimit, Parts, MaxRetries} \subseteq Nat \ {0}
    /\ {Refill, MaxTicks} \subseteq Nat

VARIABLES
    tokens,         \* rateLimiter.tokens, in parts
    lastRefill,     \* rateLimiter.lastRefill
    tick,           \* Date.now()
    mail,           \* where each call stands
    attempt,        \* attempts at the provider made for it
    taken           \* history: parts taken at tick t or later, for each t

emailVars == <<tokens, lastRefill, tick, mail, attempt, taken>>

Tick == 0..MaxTicks
Full == RateLimit * Parts

MailState == {"new", "limited", "invalid", "trying", "waiting", "sent", "failed"}

EmailTypeOK ==
    /\ tokens \in Int
    /\ lastRefill \in Tick
    /\ tick \in Tick
    /\ mail \in [Mail -> MailState]
    /\ attempt \in [Mail -> 0..MaxRetries]
    /\ taken \in [Tick -> Nat]

EmailInit ==
    /\ tokens = Full
    /\ lastRefill = 0
    /\ tick = 0
    /\ mail = [m \in Mail |-> "new"]
    /\ attempt = [m \in Mail |-> 0]
    /\ taken = [t \in Tick |-> 0]

\* Mutant: the bucket is not capped.
RefilledUncapped == tokens + (tick - lastRefill) * Refill

\* refillTokens(): what the bucket holds now.
Refilled ==
    LET more == tokens + (tick - lastRefill) * Refill
    IN IF more < Full THEN more ELSE Full

\* What a call may leave out: a recipient, a subject, and all of html, text and
\* templateId.
Params == [to : BOOLEAN, subject : BOOLEAN, body : BOOLEAN]

\* validateParams() lets the parameters pass.
Valid(params) == params.to /\ params.subject /\ params.body

\* sendTemplate() names a recipient, a subject and a template; its options are
\* spread last, and put what they hold, empty or not, in their place.
Templated(to, options) ==
    [field \in {"to", "subject", "body"} |->
        IF field \in DOMAIN options THEN options[field] ELSE field = "to" => to]

\* send() up to its first await: the bucket, then validateParams.  A call whose
\* parameters are not valid has paid its token by then.
Send(m, params) ==
    /\ mail[m] = "new"
    /\ lastRefill' = tick
    /\ IF Refilled <= 0
       THEN /\ tokens' = Refilled
            /\ mail' = [mail EXCEPT ![m] = "limited"]
            /\ UNCHANGED <<attempt, taken>>
       ELSE /\ tokens' = Refilled - Parts
            /\ taken' = [t \in Tick |-> IF t <= tick THEN taken[t] + Parts ELSE taken[t]]
            /\ mail' = [mail EXCEPT ![m] = IF Valid(params) THEN "trying" ELSE "invalid"]
            /\ attempt' = [attempt EXCEPT ![m] = IF Valid(params) THEN 1 ELSE 0]
    /\ UNCHANGED tick

\* doSend() returns a message id.
Accepted(m) ==
    /\ mail[m] = "trying"
    /\ mail' = [mail EXCEPT ![m] = "sent"]
    /\ UNCHANGED <<tokens, lastRefill, tick, attempt, taken>>

\* What the message of an error names, as isRetryable() looks for it.
Failure == {"timeout", "econnrefused", "econnreset", "rate limit", "429",
            "500", "502", "503", "504", "401", "other"}

IsRetryable(error) == error \notin {"504", "401", "other"}

\* The catch of an attempt: isRetryable, then the last attempt or the backoff.
Rejected(m, error) ==
    /\ mail[m] = "trying"
    /\ mail' = [mail EXCEPT ![m] =
                   IF IsRetryable(error) /\ attempt[m] < MaxRetries THEN "waiting" ELSE "failed"]
    /\ UNCHANGED <<tokens, lastRefill, tick, attempt, taken>>

\* The sleep of calculateBackoff(attempt) is over; no token is asked for.
Retry(m) ==
    /\ mail[m] = "waiting"
    /\ mail' = [mail EXCEPT ![m] = "trying"]
    /\ attempt' = [attempt EXCEPT ![m] = @ + 1]
    /\ UNCHANGED <<tokens, lastRefill, tick, taken>>

PassTick ==
    /\ tick < MaxTicks
    /\ tick' = tick + 1
    /\ UNCHANGED <<tokens, lastRefill, mail, attempt, taken>>

EmailNext ==
    \/ \E m \in Mail :
           \/ \E params \in Params : Send(m, params)
           \/ \E to \in BOOLEAN, fields \in SUBSET {"to", "subject", "body"} :
                  \E options \in [fields -> BOOLEAN] : Send(m, Templated(to, options))
           \/ \E error \in Failure : Rejected(m, error)
           \/ Accepted(m)
           \/ Retry(m)
    \/ PassTick

EmailSpec == EmailInit /\ [][EmailNext]_emailVars

-----------------------------------------------------------------------------
\* In every stretch of time the service lets through no more sends than a full
\* bucket, what the stretch refilled, and one send more: a send is let through
\* while any fraction of a token is left, and leaves the bucket below zero
\* (send, refillTokens).
SendsWithinRate ==
    \A t \in Tick :
        t <= tick => taken[t] < Full + (tick - t) * Refill + Parts

-----------------------------------------------------------------------------
(* The inductive invariant: what was taken and what is left come from a    *)
(* full bucket and the ticks that have been refilled.                      *)

TokensConserved ==
    /\ -Parts < tokens /\ tokens <= Full
    /\ lastRefill <= tick
    /\ \A t \in Tick :
           /\ t <= lastRefill => taken[t] + tokens <= Full + (lastRefill - t) * Refill
           /\ lastRefill < t => taken[t] = 0

EmailIInv ==
    /\ EmailTypeOK
    /\ TokensConserved
    /\ \A m \in Mail : mail[m] = "waiting" => attempt[m] < MaxRetries

=============================================================================
