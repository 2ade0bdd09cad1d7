------------------------------ MODULE UseCases ------------------------------
(***************************************************************************)
(* CreateUserUseCase, AuthenticateUserUseCase and RefreshTokenUseCase for  *)
(* one user over the session port: every call of a port is a step, calls   *)
(* overlap, and one may be lost between two of its steps.  A session is    *)
(* named by its refresh token.  The port's adapter is not in the           *)
(* repository; its operations do what their names and callers say.  The    *)
(* domain service behind the first two is the one that Users models.       *)
(***************************************************************************)
EXTENDS Naturals

CONSTANTS
    Call,           \* executions at a time
    Token,          \* refresh tokens; each is generated once
    NoToken

ASSUME UseCasesAssumption == NoToken \notin Token

VARIABLES
    account,        \* the user: "none", "pending", "active" or "inactive"
    session,        \* "none", "live", "expired" or "revoked", for each token
    step,           \* what each call does next
    token,          \* the refresh token it was given
    parent,         \* history: the token a session replaced, NoToken for a login
    raced,          \* history: tokens a second call found live while a first
                    \* one that had found them live had not revoked them
    late            \* history: calls that found the user active before it was not

sessionRows == <<session, parent>>
useCaseVars == <<account, sessionRows, step, token, raced, late>>

UseCaseTypeOK ==
    /\ account \in {"none", "pending", "active", "inactive"}
    /\ session \in [Token -> {"none", "live", "expired", "revoked"}]
    /\ step \in [Call -> {"idle", "reuse", "load", "revoke", "create"}]
    /\ token \in [Call -> Token \cup {NoToken}]
    /\ parent \in [Token -> Token \cup {NoToken}]
    /\ raced \subseteq Token
    /\ late \subseteq Call

UseCaseInit ==
    /\ account = "none"
    /\ session = [t \in Token |-> "none"]
    /\ step = [c \in Call |-> "idle"]
    /\ token = [c \in Call |-> NoToken]
    /\ parent = [t \in Token |-> NoToken]
    /\ raced = {}
    /\ late = {}

Then(c, next) == step' = [step EXCEPT ![c] = next] /\ UNCHANGED <<token, late>>

\* The call returns its Result, and forgets.
Tell(c) ==
    /\ step' = [step EXCEPT ![c] = "idle"]
    /\ token' = [token EXCEPT ![c] = NoToken]
    /\ late' = late \ {c}

\* CreateUserUseCase: the value objects, then registerUser in a unit of work.
CreateUser(c, valid) ==
    /\ step[c] = "idle"
    /\ account' = IF valid /\ account = "none" THEN "pending" ELSE account
    /\ UNCHANGED <<sessionRows, step, token, raced, late>>

\* AuthenticateUserUseCase: the domain service's answer, then the session.
Authenticate(c, correct) ==
    /\ step[c] = "idle"
    /\ IF account = "active" /\ correct THEN Then(c, "create") ELSE Tell(c)
    /\ UNCHANGED <<account, sessionRows, raced>>

\* Mutant: a revoked session is treated like a live one.
FindAny(c, t) ==
    /\ step[c] = "idle"
    /\ IF session[t] \in {"live", "revoked"}
       THEN /\ step' = [step EXCEPT ![c] = "load"]
            /\ token' = [token EXCEPT ![c] = t]
       ELSE UNCHANGED <<step, token>>
    /\ raced' = IF /\ session[t] = "live"
                   /\ \E d \in Call \ {c} : token[d] = t /\ step[d] \in {"load", "revoke"}
                THEN raced \cup {t} ELSE raced
    /\ UNCHANGED <<account, sessionRows, late>>

\* RefreshTokenUseCase up to its second await: the session, as it is now; no
\* session and an expired one end the call.
Find(c, t) ==
    /\ step[c] = "idle"
    /\ IF session[t] \in {"live", "revoked"}
       THEN /\ step' = [step EXCEPT ![c] = IF session[t] = "live" THEN "load" ELSE "reuse"]
            /\ token' = [token EXCEPT ![c] = t]
       ELSE UNCHANGED <<step, token>>
    /\ raced' = IF /\ session[t] = "live"
                   /\ \E d \in Call \ {c} : token[d] = t /\ step[d] \in {"load", "revoke"}
                THEN raced \cup {t} ELSE raced
    /\ UNCHANGED <<account, sessionRows, late>>

\* A revoked token was used again: revokeAllForUser.
RevokeAll(c) ==
    /\ step[c] = "reuse"
    /\ session' = [t \in Token |-> IF session[t] = "none" THEN "none" ELSE "revoked"]
    /\ Tell(c)
    /\ UNCHANGED <<account, parent, raced>>

\* Mutant: the status of the user is not asked for.
LoadAny(c) ==
    /\ step[c] = "load"
    /\ Then(c, "revoke")
    /\ UNCHANGED <<account, sessionRows, raced>>

Load(c) ==
    /\ step[c] = "load"
    /\ IF account = "active" THEN Then(c, "revoke") ELSE Tell(c)
    /\ UNCHANGED <<account, sessionRows, raced>>

\* The old session goes first, by its id, whatever has become of it.
Revoke(c) ==
    /\ step[c] = "revoke"
    /\ session' = [session EXCEPT ![token[c]] = "revoked"]
    /\ Then(c, "create")
    /\ UNCHANGED <<account, parent, raced>>

\* The new session, under a token nobody has had.
Create(c) ==
    /\ step[c] = "create"
    /\ \E t \in Token :
           /\ session[t] = "none"
           /\ session' = [session EXCEPT ![t] = "live"]
           /\ parent' = [parent EXCEPT ![t] = token[c]]
    /\ Tell(c)
    /\ UNCHANGED <<account, raced>>

\* A port throws, or the process is lost.
Lose(c) ==
    /\ step[c] # "idle"
    /\ Tell(c)
    /\ UNCHANGED <<account, sessionRows, raced>>

\* Other code verifies, activates and deactivates the user; time goes by.
SetAccount(status) ==
    /\ account # "none"
    /\ account' = status
    /\ late' = IF account = "active" /\ status # "active"
               THEN late \cup {c \in Call : step[c] \in {"revoke", "create"}} ELSE late
    /\ UNCHANGED <<sessionRows, step, token, raced>>

Outlive(t) ==
    /\ session[t] = "live"
    /\ session' = [session EXCEPT ![t] = "expired"]
    /\ UNCHANGED <<account, parent, step, token, raced, late>>

UseCaseNext ==
    \/ \E c \in Call :
           \/ \E b \in BOOLEAN : CreateUser(c, b) \/ Authenticate(c, b)
           \/ \E t \in Token : Find(c, t)
           \/ RevokeAll(c) \/ Load(c) \/ Revoke(c) \/ Create(c) \/ Lose(c)
    \/ \E s \in {"active", "inactive"} : SetAccount(s)
    \/ \E t \in Token : Outlive(t)

UseCaseSpec == UseCaseInit /\ [][UseCaseNext]_useCaseVars

-----------------------------------------------------------------------------
\* A session that replaced another never lives beside it, wherever calls are
\* lost: the old one is revoked before the new one exists (RefreshTokenUseCase,
\* step 5).  And two sessions replaced the same one only if two calls found it
\* live before either had revoked it: a token that is merely used twice, one
\* use after the other, never yields two (steps 2 and 5).
RotationSound ==
    /\ \A t \in Token : parent[t] # NoToken => session[parent[t]] = "revoked"
    /\ \A t, u \in Token :
           t # u /\ parent[t] # NoToken /\ parent[t] = parent[u] => parent[t] \in raced

\* No session appears while the user is not active, except from a call that had
\* found the user active before (authenticate, step 4 of the refresh).
InactiveGetsNoSession ==
    [][\A t \in Token :
           session[t] = "none" /\ session'[t] = "live" /\ account # "active" =>
               \E c \in late : step[c] = "create"]_useCaseVars

-----------------------------------------------------------------------------
(* The inductive invariant.                                                *)

\* Call c is refreshing the session of t, or about to store the one after it.
Claims(c, t) == token[c] = t /\ step[c] \in {"load", "revoke", "create"}

\* A token that has been found stands for a session that was stored; one whose
\* successor is about to be stored, or has been, is revoked.
ClaimsStored ==
    /\ \A c \in Call : step[c] = "idle" => token[c] = NoToken
    /\ \A c \in Call : step[c] \in {"load", "revoke"} => token[c] # NoToken
    /\ \A c \in Call : token[c] # NoToken => session[token[c]] # "none"
    /\ \A c \in Call : step[c] = "create" /\ token[c] # NoToken => session[token[c]] = "revoked"

\* Two claims to be the successor of t, by calls or by sessions, make it raced.
ClaimsRaced ==
    \A t \in Token \ raced :
        /\ \A c, d \in Call : Claims(c, t) /\ Claims(d, t) => c = d
        /\ \A c \in Call, u \in Token : Claims(c, t) => parent[u] # t

LateKnown ==
    \A c \in Call : step[c] \in {"revoke", "create"} /\ account # "active" => c \in late

UseCaseIInv == UseCaseTypeOK /\ ClaimsStored /\ ClaimsRaced /\ LateKnown /\ RotationSound

-----------------------------------------------------------------------------
(* The abstract specification.                                             *)

\* Expiry does not spend a token: a call that found it before goes on.
TokenState ==
    [t \in Token |-> CASE session[t] = "none" -> "unissued"
                       [] session[t] = "revoked" -> "spent"
                       [] OTHER -> "live"]

Claimed == [c \in Call |-> IF step[c] \in {"load", "revoke", "create"} THEN token[c] ELSE NoToken]

Rotated == INSTANCE Rotation WITH
    Party <- Call, None <- NoToken, state <- TokenState, claim <- Claimed, rivals <- raced

\* The refresh use case, with the logins beside it, implements the rotation of
\* refresh tokens: whatever calls overlap or are lost, a revoked token stays
\* revoked and is never taken for a live one (step 2), its successor is stored
\* when it is revoked (step 5), and a second one takes two overlapping calls.
UseCasesImplementRotation == Rotated!Spec

=============================================================================
