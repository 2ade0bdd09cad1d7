------------------------------ MODULE Sessions ------------------------------
(***************************************************************************)
(* AuthService and JwtStrategy over the sessions table.  Every statement   *)
(* is a transaction of its own; between two of them anything else may run, *)
(* and the process may be lost.  A refresh token is known by the session   *)
(* that holds its hash, and so is the access token issued with it; hashing *)
(* and comparing read nothing that can change.                             *)
(***************************************************************************)
EXTENDS Naturals, FiniteSets

CONSTANTS
    User,
    Session,    \* bound: the sessions that can be created
    Request,    \* requests being served at a time
    None        \* no session, no user

ASSUME SessionAssumption == None \notin Session \cup User

VARIABLES
    row,        \* each session: "unborn", "live" (revokedAt null), "revoked", "deleted"
    owner,      \* its userId
    expired,    \* whether its expiresAt has passed
    parent,     \* history: the session its refresh rotated, None after a login
    active,     \* users with status ACTIVE
    pc,         \* what each request does next
    user,       \* the user it is about
    tok,        \* the session of the token it was sent, None for a login
    raced,      \* history: sessions two requests matched at the same time
    barred,     \* history: requests whose user has been inactive since they began
    closed      \* history: users whose sessions were all revoked, with nothing under way

request == <<pc, user, tok>>
vars == <<row, owner, expired, parent, active, request, raced, barred, closed>>

Init ==
    /\ row = [s \in Session |-> "unborn"]
    /\ owner = [s \in Session |-> None]
    /\ expired = [s \in Session |-> FALSE]
    /\ parent = [s \in Session |-> None]
    /\ active = User
    /\ pc = [p \in Request |-> "idle"]
    /\ user = [p \in Request |-> None]
    /\ tok = [p \in Request |-> None]
    /\ raced = {}
    /\ barred = {}
    /\ closed = {}

Live(s) == row[s] = "live"
Born(s) == row[s] # "unborn"
SessionsOf(u) == {s \in Session : Live(s) /\ owner[s] = u}

\* Requests of u that hold on to something they read: a session matched, a
\* session check passed, a new pair about to be stored.
UnderWay(u) ==
    {p \in Request : user[p] = u /\ pc[p] \in {"rotate", "load", "issue", "check", "accepted"}}

Begin(p, u, s, at) ==
    /\ pc[p] = "idle"
    /\ pc' = [pc EXCEPT ![p] = at]
    /\ user' = [user EXCEPT ![p] = u]
    /\ tok' = [tok EXCEPT ![p] = s]
    /\ barred' = IF u \in active THEN barred ELSE barred \cup {p}

Goto(p, at) == pc' = [pc EXCEPT ![p] = at] /\ UNCHANGED <<user, tok, barred>>

Return(p) ==
    /\ pc' = [pc EXCEPT ![p] = "idle"]
    /\ user' = [user EXCEPT ![p] = None]
    /\ tok' = [tok EXCEPT ![p] = None]
    /\ barred' = barred \ {p}

\* Mutant: sessions that have expired are left alone.
RevokeSessionsUnexpired(u) ==
    /\ row' = [s \in Session |-> IF s \in SessionsOf(u) /\ ~ expired[s] THEN "revoked" ELSE row[s]]
    /\ closed' = IF UnderWay(u) = {} THEN closed \cup {u} ELSE closed

\* UPDATE sessions SET revoked_at WHERE user_id = u AND revoked_at IS NULL.
RevokeSessions(u) ==
    /\ row' = [s \in Session |-> IF s \in SessionsOf(u) THEN "revoked" ELSE row[s]]
    /\ closed' = IF UnderWay(u) = {} THEN closed \cup {u} ELSE closed

-----------------------------------------------------------------------------
(* generateTokenPair.                                                      *)

\* The controller calls it with no check of its own.
Login(p, u) ==
    /\ Begin(p, u, None, "issue")
    /\ closed' = closed \ {u}
    /\ UNCHANGED <<row, owner, expired, parent, active, raced>>

Issue(p) ==
    /\ pc[p] = "issue"
    /\ \E s \in Session :
        /\ ~ Born(s)
        /\ row' = [row EXCEPT ![s] = "live"]
        /\ owner' = [owner EXCEPT ![s] = user[p]]
        /\ parent' = [parent EXCEPT ![s] = tok[p]]
    /\ Return(p)
    /\ UNCHANGED <<expired, active, raced, closed>>

-----------------------------------------------------------------------------
(* refreshTokens.                                                          *)

\* Mutant: the search takes revoked sessions in.
MatchesRevoked(s) == row[s] \in {"live", "revoked"} /\ ~ expired[s]

Matches(s) == Live(s) /\ ~ expired[s]

Refresh(p, s) ==
    /\ Born(s)
    /\ Begin(p, owner[s], s, IF Matches(s) THEN "rotate" ELSE "revokeAll")
    /\ raced' = IF Matches(s) /\ \E q \in Request \ {p} : pc[q] = "rotate" /\ tok[q] = s
                THEN raced \cup {s} ELSE raced
    /\ UNCHANGED <<row, owner, expired, parent, active, closed>>

\* No session matched: the token is taken for a stolen one.
RevokeAll(p) ==
    /\ pc[p] = "revokeAll"
    /\ RevokeSessions(user[p])
    /\ Return(p)
    /\ UNCHANGED <<owner, expired, parent, active, raced>>

\* Mutant: the update asks for sessions that have not expired.
RotateUnexpired(p) ==
    /\ pc[p] = "rotate"
    /\ row' = IF expired[tok[p]] THEN row ELSE [row EXCEPT ![tok[p]] = "revoked"]
    /\ IF row[tok[p]] = "deleted" THEN Return(p) ELSE Goto(p, "load")
    /\ UNCHANGED <<owner, expired, parent, active, raced, closed>>

\* The matched session is revoked; the update throws if it has been deleted.
Rotate(p) ==
    /\ pc[p] = "rotate"
    /\ IF row[tok[p]] = "deleted"
       THEN row' = row /\ Return(p)
       ELSE row' = [row EXCEPT ![tok[p]] = "revoked"] /\ Goto(p, "load")
    /\ UNCHANGED <<owner, expired, parent, active, raced, closed>>

\* Mutant: the status of the user is not looked at.
LoadUserAny(p) ==
    /\ pc[p] = "load"
    /\ Goto(p, "issue")
    /\ UNCHANGED <<row, owner, expired, parent, active, raced, closed>>

LoadUser(p) ==
    /\ pc[p] = "load"
    /\ IF user[p] \in active THEN Goto(p, "issue") ELSE Return(p)
    /\ UNCHANGED <<row, owner, expired, parent, active, raced, closed>>

-----------------------------------------------------------------------------
(* revokeToken, revokeAllTokens, cleanupExpiredSessions.                   *)

\* Logout with a token: an unrevoked session that matches, or else all.
Logout(p, s) ==
    /\ Born(s)
    /\ Begin(p, owner[s], s, IF Live(s) THEN "logout" ELSE "revokeAll")
    /\ UNCHANGED <<row, owner, expired, parent, active, raced, closed>>

RevokeToken(p) ==
    /\ pc[p] = "logout"
    /\ row' = IF row[tok[p]] = "deleted" THEN row ELSE [row EXCEPT ![tok[p]] = "revoked"]
    /\ Return(p)
    /\ UNCHANGED <<owner, expired, parent, active, raced, closed>>

\* Also logout without a token.
RevokeAllTokens(u) ==
    /\ RevokeSessions(u)
    /\ UNCHANGED <<owner, expired, parent, active, request, raced, barred>>

CleanupExpiredSessions ==
    /\ row' = [s \in Session |-> IF row[s] = "revoked" /\ expired[s] THEN "deleted" ELSE row[s]]
    /\ row' # row
    /\ UNCHANGED <<owner, expired, parent, active, request, raced, barred, closed>>

-----------------------------------------------------------------------------
(* JwtStrategy.validate, for an access token issued with session s.  The   *)
(* token expires long before the session does.                             *)

Validate(p, s) ==
    /\ Born(s) /\ ~ expired[s]
    /\ SessionsOf(owner[s]) # {}
    /\ Begin(p, owner[s], s, "check")
    /\ UNCHANGED <<row, owner, expired, parent, active, raced, closed>>

CheckUser(p) ==
    /\ pc[p] = "check"
    /\ IF user[p] \in active THEN Goto(p, "accepted") ELSE Return(p)
    /\ UNCHANGED <<row, owner, expired, parent, active, raced, closed>>

\* The guarded handler has run.
Answer(p) ==
    /\ pc[p] = "accepted"
    /\ Return(p)
    /\ UNCHANGED <<row, owner, expired, parent, active, raced, closed>>

-----------------------------------------------------------------------------

Expire(s) ==
    /\ Born(s) /\ ~ expired[s]
    /\ expired' = [expired EXCEPT ![s] = TRUE]
    /\ UNCHANGED <<row, owner, parent, active, request, raced, barred, closed>>

\* An administrator, or the user aggregate, moves the user in or out of ACTIVE.
SetStatus(u) ==
    /\ IF u \in active
       THEN active' = active \ {u} /\ UNCHANGED barred
       ELSE active' = active \cup {u} /\ barred' = {p \in barred : user[p] # u}
    /\ UNCHANGED <<row, owner, expired, parent, request, raced, closed>>

\* The process serving p is lost, or its next statement fails.
Crash(p) ==
    /\ pc[p] # "idle"
    /\ Return(p)
    /\ UNCHANGED <<row, owner, expired, parent, active, raced, closed>>

Step(p) ==
    \/ Issue(p) \/ RevokeAll(p) \/ Rotate(p) \/ LoadUser(p) \/ RevokeToken(p)
    \/ CheckUser(p) \/ Answer(p) \/ Crash(p)

Next ==
    \/ \E p \in Request :
        \/ Step(p)
        \/ \E u \in User : Login(p, u)
        \/ \E s \in Session : Refresh(p, s) \/ Logout(p, s) \/ Validate(p, s)
    \/ \E u \in User : RevokeAllTokens(u) \/ SetStatus(u)
    \/ \E s \in Session : Expire(s)
    \/ CleanupExpiredSessions

Spec == Init /\ [][Next]_vars

-----------------------------------------------------------------------------
(* Properties.                                                             *)

(* Rows and requests keep their types.                                     *)
TypeOK ==
    /\ row \in [Session -> {"unborn", "live", "revoked", "deleted"}]
    /\ owner \in [Session -> User \cup {None}]
    /\ expired \in [Session -> BOOLEAN]
    /\ parent \in [Session -> Session \cup {None}]
    /\ active \subseteq User
    /\ pc \in [Request -> {"idle", "issue", "rotate", "revokeAll", "load", "logout", "check", "accepted"}]
    /\ user \in [Request -> User \cup {None}]
    /\ tok \in [Request -> Session \cup {None}]
    /\ raced \subseteq Session
    /\ barred \subseteq Request
    /\ closed \subseteq User
    /\ \A s \in Session : Born(s) => owner[s] \in User
    /\ \A p \in Request : pc[p] # "idle" => user[p] \in User

(* Rotation never leaves two doors open: once a refresh has issued a new   *)
(* session, or is about to, the old one is revoked ("old refresh token     *)
(* invalidated on use"), whatever crashes, expires or logs out meanwhile.  *)
RotationRevokes ==
    /\ \A s \in Session : parent[s] # None => ~ Live(parent[s])
    /\ \A p \in Request : pc[p] \in {"load", "issue"} /\ tok[p] # None => ~ Live(tok[p])

Children(s) == {c \in Session : parent[c] = s}

(* A refresh token yields a second pair only when two refreshes searched   *)
(* for it before either revoked it; a reuse that comes later finds nothing.*)
SecondUseOverlaps == \A s \in Session \ raced : Cardinality(Children(s)) <= 1

(* When all sessions of a user have been revoked while nothing of that     *)
(* user's was under way, only a login lets the user back in: no refresh    *)
(* revives a session and no access token is accepted.                      *)
RevocationHolds == \A u \in closed : SessionsOf(u) = {} /\ UnderWay(u) = {}

(* A user who has not been ACTIVE since the request began gets neither a   *)
(* refreshed pair nor an answer.                                           *)
InactiveBarred ==
    \A p \in barred : pc[p] # "accepted" /\ ~ (pc[p] = "issue" /\ tok[p] # None)

-----------------------------------------------------------------------------
(* The inductive invariant.                                                *)

\* A request that has the right to trade s in.
Holder(p, s) == tok[p] = s /\ pc[p] \in {"rotate", "load", "issue"}

(* What tokens and parents refer to exists.                                *)
RefersToBorn ==
    /\ \A s \in Session : parent[s] # None => Born(parent[s])
    /\ \A p \in Request : tok[p] # None => Born(tok[p])
    /\ \A p \in Request : pc[p] \in {"rotate", "load", "revokeAll", "logout", "check"} => tok[p] # None

(* The right to trade a session in is held once, and used once.            *)
OneTrade ==
    \A s \in Session \ raced :
        /\ \A p, q \in Request : Holder(p, s) /\ Holder(q, s) => p = q
        /\ \A c \in Session : parent[c] = s => \A p \in Request : ~ Holder(p, s)
        /\ \A c, d \in Session : parent[c] = s /\ parent[d] = s => c = d

(* A barred request is one whose user is not ACTIVE.                       *)
BarredInactive == \A p \in barred : pc[p] # "idle" /\ user[p] \notin active

IInv ==
    /\ TypeOK
    /\ RefersToBorn
    /\ RotationRevokes
    /\ OneTrade
    /\ RevocationHolds
    /\ BarredInactive
    /\ InactiveBarred

-----------------------------------------------------------------------------
(* The abstract specification.                                             *)

\* An expired session counts as live until a statement revokes it.
TokenState ==
    [s \in Session |-> CASE row[s] = "unborn" -> "unissued"
                         [] row[s] = "live" -> "live"
                         [] OTHER -> "spent"]

Claimed == [p \in Request |-> IF pc[p] \in {"rotate", "load", "issue"} THEN tok[p] ELSE None]

Abstract == INSTANCE Rotation WITH
    Token <- Session, Party <- Request, state <- TokenState, claim <- Claimed, rivals <- raced

(* Refresh, rotation, logout and the revocation of all sessions implement  *)
(* refresh tokens that are "one-time use": a revoked session never comes   *)
(* back, a refresh that goes on has matched a live one, its pair is issued *)
(* when the old session is revoked ("old refresh token invalidated on      *)
(* use"), and a second pair takes two refreshes that overlapped.           *)
SessionsImplementRotation == Abstract!Spec

=============================================================================
