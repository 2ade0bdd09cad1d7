---------------------------- MODULE UserAggregate ----------------------------
(***************************************************************************)
(* UserAggregate: one user with its roles and sessions in memory.  Calls   *)
(* go through the aggregate, as its header asks; the user itself moves as  *)
(* UserEntity says, one operator per method of User.                       *)
(***************************************************************************)
EXTENDS UserEntity

CONSTANTS
    Role,
    SessionId,
    Address,        \* e-mail addresses
    MaxSessions,    \* bound: sessions an aggregate holds
    MaxCount        \* bound: versions of the user

ASSUME AggregateAssumption == {MaxSessions, MaxCount} \subseteq Nat

VARIABLES
    user,
    roles,
    sessions,       \* the array of SessionInfo
    outcast         \* history: places of the sessions suspend() or deactivate() ended

aggregateVars == <<user, roles, sessions, outcast>>

\* The users that an aggregate holds.
Person ==
    [email : Address, status : Status, verified : BOOLEAN, version : 1..(MaxCount + 1),
     events : Seq({"UserCreated", "UserStatusChanged"})]

\* A session as revokedAt and expiresAt leave it; a revoked one may have expired.
SessionInfo == [id : SessionId, standing : {"live", "expired", "revoked"}]

AggregateTypeOK ==
    /\ user \in Person
    /\ roles \subseteq Role
    /\ sessions \in Seq(SessionInfo)
    /\ Len(sessions) <= MaxSessions
    /\ outcast \subseteq DOMAIN sessions

\* UserAggregate.create()
AggregateInit ==
    /\ \E e \in Address : user = NewUser(e)
    /\ roles = {}
    /\ sessions = <<>>
    /\ outcast = {}

AssignRole(r) ==
    /\ r \notin roles
    /\ roles' = roles \cup {r}
    /\ UNCHANGED <<user, sessions, outcast>>

RemoveRole(r) ==
    /\ roles' = roles \ {r}
    /\ UNCHANGED <<user, sessions, outcast>>

\* Mutant: the status of the user is not asked for.
AddSessionVerified(s) ==
    /\ user.verified
    /\ Len(sessions) < MaxSessions
    /\ sessions' = Append(sessions, s)
    /\ UNCHANGED <<user, roles, outcast>>

\* Whatever the caller hands over is taken: an id that is there already, a
\* session that is over.
AddSession(s) ==
    /\ user.status = "ACTIVE"
    /\ user.verified
    /\ Len(sessions) < MaxSessions
    /\ sessions' = Append(sessions, s)
    /\ UNCHANGED <<user, roles, outcast>>

\* The session's expiresAt goes by; expiry is no reason not to be revoked.
Expire(i) ==
    /\ sessions[i].standing = "live"
    /\ sessions' = [sessions EXCEPT ![i].standing = "expired"]
    /\ UNCHANGED <<user, roles, outcast>>

\* revokeSession() looks at the first session of that id.
IsFirst(i) == \A j \in 1..(i - 1) : sessions[j].id # sessions[i].id

RevokeSession(i) ==
    /\ IsFirst(i)
    /\ sessions[i].standing # "revoked"
    /\ sessions' = [sessions EXCEPT ![i].standing = "revoked"]
    /\ UNCHANGED <<user, roles, outcast>>

\* revokeAllSessions()
AllRevoked == [i \in DOMAIN sessions |-> [sessions[i] EXCEPT !.standing = "revoked"]]

ActiveSessions == {i \in DOMAIN sessions : sessions[i].standing = "live"}

RevokeAllSessions ==
    /\ sessions' = AllRevoked
    /\ UNCHANGED <<user, roles, outcast>>

\* suspend() and deactivate(): the user first, which may throw, then every
\* session.
CastOut(moved) ==
    /\ user' = moved
    /\ sessions' = AllRevoked
    /\ outcast' = outcast \cup ActiveSessions
    /\ UNCHANGED roles

SuspendUser == MaySuspend(user) /\ CastOut(Suspend(user))
DeactivateUser == CastOut(Deactivate(user))

\* The methods that only pass the call on to the user.
Delegate(moved) ==
    /\ user' = moved
    /\ UNCHANGED <<roles, sessions, outcast>>

DelegatedCall ==
    \/ MayActivate(user) /\ Delegate(Activate(user))
    \/ MayVerifyEmail(user) /\ Delegate(VerifyEmail(user))
    \/ MayRecordLogin(user) /\ Delegate(RecordLogin(user))
    \/ Delegate(ChangePassword(user))
    \/ Delegate(UpdateProfile(user))
    \/ \E e \in Address : Delegate(ChangeEmail(user, e))
    \/ Delegate(Reconstituted(user))

AggregateNext ==
    \/ \E r \in Role : AssignRole(r) \/ RemoveRole(r)
    \/ \E s \in SessionInfo : AddSession(s)
    \/ \E i \in DOMAIN sessions : Expire(i) \/ RevokeSession(i)
    \/ RevokeAllSessions
    \/ user.version <= MaxCount /\ (SuspendUser \/ DeactivateUser \/ DelegatedCall)

AggregateSpec == AggregateInit /\ [][AggregateNext]_aggregateVars

-----------------------------------------------------------------------------
\* A suspended or deactivated user has no active session, and a session that
\* ended with a suspension or a deactivation never comes back, whatever the
\* user's status does afterwards: not by activation, nor by a change of e-mail,
\* which moves a suspended user to PENDING_VERIFICATION (suspend, deactivate).
OutcastHasNoSession ==
    /\ user.status \in {"SUSPENDED", "INACTIVE"} => ActiveSessions = {}
    /\ outcast \cap ActiveSessions = {}

\* The inductive invariant: a session that was live when its user was cast out
\* is revoked, which no method undoes.
OutcastRevoked == \A i \in outcast : sessions[i].standing = "revoked"

AggregateIInv == AggregateTypeOK /\ OutcastRevoked /\ OutcastHasNoSession

=============================================================================
