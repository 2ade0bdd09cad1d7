---------------------------- MODULE DomainProofs ----------------------------
(***************************************************************************)
(* What UserAggregate, the use cases over sessions, role changes, the      *)
(* delivery of domain events, chains of Results and pagination promise,    *)
(* for any number of sessions, tokens, members, overlapping calls, events, *)
(* slots, handlers, calls in a chain and rows of a table.                  *)
(***************************************************************************)
EXTENDS UserAggregate, UseCases, Organizations, Events, Results, Paging,
        FiniteSetTheorems, SequenceTheorems, TLAPS

-----------------------------------------------------------------------------
(* UserAggregate.  What the methods of User return.                        *)

LEMMA CountedPerson ==
    ASSUME NEW u \in Person, u.version <= MaxCount
    PROVE  Counted(u) \in Person /\ Counted(u).status = u.status
BY AggregateAssumption DEF Counted, Person

LEMMA MovedPerson ==
    ASSUME NEW u \in Person, u.version <= MaxCount, NEW st \in Status
    PROVE  Moved(u, st) \in Person /\ Moved(u, st).status = st
<1>1. Counted(u) \in Person
  BY CountedPerson
<1>2. Append(Counted(u).events, "UserStatusChanged") \in Seq({"UserCreated", "UserStatusChanged"})
  BY <1>1 DEF Person
<1>3. QED
  BY <1>1, <1>2 DEF Moved, Person

\* A method that the aggregate only passes on moves nobody to SUSPENDED or
\* INACTIVE.
LEMMA DelegatedPerson ==
    ASSUME AggregateIInv, user.version <= MaxCount, DelegatedCall
    PROVE  /\ user' \in Person
           /\ user'.status \in {"SUSPENDED", "INACTIVE"} => user'.status = user.status
           /\ UNCHANGED <<roles, sessions, outcast>>
<1> DEFINE Kept(u) == /\ u \in Person
                      /\ u.status \in {"SUSPENDED", "INACTIVE"} => u.status = user.status
<1>1. user \in Person
  BY DEF AggregateIInv, AggregateTypeOK
<1>2. Kept(Activate(user))
  BY <1>1, MovedPerson DEF Activate, Status
<1>3. Kept(VerifyEmail(user))
  <2> DEFINE clicked == [user EXCEPT !.verified = TRUE]
  <2>1. clicked \in Person /\ clicked.version <= MaxCount /\ clicked.status = user.status
    BY <1>1 DEF Person
  <2>2. VerifyEmail(user) =
        IF user.status = "PENDING_VERIFICATION" THEN Moved(clicked, "ACTIVE") ELSE Counted(clicked)
    BY DEF VerifyEmail
  <2> HIDE DEF clicked
  <2>3. QED
    BY <2>1, <2>2, MovedPerson, CountedPerson DEF Status
<1>4. Kept(Counted(user))
  BY <1>1, CountedPerson
<1>5. ASSUME NEW e \in Address PROVE Kept(ChangeEmail(user, e))
  <2>1. Counted(user) \in Person
    BY <1>1, CountedPerson
  <2>2. QED
    BY <1>1, <2>1 DEF ChangeEmail, Person, Status
<1>6. Kept(Reconstituted(user))
  <2>1. <<>> \in Seq({"UserCreated", "UserStatusChanged"})
    OBVIOUS
  <2>2. QED
    BY <1>1, <2>1 DEF Reconstituted, Person
<1>7. UNCHANGED <<roles, sessions, outcast>>
  BY DEF DelegatedCall, Delegate
<1>8. \/ user' = Activate(user) \/ user' = VerifyEmail(user) \/ user' = Counted(user)
      \/ user' = Reconstituted(user) \/ \E e \in Address : user' = ChangeEmail(user, e)
  BY DEF DelegatedCall, Delegate, RecordLogin, ChangePassword, UpdateProfile
<1>9. Kept(user')
  BY <1>2, <1>3, <1>4, <1>5, <1>6, <1>8
<1>10. QED
  BY <1>7, <1>9

LEMMA AggregateStart == AggregateInit => AggregateIInv
<1> SUFFICES ASSUME AggregateInit PROVE AggregateIInv
  OBVIOUS
<1>1. user \in Person /\ user.status = "PENDING_VERIFICATION"
  <2>1. <<"UserCreated">> \in Seq({"UserCreated", "UserStatusChanged"})
    OBVIOUS
  <2>2. 1 \in 1..(MaxCount + 1)
    BY AggregateAssumption
  <2>3. QED
    BY <2>1, <2>2 DEF AggregateInit, NewUser, Person, Status
<1>2. sessions \in Seq(SessionInfo) /\ Len(sessions) <= MaxSessions /\ DOMAIN sessions = {}
  BY AggregateAssumption DEF AggregateInit
<1>3. roles = {} /\ outcast = {}
  BY DEF AggregateInit
<1>4. QED
  BY <1>1, <1>2, <1>3 DEF AggregateIInv, AggregateTypeOK, OutcastRevoked,
                          OutcastHasNoSession, ActiveSessions

\* The array of sessions stays one, of the same length.
LEMMA SessionsKept ==
    ASSUME sessions \in Seq(SessionInfo), Len(sessions) <= MaxSessions, NEW after,
           DOMAIN after = DOMAIN sessions, after = [i \in DOMAIN sessions |-> after[i]],
           \A i \in DOMAIN sessions : after[i] \in SessionInfo
    PROVE  after \in Seq(SessionInfo) /\ Len(after) <= MaxSessions
<1>1. DOMAIN sessions = 1..Len(sessions) /\ Len(sessions) \in Nat
  OBVIOUS
<1>2. after \in [1..Len(sessions) -> SessionInfo]
  BY <1>1
<1>3. after \in Seq(SessionInfo)
  BY <1>1, <1>2, SeqDef
<1>4. Len(after) = Len(sessions)
  BY <1>1, <1>2, <1>3
<1>5. QED
  BY <1>3, <1>4

LEMMA RevokedAllKept ==
    ASSUME AggregateIInv, sessions' = AllRevoked
    PROVE  /\ sessions' \in Seq(SessionInfo) /\ Len(sessions') <= MaxSessions
           /\ DOMAIN sessions' = DOMAIN sessions
           /\ \A i \in DOMAIN sessions : sessions'[i].standing = "revoked"
<1>1. sessions \in Seq(SessionInfo) /\ Len(sessions) <= MaxSessions
  BY DEF AggregateIInv, AggregateTypeOK
<1>2. \A i \in DOMAIN sessions : sessions[i] \in SessionInfo
  BY <1>1
<1>3. /\ DOMAIN sessions' = DOMAIN sessions
      /\ sessions' = [i \in DOMAIN sessions |-> sessions'[i]]
      /\ \A i \in DOMAIN sessions : sessions'[i] = [sessions[i] EXCEPT !.standing = "revoked"]
  BY DEF AllRevoked
<1>4. \A i \in DOMAIN sessions : /\ sessions'[i] \in SessionInfo
                                /\ sessions'[i].standing = "revoked"
  BY <1>2, <1>3 DEF SessionInfo
<1>5. QED
  BY <1>1, <1>3, <1>4, SessionsKept

\* One session of the array has another standing.
LEMMA StandingKept ==
    ASSUME AggregateIInv, NEW i \in DOMAIN sessions, NEW st \in {"expired", "revoked"},
           st = "expired" => sessions[i].standing # "revoked",
           sessions' = [sessions EXCEPT ![i].standing = st],
           UNCHANGED <<user, roles, outcast>>
    PROVE  AggregateIInv'
<1>1. sessions \in Seq(SessionInfo) /\ Len(sessions) <= MaxSessions
  BY DEF AggregateIInv, AggregateTypeOK
<1>2. \A j \in DOMAIN sessions : sessions[j] \in SessionInfo
  BY <1>1
<1>3. /\ DOMAIN sessions' = DOMAIN sessions
      /\ sessions' = [j \in DOMAIN sessions |-> sessions'[j]]
      /\ sessions'[i] = [sessions[i] EXCEPT !.standing = st]
      /\ \A j \in DOMAIN sessions : j # i => sessions'[j] = sessions[j]
  BY <1>1
<1>4. \A j \in DOMAIN sessions : sessions'[j] \in SessionInfo
  BY <1>2, <1>3 DEF SessionInfo
<1>5. sessions' \in Seq(SessionInfo) /\ Len(sessions') <= MaxSessions
  BY <1>1, <1>3, <1>4, SessionsKept
<1>6. sessions'[i].standing = st
  BY <1>2, <1>3 DEF SessionInfo
<1>7. AggregateTypeOK'
  BY <1>3, <1>5 DEF AggregateIInv, AggregateTypeOK
<1>8. OutcastRevoked'
  BY <1>3, <1>6 DEF AggregateIInv, AggregateTypeOK, OutcastRevoked
<1>9. ActiveSessions' \subseteq ActiveSessions
  BY <1>3, <1>6 DEF ActiveSessions
<1>10. QED
  BY <1>7, <1>8, <1>9 DEF AggregateIInv, OutcastHasNoSession

\* An active user has one more session, at the end of the array.
LEMMA AddSessionInv ==
    ASSUME AggregateIInv, NEW s \in SessionInfo, AddSession(s)
    PROVE  AggregateIInv'
<1>1. /\ sessions \in Seq(SessionInfo) /\ Len(sessions) \in Nat /\ Len(sessions) < MaxSessions
      /\ sessions' = Append(sessions, s) /\ MaxSessions \in Nat
  BY AggregateAssumption DEF AddSession, AggregateIInv, AggregateTypeOK
<1>2. /\ sessions' \in Seq(SessionInfo) /\ Len(sessions') = Len(sessions) + 1
      /\ DOMAIN sessions = 1..Len(sessions) /\ DOMAIN sessions' = 1..(Len(sessions) + 1)
      /\ \A i \in DOMAIN sessions : i \in DOMAIN sessions' /\ sessions'[i] = sessions[i]
  BY <1>1
<1>3. outcast' = outcast /\ outcast \subseteq DOMAIN sessions /\ user.status = "ACTIVE"
      /\ UNCHANGED <<user, roles>>
  BY DEF AddSession, AggregateIInv, AggregateTypeOK
<1>4. AggregateTypeOK'
  BY <1>1, <1>2, <1>3 DEF AggregateIInv, AggregateTypeOK
<1>5. OutcastRevoked'
  BY <1>2, <1>3 DEF AggregateIInv, OutcastRevoked
<1>6. outcast' \cap ActiveSessions' = {}
  BY <1>5 DEF OutcastRevoked, ActiveSessions
<1>7. QED
  BY <1>3, <1>4, <1>5, <1>6 DEF AggregateIInv, OutcastHasNoSession

\* The status may be new, but every session of the user is over.
LEMMA CastOutInv ==
    ASSUME AggregateIInv, NEW moved \in Person, CastOut(moved)
    PROVE  AggregateIInv'
<1>1. /\ sessions' \in Seq(SessionInfo) /\ Len(sessions') <= MaxSessions
      /\ DOMAIN sessions' = DOMAIN sessions
      /\ \A i \in DOMAIN sessions : sessions'[i].standing = "revoked"
  BY RevokedAllKept DEF CastOut
<1>2. outcast' \subseteq DOMAIN sessions
  BY DEF CastOut, ActiveSessions, AggregateIInv, AggregateTypeOK
<1>3. AggregateTypeOK'
  BY <1>1, <1>2 DEF CastOut, AggregateIInv, AggregateTypeOK
<1>4. OutcastRevoked'
  BY <1>1, <1>2 DEF OutcastRevoked
<1>5. ActiveSessions' = {}
  BY <1>1 DEF ActiveSessions
<1>6. QED
  BY <1>3, <1>4, <1>5 DEF AggregateIInv, OutcastHasNoSession

LEMMA AggregateStep == AggregateIInv /\ [AggregateNext]_aggregateVars => AggregateIInv'
<1> SUFFICES ASSUME AggregateIInv, [AggregateNext]_aggregateVars PROVE AggregateIInv'
  OBVIOUS
<1> USE DEF AggregateIInv, AggregateTypeOK, OutcastRevoked, OutcastHasNoSession, ActiveSessions
<1>1. ASSUME NEW r \in Role, AssignRole(r) \/ RemoveRole(r) PROVE AggregateIInv'
  BY <1>1 DEF AssignRole, RemoveRole
<1>2. ASSUME NEW s \in SessionInfo, AddSession(s) PROVE AggregateIInv'
  BY <1>2, AddSessionInv
<1>3. ASSUME NEW i \in DOMAIN sessions, Expire(i) \/ RevokeSession(i) PROVE AggregateIInv'
  BY <1>3, StandingKept DEF Expire, RevokeSession
<1>4. CASE RevokeAllSessions
  BY <1>4, RevokedAllKept DEF RevokeAllSessions
<1>5. CASE user.version <= MaxCount /\ SuspendUser
  BY <1>5, MovedPerson, CastOutInv DEF SuspendUser, Suspend, Status
<1>6. CASE user.version <= MaxCount /\ DeactivateUser
  BY <1>6, MovedPerson, CastOutInv DEF DeactivateUser, Deactivate, Status
<1>7. CASE user.version <= MaxCount /\ DelegatedCall
  BY <1>7, DelegatedPerson
<1>8. CASE UNCHANGED aggregateVars
  BY <1>8 DEF aggregateVars
<1>9. QED
  BY <1>1, <1>2, <1>3, <1>4, <1>5, <1>6, <1>7, <1>8 DEF AggregateNext

(* A suspended or deactivated user has no active session, and what such a  *)
(* step ended never comes back, for any number of roles, sessions and      *)
(* versions (suspend, deactivate).                                         *)
THEOREM AggregateCastsOut == AggregateSpec => []OutcastHasNoSession
<1>1. AggregateIInv => OutcastHasNoSession
  BY DEF AggregateIInv
<1>2. QED
  BY <1>1, AggregateStart, AggregateStep, PTL DEF AggregateSpec

(* The aggregate keeps its types, its version and its bound, whatever the  *)
(* order of the calls.                                                     *)
THEOREM AggregateTypeCorrect == AggregateSpec => []AggregateTypeOK
<1>1. AggregateIInv => AggregateTypeOK
  BY DEF AggregateIInv
<1>2. QED
  BY <1>1, AggregateStart, AggregateStep, PTL DEF AggregateSpec

-----------------------------------------------------------------------------
(* The use cases.                                                          *)

LEMMA UseCaseStart == UseCaseInit => UseCaseIInv
BY UseCasesAssumption
   DEF UseCaseInit, UseCaseIInv, UseCaseTypeOK, ClaimsStored, ClaimsRaced, Claims, LateKnown,
       RotationSound

\* A call that ends, or is lost, gives up its claim.
LEMMA TellInv ==
    ASSUME UseCaseIInv, NEW c \in Call, Tell(c), UNCHANGED <<account, sessionRows, raced>>
    PROVE  UseCaseIInv'
<1> USE DEF UseCaseIInv, UseCaseTypeOK
<1>1. UseCaseTypeOK'
  BY DEF Tell, sessionRows
<1>2. ClaimsStored'
  BY DEF Tell, sessionRows, ClaimsStored
<1>3. ClaimsRaced'
  <2>1. \A d \in Call, t \in Token : Claims(d, t)' => Claims(d, t)
    BY DEF Tell, Claims
  <2>2. QED
    BY <2>1 DEF sessionRows, ClaimsRaced
<1>4. LateKnown'
  BY DEF Tell, LateKnown
<1>5. RotationSound'
  BY DEF sessionRows, RotationSound
<1>6. QED
  BY <1>1, <1>2, <1>3, <1>4, <1>5

\* A call that goes on from one claim to the next, or authenticates.
LEMMA ThenInv ==
    ASSUME UseCaseIInv, NEW c \in Call, NEW after \in {"revoke", "create"},
           Then(c, after), UNCHANGED <<account, sessionRows, raced>>,
           account = "active",
           \/ step[c] = "load" /\ after = "revoke"
           \/ step[c] = "idle" /\ after = "create"
    PROVE  UseCaseIInv'
<1> USE DEF UseCaseIInv, UseCaseTypeOK
<1>1. UseCaseTypeOK'
  BY DEF Then, sessionRows
<1>2. ClaimsStored'
  BY DEF Then, sessionRows, ClaimsStored
<1>3. ClaimsRaced'
  <2>1. \A d \in Call, t \in Token : Claims(d, t)' => Claims(d, t)
    BY UseCasesAssumption DEF Then, Claims, ClaimsStored
  <2>2. QED
    BY <2>1 DEF sessionRows, ClaimsRaced
<1>4. LateKnown'
  BY DEF Then, LateKnown
<1>5. RotationSound'
  BY DEF sessionRows, RotationSound
<1>6. QED
  BY <1>1, <1>2, <1>3, <1>4, <1>5

LEMMA FindInv ==
    ASSUME UseCaseIInv, NEW c \in Call, NEW t \in Token, Find(c, t)
    PROVE  UseCaseIInv'
<1> USE DEF UseCaseIInv, UseCaseTypeOK
<1>1. UNCHANGED <<account, session, parent, late>> /\ step[c] = "idle" /\ raced \subseteq raced'
  BY DEF Find, sessionRows
<1>2. CASE session[t] \notin {"live", "revoked"}
  <2>1. UNCHANGED <<step, token, raced>>
    BY <1>2 DEF Find
  <2>2. QED
    BY <1>1, <2>1 DEF ClaimsStored, ClaimsRaced, Claims, LateKnown, RotationSound
<1>3. CASE session[t] \in {"live", "revoked"}
  <2>1. /\ step' = [step EXCEPT ![c] = IF session[t] = "live" THEN "load" ELSE "reuse"]
        /\ token' = [token EXCEPT ![c] = t]
    BY <1>3 DEF Find
  <2>2. UseCaseTypeOK'
    BY <1>1, <2>1 DEF Find
  <2>3. ClaimsStored'
    BY <1>1, <1>3, <2>1, UseCasesAssumption DEF ClaimsStored
  <2>4. ClaimsRaced'
    <3> SUFFICES ASSUME NEW u \in Token, u \notin raced'
                 PROVE  /\ \A x, y \in Call : Claims(x, u)' /\ Claims(y, u)' => x = y
                        /\ \A x \in Call, v \in Token : Claims(x, u)' => parent'[v] # u
      BY DEF ClaimsRaced
    <3>1. \A x \in Call \ {c} : Claims(x, u)' <=> Claims(x, u)
      BY <2>1 DEF Claims
    <3>2. Claims(c, u)' => u = t /\ session[t] = "live"
      BY <2>1 DEF Claims
    <3>3. ASSUME u = t, session[t] = "live" PROVE \A x \in Call \ {c} : ~ Claims(x, t)
      <4>1. \A x \in Call \ {c} : token[x] = t => step[x] \notin {"load", "revoke"}
        BY <3>3 DEF Find
      <4>2. \A x \in Call : step[x] = "create" /\ token[x] = t => session[t] = "revoked"
        BY UseCasesAssumption DEF ClaimsStored
      <4>3. QED
        BY <3>3, <4>1, <4>2 DEF Claims
    <3>4. session[t] = "live" => \A v \in Token : parent[v] # t
      BY UseCasesAssumption DEF RotationSound
    <3>5. u \notin raced
      BY <1>1
    <3>6. QED
      BY <3>1, <3>2, <3>3, <3>4, <3>5, <1>1 DEF ClaimsRaced
  <2>5. LateKnown'
    BY <1>1, <2>1 DEF LateKnown
  <2>6. RotationSound'
    BY <1>1 DEF RotationSound
  <2>7. QED
    BY <2>2, <2>3, <2>4, <2>5, <2>6
<1>4. QED
  BY <1>2, <1>3

\* A stored session only ever goes on to be expired or revoked.
LEMMA RevokedStays ==
    ASSUME UseCaseIInv,
           session' \in [Token -> {"none", "live", "expired", "revoked"}],
           \A t \in Token : session[t] = "revoked" => session'[t] = "revoked",
           \A t \in Token : session[t] # "none" => session'[t] # "none",
           UNCHANGED <<account, parent, step, token, raced, late>>
    PROVE  UseCaseIInv'
BY UseCasesAssumption
   DEF UseCaseIInv, UseCaseTypeOK, ClaimsStored, ClaimsRaced, Claims, LateKnown, RotationSound

LEMMA RevokeAllInv ==
    ASSUME UseCaseIInv, NEW c \in Call, RevokeAll(c)
    PROVE  UseCaseIInv'
<1> USE DEF UseCaseIInv, UseCaseTypeOK
<1>1. /\ session' \in [Token -> {"none", "live", "expired", "revoked"}]
      /\ \A t \in Token : session[t] = "revoked" => session'[t] = "revoked"
      /\ \A t \in Token : session[t] # "none" => session'[t] # "none"
      /\ UNCHANGED <<account, parent, raced>>
  BY DEF RevokeAll
<1>2. /\ step' = [step EXCEPT ![c] = "idle"] /\ token' = [token EXCEPT ![c] = NoToken]
      /\ late' = late \ {c}
  BY DEF RevokeAll, Tell
<1>3. UseCaseTypeOK'
  BY <1>1, <1>2
<1>4. ClaimsStored'
  BY <1>1, <1>2 DEF ClaimsStored
<1>5. ClaimsRaced'
  <2>1. \A d \in Call, t \in Token : Claims(d, t)' => Claims(d, t)
    BY <1>2 DEF Claims
  <2>2. QED
    BY <1>1, <2>1 DEF ClaimsRaced
<1>6. LateKnown'
  BY <1>1, <1>2 DEF LateKnown
<1>7. RotationSound'
  BY <1>1, UseCasesAssumption DEF RotationSound
<1>8. QED
  BY <1>3, <1>4, <1>5, <1>6, <1>7

LEMMA RevokeInv ==
    ASSUME UseCaseIInv, NEW c \in Call, Revoke(c)
    PROVE  UseCaseIInv'
<1> USE DEF UseCaseIInv, UseCaseTypeOK
<1>1. token[c] \in Token /\ step[c] = "revoke" /\ session' = [session EXCEPT ![token[c]] = "revoked"]
  BY DEF Revoke, ClaimsStored
<1>2. step' = [step EXCEPT ![c] = "create"] /\ UNCHANGED <<account, parent, token, raced, late>>
  BY DEF Revoke, Then
<1>3. UseCaseTypeOK'
  BY <1>1, <1>2
<1>4. ClaimsStored'
  BY <1>1, <1>2 DEF ClaimsStored
<1>5. ClaimsRaced'
  <2>1. \A d \in Call, t \in Token : Claims(d, t)' => Claims(d, t)
    BY <1>1, <1>2 DEF Claims
  <2>2. QED
    BY <1>2, <2>1 DEF ClaimsRaced
<1>6. LateKnown'
  BY <1>1, <1>2 DEF LateKnown
<1>7. RotationSound'
  BY <1>1, <1>2, UseCasesAssumption DEF RotationSound
<1>8. QED
  BY <1>3, <1>4, <1>5, <1>6, <1>7

\* The call's claim on its old session becomes that of the new one.
LEMMA CreateInv ==
    ASSUME UseCaseIInv, NEW c \in Call, Create(c)
    PROVE  UseCaseIInv'
<1> USE DEF UseCaseIInv, UseCaseTypeOK
<1>1. PICK t \in Token : /\ session[t] = "none"
                         /\ session' = [session EXCEPT ![t] = "live"]
                         /\ parent' = [parent EXCEPT ![t] = token[c]]
  BY DEF Create
<1>2. /\ step[c] = "create" /\ step' = [step EXCEPT ![c] = "idle"]
      /\ token' = [token EXCEPT ![c] = NoToken] /\ late' = late \ {c}
      /\ UNCHANGED <<account, raced>>
  BY DEF Create, Tell
<1>3. token[c] # NoToken => token[c] \in Token /\ session[token[c]] = "revoked" /\ Claims(c, token[c])
  BY <1>2 DEF ClaimsStored, Claims
<1>4. UseCaseTypeOK'
  BY <1>1, <1>2
<1>5. ClaimsStored'
  BY <1>1, <1>2 DEF ClaimsStored
<1>6. ClaimsRaced'
  <2>1. \A d \in Call, u \in Token : Claims(d, u)' => d # c /\ Claims(d, u)
    BY <1>2, UseCasesAssumption DEF Claims
  <2>2. QED
    BY <1>1, <1>2, <1>3, <2>1, UseCasesAssumption DEF ClaimsRaced
<1>7. LateKnown'
  BY <1>2 DEF LateKnown
<1>8. RotationSound'
  <2>1. \A u \in Token : parent'[u] # NoToken => session'[parent'[u]] = "revoked"
    BY <1>1, <1>3 DEF RotationSound
  <2>2. ASSUME NEW u \in Token, NEW v \in Token, u # v,
               parent'[u] # NoToken, parent'[u] = parent'[v]
        PROVE  parent'[u] \in raced'
    <3>1. CASE t \notin {u, v}
      BY <3>1, <2>2, <1>1, <1>2 DEF RotationSound
    <3>2. CASE t = u
      BY <3>2, <2>2, <1>1, <1>2, <1>3 DEF ClaimsRaced
    <3>3. CASE t = v
      BY <3>3, <2>2, <1>1, <1>2, <1>3 DEF ClaimsRaced
    <3>4. QED
      BY <3>1, <3>2, <3>3
  <2>3. QED
    BY <2>1, <2>2 DEF RotationSound
<1>9. QED
  BY <1>4, <1>5, <1>6, <1>7, <1>8

\* The user's status moves.
LEMMA AccountInv ==
    ASSUME UseCaseIInv, UNCHANGED <<session, parent, step, token, raced>>,
           account' \in {"none", "pending", "active", "inactive"},
           late' \subseteq Call, late \subseteq late',
           account = "active" /\ account' # "active" =>
               \A c \in Call : step[c] \in {"revoke", "create"} => c \in late'
    PROVE  UseCaseIInv'
BY DEF UseCaseIInv, UseCaseTypeOK, ClaimsStored, ClaimsRaced, Claims, LateKnown, RotationSound

LEMMA UseCaseStep == UseCaseIInv /\ [UseCaseNext]_useCaseVars => UseCaseIInv'
<1> SUFFICES ASSUME UseCaseIInv, [UseCaseNext]_useCaseVars PROVE UseCaseIInv'
  OBVIOUS
<1>0. account \in {"none", "pending", "active", "inactive"} /\ late \subseteq Call
  BY DEF UseCaseIInv, UseCaseTypeOK
<1>1. ASSUME NEW c \in Call, NEW b \in BOOLEAN, CreateUser(c, b) PROVE UseCaseIInv'
  BY <1>0, <1>1, AccountInv DEF CreateUser, sessionRows
<1>2. ASSUME NEW c \in Call, NEW b \in BOOLEAN, Authenticate(c, b) PROVE UseCaseIInv'
  BY <1>2, ThenInv, TellInv DEF Authenticate
<1>3. ASSUME NEW c \in Call, Load(c) PROVE UseCaseIInv'
  BY <1>3, ThenInv, TellInv DEF Load
<1>4. ASSUME NEW c \in Call, Lose(c) PROVE UseCaseIInv'
  BY <1>4, TellInv DEF Lose
<1>5. ASSUME NEW s \in {"active", "inactive"}, SetAccount(s) PROVE UseCaseIInv'
  BY <1>0, <1>5, AccountInv DEF SetAccount, sessionRows
<1>6. ASSUME NEW t \in Token, Outlive(t) PROVE UseCaseIInv'
  <2>1. session \in [Token -> {"none", "live", "expired", "revoked"}]
    BY DEF UseCaseIInv, UseCaseTypeOK
  <2>2. /\ session' \in [Token -> {"none", "live", "expired", "revoked"}]
        /\ \A u \in Token : session[u] = "revoked" => session'[u] = "revoked"
        /\ \A u \in Token : session[u] # "none" => session'[u] # "none"
        /\ UNCHANGED <<account, parent, step, token, raced, late>>
    BY <1>6, <2>1 DEF Outlive
  <2>3. QED
    BY <2>2, RevokedStays
<1>7. CASE UNCHANGED useCaseVars
  BY <1>0, <1>7, AccountInv DEF useCaseVars, sessionRows
<1>8. QED
  BY <1>1, <1>2, <1>3, <1>4, <1>5, <1>6, <1>7, FindInv, RevokeAllInv, RevokeInv, CreateInv
     DEF UseCaseNext

\* A session appears by the last step of a call, and LateKnown speaks of it.
LEMMA OnlyCreateStores ==
    UseCaseIInv /\ [UseCaseNext]_useCaseVars =>
        \A t \in Token :
            session[t] = "none" /\ session'[t] = "live" /\ account # "active" =>
                \E c \in late : step[c] = "create"
<1> SUFFICES ASSUME UseCaseIInv, [UseCaseNext]_useCaseVars, NEW t \in Token,
                    session[t] = "none", session'[t] = "live", account # "active"
             PROVE  \E c \in late : step[c] = "create"
  OBVIOUS
<1>1. session \in [Token -> {"none", "live", "expired", "revoked"}]
  BY DEF UseCaseIInv, UseCaseTypeOK
<1>2. session' # session
  OBVIOUS
<1>3. \/ \E c \in Call : RevokeAll(c) \/ Revoke(c) \/ Create(c)
      \/ \E u \in Token : Outlive(u)
  BY <1>2 DEF UseCaseNext, CreateUser, Authenticate, Find, Load, Lose, SetAccount, useCaseVars,
              sessionRows
<1>4. PICK c \in Call : Create(c)
  BY <1>1, <1>3 DEF RevokeAll, Revoke, Outlive
<1>5. QED
  BY <1>4 DEF Create, UseCaseIInv, LateKnown

(* A session that replaced another never lives beside it, and no token is  *)
(* succeeded twice but by calls that overlap, for any number of calls and  *)
(* tokens (RefreshTokenUseCase).                                           *)
THEOREM UseCasesRotate == UseCaseSpec => []RotationSound
<1>1. UseCaseIInv => RotationSound
  BY DEF UseCaseIInv
<1>2. QED
  BY <1>1, UseCaseStart, UseCaseStep, PTL DEF UseCaseSpec

(* While the user is not active, a session can only come from a call that  *)
(* had found the user active, for any number of calls                      *)
(* (AuthenticateUserUseCase, RefreshTokenUseCase).                         *)
THEOREM UseCasesRefuseInactive == UseCaseSpec => InactiveGetsNoSession
BY UseCaseStart, UseCaseStep, OnlyCreateStores, PTL DEF UseCaseSpec, InactiveGetsNoSession

-----------------------------------------------------------------------------
(* The use cases implement Rotation.                                       *)

\* What the abstract state of a token says of its session.
LEMMA TokenStates ==
    ASSUME NEW t \in Token
    PROVE  /\ TokenState[t] = "unissued" <=> session[t] = "none"
           /\ TokenState[t] = "spent" <=> session[t] = "revoked"
           /\ TokenState[t] = "live" <=> session[t] \notin {"none", "revoked"}
BY DEF TokenState

LEMMA RotationStart == UseCaseInit => Rotated!Init
BY DEF UseCaseInit, Rotated!Init, TokenState, Claimed

\* Expiry, the status of the user and calls without a claim change nothing.
LEMMA RotationStutter ==
    ASSUME UNCHANGED <<parent, raced>>,
           \A t \in Token : TokenState'[t] = TokenState[t],
           \A c \in Call : Claimed'[c] = Claimed[c]
    PROVE  UNCHANGED Rotated!rvars
<1>1. TokenState' = TokenState /\ Claimed' = Claimed
  BY DEF TokenState, Claimed
<1>2. QED
  BY <1>1 DEF Rotated!rvars

\* A call ends, or is lost, and what it held with it.
LEMMA RotationForfeit ==
    ASSUME UseCaseIInv, NEW c \in Call, Tell(c), UNCHANGED <<session, parent, raced>>
    PROVE  Rotated!Next
<1>1. TokenState' = TokenState
  BY DEF TokenState
<1>2. Claimed' = [Claimed EXCEPT ![c] = NoToken]
  BY DEF Claimed, Tell, UseCaseIInv, UseCaseTypeOK
<1>3. Rotated!Forfeit(c)
  BY <1>1, <1>2 DEF Rotated!Forfeit
<1>4. QED
  BY <1>3 DEF Rotated!Next

\* Sessions that were stored are revoked; no claim changes hands.
LEMMA RotationSpend ==
    ASSUME UNCHANGED <<parent, raced>>,
           \A t \in Token : \/ session'[t] = session[t]
                            \/ session[t] # "none" /\ session'[t] = "revoked",
           \A c \in Call : Claimed'[c] = Claimed[c]
    PROVE  Rotated!Next
<1> DEFINE S == {t \in Token : TokenState[t] = "live" /\ session'[t] = "revoked"}
<1>1. TokenState' = [t \in Token |-> IF t \in S THEN "spent" ELSE TokenState[t]]
  <2>1. ASSUME NEW t \in Token
        PROVE  TokenState'[t] = IF t \in S THEN "spent" ELSE TokenState[t]
    BY DEF TokenState
  <2>2. QED
    BY <2>1 DEF TokenState
<1>2. S \in SUBSET {t \in Token : TokenState[t] = "live"}
  OBVIOUS
<1>3. Claimed' = Claimed
  BY DEF Claimed
<1> HIDE DEF S
<1>4. Rotated!Spend
  BY <1>1, <1>2, <1>3 DEF Rotated!Spend
<1>5. QED
  BY <1>4 DEF Rotated!Next

\* A call that found a live session: those that hold a claim to it have not
\* revoked it, so the rivals are the calls that are about to.
LEMMA RotationFind ==
    ASSUME UseCaseIInv, NEW c \in Call, NEW t \in Token, Find(c, t)
    PROVE  [Rotated!Next]_(Rotated!rvars)
<1>1. TokenState' = TokenState /\ parent' = parent /\ step[c] = "idle"
  BY DEF TokenState, Find, sessionRows
<1>2. CASE session[t] = "live"
  <2>1. Claimed[c] = NoToken /\ Claimed' = [Claimed EXCEPT ![c] = t]
    BY <1>2 DEF Claimed, Find, UseCaseIInv, UseCaseTypeOK
  <2>2. (\E d \in Call : Claimed[d] = t) <=>
            \E d \in Call \ {c} : token[d] = t /\ step[d] \in {"load", "revoke"}
    BY <1>1, <1>2, UseCasesAssumption DEF Claimed, UseCaseIInv, ClaimsStored
  <2>3. raced' = IF \E d \in Call : Claimed[d] = t THEN raced \cup {t} ELSE raced
    BY <1>2, <2>2 DEF Find
  <2>4. Rotated!Claim(c, t)
    BY <1>1, <1>2, <2>1, <2>3, TokenStates DEF Rotated!Claim
  <2>5. QED
    BY <2>4 DEF Rotated!Next
<1>3. CASE session[t] # "live"
  <2>1. raced' = raced
    BY <1>3 DEF Find
  <2>2. ASSUME NEW d \in Call PROVE Claimed'[d] = Claimed[d]
    BY <1>3 DEF Claimed, Find, UseCaseIInv, UseCaseTypeOK
  <2>3. QED
    BY <1>1, <2>1, <2>2, RotationStutter
<1>4. QED
  BY <1>2, <1>3

\* The session of a login, or of a refresh that has revoked the one before.
LEMMA RotationCreate ==
    ASSUME UseCaseIInv, NEW c \in Call, Create(c) PROVE Rotated!Next
<1>1. PICK t \in Token :
          /\ session[t] = "none"
          /\ session' = [session EXCEPT ![t] = "live"]
          /\ parent' = [parent EXCEPT ![t] = token[c]]
  BY DEF Create
<1>2. TokenState[t] = "unissued" /\ TokenState' = [TokenState EXCEPT ![t] = "live"]
  <2>1. ASSUME NEW u \in Token
        PROVE  TokenState'[u] = IF u = t THEN "live" ELSE TokenState[u]
    BY <1>1 DEF TokenState, UseCaseIInv, UseCaseTypeOK
  <2>2. QED
    BY <1>1, <2>1 DEF TokenState
<1>3. step[c] = "create" /\ Claimed[c] = token[c] /\ raced' = raced
  BY DEF Create, Claimed
<1>4. Claimed' = [Claimed EXCEPT ![c] = NoToken]
  BY DEF Claimed, Create, Tell, UseCaseIInv, UseCaseTypeOK
<1>5. CASE token[c] = NoToken
  <2>1. Claimed' = Claimed
    BY <1>3, <1>4, <1>5 DEF Claimed
  <2>2. Rotated!Login(t)
    BY <1>1, <1>2, <1>3, <1>5, <2>1 DEF Rotated!Login, Rotated!Issued
  <2>3. QED
    BY <2>2 DEF Rotated!Next
<1>6. CASE token[c] # NoToken
  <2>1. token[c] \in Token /\ TokenState[token[c]] = "spent"
    BY <1>3, <1>6, TokenStates DEF UseCaseIInv, UseCaseTypeOK, ClaimsStored
  <2>2. token[c] \in raced \/ \A u \in Token : parent[u] # token[c]
    BY <1>3, <2>1 DEF UseCaseIInv, ClaimsRaced, Claims
  <2>3. Rotated!Trade(c, t)
    BY <1>1, <1>2, <1>3, <1>4, <1>6, <2>1, <2>2 DEF Rotated!Trade, Rotated!Issued
  <2>4. QED
    BY <2>3 DEF Rotated!Next
<1>7. QED
  BY <1>5, <1>6

LEMMA RotationStep ==
    UseCaseIInv /\ [UseCaseNext]_useCaseVars => [Rotated!Next]_(Rotated!rvars)
<1> SUFFICES ASSUME UseCaseIInv, [UseCaseNext]_useCaseVars PROVE [Rotated!Next]_(Rotated!rvars)
  OBVIOUS
<1>1. ASSUME UNCHANGED <<sessionRows, raced, step, token>> PROVE UNCHANGED Rotated!rvars
  BY <1>1, RotationStutter DEF TokenState, Claimed, sessionRows
<1>2. ASSUME NEW c \in Call, NEW b \in BOOLEAN, Authenticate(c, b)
      PROVE  UNCHANGED Rotated!rvars
  <2>1. ASSUME NEW d \in Call PROVE Claimed'[d] = Claimed[d]
    BY <1>2 DEF Claimed, Authenticate, Then, Tell, UseCaseIInv, UseCaseTypeOK, ClaimsStored
  <2>2. UNCHANGED <<session, parent, raced>>
    BY <1>2 DEF Authenticate, sessionRows
  <2>3. QED
    BY <2>1, <2>2, RotationStutter DEF TokenState
<1>3. ASSUME NEW c \in Call, RevokeAll(c) PROVE Rotated!Next
  <2>1. ASSUME NEW d \in Call PROVE Claimed'[d] = Claimed[d]
    BY <1>3 DEF Claimed, RevokeAll, Tell, UseCaseIInv, UseCaseTypeOK
  <2>2. ASSUME NEW t \in Token
        PROVE  session'[t] = session[t] \/ (session[t] # "none" /\ session'[t] = "revoked")
    BY <1>3 DEF RevokeAll
  <2>3. QED
    BY <1>3, <2>1, <2>2, RotationSpend DEF RevokeAll
<1>4. ASSUME NEW c \in Call, Load(c) PROVE [Rotated!Next]_(Rotated!rvars)
  <2>1. CASE account = "active"
    <3>1. ASSUME NEW d \in Call PROVE Claimed'[d] = Claimed[d]
      BY <1>4, <2>1 DEF Claimed, Load, Then, UseCaseIInv, UseCaseTypeOK
    <3>2. QED
      BY <1>4, <3>1, RotationStutter DEF Load, TokenState, sessionRows
  <2>2. CASE account # "active"
    BY <1>4, <2>2, RotationForfeit DEF Load, sessionRows
  <2>3. QED
    BY <2>1, <2>2
<1>5. ASSUME NEW c \in Call, Revoke(c) PROVE Rotated!Next
  <2>1. ASSUME NEW d \in Call PROVE Claimed'[d] = Claimed[d]
    BY <1>5 DEF Claimed, Revoke, Then, UseCaseIInv, UseCaseTypeOK
  <2>2. ASSUME NEW t \in Token
        PROVE  session'[t] = session[t] \/ (session[t] # "none" /\ session'[t] = "revoked")
    BY <1>5 DEF Revoke, UseCaseIInv, UseCaseTypeOK, ClaimsStored
  <2>3. QED
    BY <1>5, <2>1, <2>2, RotationSpend DEF Revoke
<1>6. ASSUME NEW c \in Call, Lose(c) PROVE Rotated!Next
  BY <1>6, RotationForfeit DEF Lose, sessionRows
<1>7. ASSUME NEW t \in Token, Outlive(t) PROVE UNCHANGED Rotated!rvars
  <2>1. ASSUME NEW u \in Token PROVE TokenState'[u] = TokenState[u]
    BY <1>7 DEF TokenState, Outlive, UseCaseIInv, UseCaseTypeOK
  <2>2. QED
    BY <1>7, <2>1, RotationStutter DEF Claimed, Outlive
<1>8. ASSUME \/ \E c \in Call, b \in BOOLEAN : CreateUser(c, b)
             \/ \E s \in {"active", "inactive"} : SetAccount(s)
             \/ UNCHANGED useCaseVars
      PROVE  UNCHANGED <<sessionRows, raced, step, token>>
  BY <1>8 DEF CreateUser, SetAccount, useCaseVars, sessionRows
<1>9. QED
  BY <1>1, <1>2, <1>3, <1>4, <1>5, <1>6, <1>7, <1>8, RotationFind, RotationCreate DEF UseCaseNext

(* The refresh use case implements one-time refresh tokens over any number *)
(* of tokens and overlapping or lost calls: a revoked token stays revoked, *)
(* and a claim to a live one is traded for its successor once the old one  *)
(* is revoked, twice only by two calls that overlapped (steps 2 and 5).    *)
THEOREM UseCasesKeepRotation == UseCaseSpec => UseCasesImplementRotation
BY RotationStart, RotationStep, UseCaseStart, UseCaseStep, PTL
   DEF UseCaseSpec, UseCasesImplementRotation, Rotated!Spec

-----------------------------------------------------------------------------
(* The delivery of domain events.  First the types.                        *)

Places == {"idle", "check", "handle", "mark", "return"}

\* What a slot is at: an event, unless it is idle.
LEMMA SlotAtEvent ==
    ASSUME EventsTypeOK, HandlersCounted, NEW s \in Slot
    PROVE  /\ pc[s] # "idle" => ev[s] \in Event
           /\ pc[s] = "idle" => ev[s] = None
BY EventsAssumption DEF EventsTypeOK, HandlersCounted

LEMMA TakeType ==
    ASSUME EventsTypeOK, HandlersCounted, NEW s \in Slot, NEW e \in Event, Take(s, e)
    PROVE  EventsTypeOK'
<1>1. ev[s] = None /\ lock[e] = None /\ \A f \in Event : lock[f] # s
  BY EventsAssumption DEF Take, EventsTypeOK, HandlersCounted
<1>2. /\ job' = [job EXCEPT ![e] = "active"] /\ lock' = [lock EXCEPT ![e] = s]
      /\ pc' = [pc EXCEPT ![s] = "check"] /\ ev' = [ev EXCEPT ![s] = e]
      /\ UNCHANGED <<made, stalls, emitted, dlq, marked, registered, next, found, history, restarts>>
  BY DEF Take
<1>3. \A f \in Event : lock'[f] # None => job'[f] = "active" /\ ev'[lock'[f]] = f
  BY <1>1, <1>2, EventsAssumption DEF EventsTypeOK
<1>4. QED
  BY <1>2, <1>3 DEF EventsTypeOK, history

LEMMA CheckType ==
    ASSUME EventsTypeOK, HandlersCounted, NEW s \in Slot, Check(s)
    PROVE  EventsTypeOK'
<1>1. ev[s] \in Event
  BY SlotAtEvent DEF Check
<1>2. /\ \E p \in {"return", "handle"} : pc' = [pc EXCEPT ![s] = p]
      /\ \E n \in {0, 1, registered} : next' = [next EXCEPT ![s] = n] /\ n <= registered
      /\ \E n \in {0, registered} : found' = [found EXCEPT ![s] = n]
      /\ UNCHANGED excuses \/ Excuse(ev[s])
  BY EventsAssumption DEF Check, Return, EventsTypeOK
<1>3. /\ pc' \in [Slot -> Places] /\ next' \in [Slot -> 0..MaxHandlers]
      /\ found' \in [Slot -> 0..MaxHandlers]
  BY <1>2, EventsAssumption DEF EventsTypeOK, Places
<1>4. excuses' \in [Event -> Nat]
  <2>1. CASE Excuse(ev[s])
    BY <1>1, <2>1 DEF Excuse, EventsTypeOK
  <2>2. CASE UNCHANGED excuses
    BY <2>2 DEF EventsTypeOK
  <2>3. QED
    BY <1>2, <2>1, <2>2
<1>5. UNCHANGED <<queue, marked, registered, owed, done, restarts, ev>>
  BY DEF Check, Return
<1>6. QED
  BY <1>3, <1>5, <1>4 DEF EventsTypeOK, queue, Places

\* The step to the next handler.
LEMMA NextHandlerType ==
    ASSUME EventsTypeOK, NEW s \in Slot, NextHandler(s)
    PROVE  pc' \in [Slot -> Places] /\ next' \in [Slot -> 0..MaxHandlers]
<1>1. CASE next[s] < registered
  <2>1. next' = [next EXCEPT ![s] = next[s] + 1] /\ UNCHANGED pc
    BY <1>1 DEF NextHandler
  <2>2. next[s] + 1 \in 0..MaxHandlers
    BY <1>1, EventsAssumption DEF EventsTypeOK
  <2>3. QED
    BY <2>1, <2>2 DEF EventsTypeOK, Places
<1>2. CASE ~ (next[s] < registered)
  BY <1>2 DEF NextHandler, EventsTypeOK, Places
<1>3. QED
  BY <1>1, <1>2

LEMMA HandlerSucceedsType ==
    ASSUME EventsTypeOK, HandlersCounted, NEW s \in Slot, HandlerSucceeds(s)
    PROVE  EventsTypeOK' /\ ev[s] \in Event /\ next[s] \in Handler
<1>1. ev[s] \in Event /\ next[s] \in Handler
  BY SlotAtEvent, EventsAssumption DEF HandlerSucceeds, HandlersCounted, Handler, EventsTypeOK
<1>2. done' \in [Event -> [Handler -> Nat]]
  BY <1>1 DEF HandlerSucceeds, EventsTypeOK
<1>3. UNCHANGED <<queue, marked, registered, ev, found, owed, excuses, restarts>> /\ NextHandler(s)
  BY DEF HandlerSucceeds
<1>4. QED
  BY <1>1, <1>2, <1>3, NextHandlerType DEF EventsTypeOK, queue, Places

LEMMA IdleType ==
    ASSUME EventsTypeOK, NEW s \in Slot, Idle(s)
    PROVE  /\ pc' \in [Slot -> Places] /\ ev' \in [Slot -> Event \cup {None}]
           /\ next' \in [Slot -> 0..MaxHandlers] /\ found' \in [Slot -> 0..MaxHandlers]
BY EventsAssumption DEF Idle, EventsTypeOK, Places

LEMMA HandlerFailsType ==
    ASSUME EventsTypeOK, HandlersCounted, AttemptsLeft, NEW s \in Slot, HandlerFails(s)
    PROVE  EventsTypeOK' /\ AttemptsLeft'
<1>1. ev[s] \in Event
  BY SlotAtEvent DEF HandlerFails
<1>2. /\ excuses' \in [Event -> Nat]
      /\ UNCHANGED <<stalls, dlq, marked, registered, owed, done, restarts>>
      /\ ev' = [ev EXCEPT ![s] = None] /\ Idle(s) /\ Retried(s)
  BY <1>1 DEF HandlerFails, Excuse, Idle, EventsTypeOK
<1>3. CASE lock[ev[s]] # s
  <2>1. UNCHANGED <<job, made, lock, emitted>>
    BY <1>2, <1>3 DEF Retried
  <2>2. \A f \in Event : lock'[f] # None => job'[f] = "active" /\ ev'[lock'[f]] = f
    BY <1>2, <1>3, <2>1, EventsAssumption DEF EventsTypeOK
  <2>3. QED
    BY <1>2, <2>1, <2>2, IdleType DEF EventsTypeOK, Places, AttemptsLeft
<1>4. CASE lock[ev[s]] = s
  <2>1. /\ made' = [made EXCEPT ![ev[s]] = made[ev[s]] + 1]
        /\ lock' = [lock EXCEPT ![ev[s]] = None]
    BY <1>2, <1>4 DEF Retried
  <2>2. job[ev[s]] = "active" /\ made[ev[s]] < Attempts
    BY <1>1, <1>4, EventsAssumption DEF EventsTypeOK, AttemptsLeft
  <2>3. made' \in [Event -> 0..Attempts] /\ made'[ev[s]] = made[ev[s]] + 1
    BY <1>1, <2>1, <2>2, EventsAssumption DEF EventsTypeOK
  <2>4. /\ emitted' \subseteq Event
        /\ \/ made'[ev[s]] < Attempts /\ job' = [job EXCEPT ![ev[s]] = "delayed"]
           \/ job' = [job EXCEPT ![ev[s]] = "failed"]
    BY <1>1, <1>2, <1>4 DEF Retried, EventsTypeOK
  <2>5. AttemptsLeft'
    BY <1>1, <2>1, <2>3, <2>4 DEF AttemptsLeft, EventsTypeOK
  <2>6. \A f \in Event : lock'[f] # None => job'[f] = "active" /\ ev'[lock'[f]] = f
    <3> SUFFICES ASSUME NEW f \in Event, lock'[f] # None
                 PROVE  job'[f] = "active" /\ ev'[lock'[f]] = f
      OBVIOUS
    <3>1. f # ev[s] /\ lock'[f] = lock[f] /\ job'[f] = job[f]
      BY <1>1, <2>1, <2>4 DEF EventsTypeOK
    <3>2. job[f] = "active" /\ ev[lock[f]] = f /\ lock[f] \in Slot
      BY <3>1, EventsAssumption DEF EventsTypeOK
    <3>3. ev'[lock[f]] = f
      BY <1>2, <3>1, <3>2 DEF EventsTypeOK
    <3>4. QED
      BY <3>1, <3>2, <3>3
  <2>7. lock' \in [Event -> Slot \cup {None}]
    BY <2>1 DEF EventsTypeOK
  <2>8. job' \in [Event -> {"unsent", "lost", "waiting", "active", "delayed", "completed", "failed"}]
    BY <2>4 DEF EventsTypeOK
  <2>9. QED
    BY <1>1, <1>2, <2>3, <2>4, <2>5, <2>6, <2>7, <2>8, IdleType DEF EventsTypeOK, Places
<1>5. QED
  BY <1>3, <1>4

LEMMA MarkType ==
    ASSUME EventsTypeOK, HandlersCounted, NEW s \in Slot, Mark(s)
    PROVE  EventsTypeOK' /\ ev[s] \in Event
<1>1. ev[s] \in Event
  BY SlotAtEvent DEF Mark
<1>2. /\ pc' = [pc EXCEPT ![s] = "return"]
      /\ UNCHANGED <<queue, registered, ev, next, found, done, restarts>>
  BY DEF Mark
<1>3. marked' \subseteq Event /\ owed' \in [Event -> 0..MaxHandlers] /\ excuses' \in [Event -> Nat]
  <2>1. CASE marked' = marked \cup {ev[s]} /\ owed' = [owed EXCEPT ![ev[s]] = found[s]]
             /\ UNCHANGED excuses
    BY <1>1, <2>1 DEF EventsTypeOK
  <2>2. CASE Excuse(ev[s]) /\ UNCHANGED <<marked, owed>>
    BY <1>1, <2>2 DEF Excuse, EventsTypeOK
  <2>3. QED
    BY <2>1, <2>2 DEF Mark
<1>4. QED
  BY <1>1, <1>2, <1>3 DEF EventsTypeOK, queue

LEMMA CompleteType ==
    ASSUME EventsTypeOK, HandlersCounted, NEW s \in Slot, Complete(s)
    PROVE  EventsTypeOK'
<1>1. ev[s] \in Event
  BY SlotAtEvent DEF Complete
<1>2. /\ UNCHANGED <<made, stalls, emitted, dlq, marked, registered, history, restarts>>
      /\ ev' = [ev EXCEPT ![s] = None] /\ Idle(s)
      /\ job' \in [Event -> {"unsent", "lost", "waiting", "active", "delayed", "completed", "failed"}]
      /\ lock' \in [Event -> Slot \cup {None}]
  BY <1>1 DEF Complete, Idle, EventsTypeOK
<1>3. \A f \in Event : lock'[f] # None => job'[f] = "active" /\ ev'[lock'[f]] = f
  <2> SUFFICES ASSUME NEW f \in Event, lock'[f] # None
               PROVE  job'[f] = "active" /\ ev'[lock'[f]] = f
    OBVIOUS
  <2>1. lock'[f] = lock[f] /\ job'[f] = job[f] /\ lock[f] # s
    BY <1>1 DEF Complete, EventsTypeOK
  <2>2. job[f] = "active" /\ ev[lock[f]] = f /\ lock[f] \in Slot
    BY <2>1, EventsAssumption DEF EventsTypeOK
  <2>3. QED
    BY <1>2, <2>1, <2>2 DEF EventsTypeOK
<1>4. QED
  BY <1>2, <1>3, IdleType DEF EventsTypeOK, history, Places

\* The steps of the publisher and of the queue.
LEMMA QueueType ==
    ASSUME EventsTypeOK,
           \/ \E batch \in SUBSET Event : Publish(batch)
           \/ \E e \in Event : DeadLetter(e) \/ Wake(e)
           \/ RegisterHandler
    PROVE  EventsTypeOK'
<1>1. CASE \E batch \in SUBSET Event : Publish(batch)
  <2>1. PICK batch \in SUBSET Event : Publish(batch)
    BY <1>1
  <2>2. /\ UNCHANGED <<made, stalls, lock, emitted, dlq, marked, registered, slots, history, restarts>>
        /\ job' \in [Event -> {"unsent", "lost", "waiting", "active", "delayed", "completed", "failed"}]
        /\ \A f \in Event : job[f] = "active" => job'[f] = "active"
    BY <2>1 DEF Publish, EventsTypeOK
  <2>3. QED
    BY <2>2 DEF EventsTypeOK, slots, history
<1>2. CASE \E e \in Event : DeadLetter(e)
  BY <1>2 DEF DeadLetter, EventsTypeOK, slots, history
<1>3. CASE \E e \in Event : Wake(e)
  BY <1>3 DEF Wake, EventsTypeOK, slots, history
<1>4. CASE RegisterHandler
  BY <1>4, EventsAssumption DEF RegisterHandler, EventsTypeOK, slots, history, queue
<1>5. QED
  BY <1>1, <1>2, <1>3, <1>4

LEMMA StallType ==
    ASSUME EventsTypeOK, NEW e \in Event, Stall(e)
    PROVE  EventsTypeOK'
<1>1. stalls' \in [Event -> 0..MaxStalls] /\ lock' = [lock EXCEPT ![e] = None]
  BY EventsAssumption DEF Stall, EventsTypeOK
<1>2. emitted' \subseteq Event /\ \E to \in {"waiting", "failed"} : job' = [job EXCEPT ![e] = to]
  BY DEF Stall, EventsTypeOK
<1>3. excuses' \in [Event -> Nat]
  BY DEF Stall, Excuse, EventsTypeOK
<1>4. UNCHANGED <<made, dlq, marked, registered, slots, owed, done, restarts>>
  BY DEF Stall
<1>5. QED
  <2>1. \A f \in Event : lock'[f] # None => f # e /\ lock'[f] = lock[f] /\ job'[f] = job[f]
    BY <1>1, <1>2 DEF EventsTypeOK
  <2>2. \A f \in Event : lock'[f] # None => job'[f] = "active" /\ ev'[lock'[f]] = f
    BY <1>4, <2>1 DEF EventsTypeOK, slots
  <2>3. /\ lock' \in [Event -> Slot \cup {None}]
        /\ job' \in [Event -> {"unsent", "lost", "waiting", "active", "delayed", "completed", "failed"}]
    BY <1>1, <1>2 DEF EventsTypeOK
  <2>4. QED
    BY <1>1, <1>2, <1>3, <1>4, <2>2, <2>3 DEF EventsTypeOK, slots

LEMMA SlotsCounted ==
    ASSUME NEW P, P \subseteq Slot
    PROVE  IsFiniteSet(P) /\ Cardinality(P) \in Nat
BY EventsAssumption, FS_Subset, FS_CardinalityType

LEMMA RestartType ==
    ASSUME EventsTypeOK, Restart
    PROVE  EventsTypeOK'
<1>1. \A e \in Event :
          Cardinality({s \in Working(e) : pc[s] \in {"handle", "mark"}}) \in Nat
  BY SlotsCounted DEF Working
<1>2. excuses' \in [Event -> Nat]
  <2>1. \A e \in Event : excuses[e] \in Nat
    BY DEF EventsTypeOK
  <2> DEFINE lost(e) == Cardinality({s \in Working(e) : pc[s] \in {"handle", "mark"}})
  <2>2. excuses' = [e \in Event |-> excuses[e] + lost(e)]
    BY DEF Restart
  <2>3. \A e \in Event : lost(e) \in Nat
    BY <1>1
  <2> HIDE DEF lost
  <2>4. QED
    BY <2>1, <2>2, <2>3
<1>3. QED
  BY <1>2, EventsAssumption DEF Restart, EventsTypeOK

\* The attempts that the mark of e would have turned away.
TurnedAway(e) == {s \in Working(e) : pc[s] = "check"}

LEMMA MarkLapsesType ==
    ASSUME EventsTypeOK, NEW e \in Event, MarkLapses(e)
    PROVE  /\ EventsTypeOK'
           /\ Cardinality(TurnedAway(e)) \in Nat
           /\ excuses'[e] = excuses[e] + Cardinality(TurnedAway(e))
                               + (IF job[e] \in {"completed", "failed"} THEN 0 ELSE 1)
           /\ \A f \in Event : f # e => excuses'[f] = excuses[f]
<1>1. Cardinality(TurnedAway(e)) \in Nat
  BY SlotsCounted DEF TurnedAway, Working
<1> DEFINE due == Cardinality(TurnedAway(e)) + (IF job[e] \in {"completed", "failed"} THEN 0 ELSE 1)
<1>2. excuses \in [Event -> Nat] /\ due \in Nat
  BY <1>1 DEF EventsTypeOK
<1>3. excuses' = [excuses EXCEPT ![e] = @ + Cardinality(TurnedAway(e))
                                + IF job[e] \in {"completed", "failed"} THEN 0 ELSE 1]
  BY DEF MarkLapses, TurnedAway
<1>4. excuses' = [excuses EXCEPT ![e] = excuses[e] + due]
  <2>1. excuses[e] \in Nat
    BY <1>2
  <2>2. excuses[e] + Cardinality(TurnedAway(e))
            + (IF job[e] \in {"completed", "failed"} THEN 0 ELSE 1) = excuses[e] + due
    BY <1>1, <2>1
  <2>3. QED
    BY <1>3, <2>2
<1> HIDE DEF due
<1>5. excuses' \in [Event -> Nat] /\ excuses'[e] = excuses[e] + due
      /\ \A f \in Event : f # e => excuses'[f] = excuses[f]
  BY <1>2, <1>4
<1>6. EventsTypeOK'
  BY <1>5 DEF MarkLapses, queue, slots, EventsTypeOK
<1>7. QED
  BY <1>1, <1>2, <1>5, <1>6 DEF due

\* Type correctness and the count of attempts, over all steps.
LEMMA EventsTypeStep ==
    ASSUME EventsTypeOK, AttemptsLeft, HandlersCounted, [EventsNext]_eventsVars
    PROVE  EventsTypeOK' /\ AttemptsLeft'
<1>1. ASSUME NEW s \in Slot, HandlerFails(s) PROVE EventsTypeOK' /\ AttemptsLeft'
  BY <1>1, HandlerFailsType
<1>2. ASSUME NEW s \in Slot,
             \/ \E e \in Event : Take(s, e)
             \/ Check(s) \/ HandlerSucceeds(s) \/ Mark(s) \/ Complete(s)
      PROVE  EventsTypeOK' /\ AttemptsLeft'
  <2>1. EventsTypeOK'
    BY <1>2, TakeType, CheckType, HandlerSucceedsType, MarkType, CompleteType
  <2>2. UNCHANGED made /\ \A f \in Event :
            job'[f] = job[f] \/ job'[f] = "completed" \/ job[f] = "waiting"
    BY <1>2, SlotAtEvent DEF Take, Check, HandlerSucceeds, Mark, Complete, queue, EventsTypeOK
  <2>3. QED
    BY <2>1, <2>2 DEF AttemptsLeft
<1>3. ASSUME NEW e \in Event, Stall(e) \/ DeadLetter(e) \/ Wake(e) PROVE EventsTypeOK' /\ AttemptsLeft'
  <2>1. EventsTypeOK'
    BY <1>3, StallType, QueueType
  <2>2. UNCHANGED made /\ \A f \in Event : job'[f] = job[f] \/ job'[f] = "failed"
            \/ job[f] \in {"active", "delayed"}
    BY <1>3 DEF Stall, DeadLetter, Wake, EventsTypeOK
  <2>3. QED
    BY <2>1, <2>2 DEF AttemptsLeft
<1>4. CASE RegisterHandler \/ \E batch \in SUBSET Event : Publish(batch)
  <2>2. UNCHANGED made /\ \A f \in Event : job'[f] = job[f] \/ job[f] = "unsent"
    BY <1>4 DEF RegisterHandler, Publish, queue, EventsTypeOK
  <2>3. QED
    BY <1>4, <2>2, QueueType DEF AttemptsLeft
<1>5. CASE Restart
  BY <1>5, RestartType DEF Restart, AttemptsLeft
<1>6. CASE UNCHANGED eventsVars
  BY <1>6 DEF eventsVars, queue, slots, history, EventsTypeOK, AttemptsLeft
<1>7. ASSUME NEW e \in Event, MarkLapses(e) PROVE EventsTypeOK' /\ AttemptsLeft'
  BY <1>7, MarkLapsesType DEF MarkLapses, queue, AttemptsLeft
<1>8. QED
  BY <1>1, <1>2, <1>3, <1>4, <1>5, <1>6, <1>7 DEF EventsNext, Work

-----------------------------------------------------------------------------
(* What the slots have had, and what the marks owe.                        *)

Books == EventsTypeOK /\ HandlersCounted /\ MarkedIsHandled

\* Nothing that a slot relies on is taken back.
LEMMA BooksKept ==
    ASSUME Books, EventsTypeOK', NEW s \in Slot,
           \A t \in Slot \ {s} : pc'[t] = pc[t] /\ ev'[t] = ev[t] /\ next'[t] = next[t]
                                /\ found'[t] = found[t],
           registered <= registered',
           \A e \in Event, h \in Handler : done'[e][h] >= done[e][h],
           pc'[s] = "idle" <=> ev'[s] = None,
           pc'[s] = "handle" =>
               /\ next'[s] \in 1..registered'
               /\ found'[s] \in 1..registered'
               /\ \A h \in 1..(next'[s] - 1) : done'[ev'[s]][h] > 0,
           pc'[s] = "mark" => found'[s] > 0 /\ \A h \in 1..found'[s] : done'[ev'[s]][h] > 0
    PROVE  HandlersCounted'
<1> SUFFICES ASSUME NEW t \in Slot \ {s}
             PROVE  /\ pc'[t] = "idle" <=> ev'[t] = None
                    /\ pc'[t] = "handle" =>
                           /\ next'[t] \in 1..registered'
                           /\ found'[t] \in 1..registered'
                           /\ \A h \in 1..(next'[t] - 1) : done'[ev'[t]][h] > 0
                    /\ pc'[t] = "mark" =>
                           found'[t] > 0 /\ \A h \in 1..found'[t] : done'[ev'[t]][h] > 0
  BY DEF HandlersCounted
<1>1. registered \in 0..MaxHandlers /\ registered' \in 0..MaxHandlers /\ MaxHandlers \in Nat
      /\ next[t] \in 0..MaxHandlers /\ found[t] \in 0..MaxHandlers
  BY EventsAssumption DEF Books, EventsTypeOK
<1>2. pc[t] # "idle" => ev[t] \in Event
  BY SlotAtEvent DEF Books
<1>3. pc[t] # "idle" => \A h \in Handler : done'[ev[t]][h] \in Nat /\ done[ev[t]][h] \in Nat
                                         /\ (done[ev[t]][h] > 0 => done'[ev[t]][h] > 0)
  BY <1>2 DEF Books, EventsTypeOK
<1>4. CASE pc[t] = "handle"
  <2>1. next[t] \in 1..registered /\ found[t] \in 1..registered
        /\ \A h \in 1..(next[t] - 1) : done[ev[t]][h] > 0 /\ ev[t] # None
    BY <1>4 DEF Books, HandlersCounted
  <2>2. \A h \in 1..(next[t] - 1) : h \in Handler
    BY <1>1 DEF Handler
  <2>3. QED
    BY <1>1, <1>2, <1>3, <1>4, <2>1, <2>2, EventsAssumption
<1>5. CASE pc[t] = "mark"
  <2>1. found[t] > 0 /\ ev[t] # None /\ \A h \in 1..found[t] : done[ev[t]][h] > 0
    BY <1>5 DEF Books, HandlersCounted
  <2>2. \A h \in 1..found[t] : h \in Handler
    BY <1>1 DEF Handler
  <2>3. QED
    BY <1>1, <1>2, <1>3, <1>5, <2>1, <2>2
<1>6. CASE pc[t] \notin {"handle", "mark"}
  BY <1>6 DEF Books, HandlersCounted
<1>7. QED
  BY <1>4, <1>5, <1>6

LEMMA MarksKept ==
    ASSUME Books, EventsTypeOK', UNCHANGED <<marked, owed>>,
           \A e \in Event, h \in Handler : done'[e][h] >= done[e][h]
    PROVE  MarkedIsHandled'
<1> SUFFICES ASSUME NEW e \in marked, NEW h \in 1..owed[e]
             PROVE  owed[e] > 0 /\ done'[e][h] > 0
  BY EventsAssumption DEF Books, MarkedIsHandled, EventsTypeOK
<1>1. e \in Event /\ owed[e] \in 0..MaxHandlers /\ h \in Handler
  BY EventsAssumption DEF Books, EventsTypeOK, Handler
<1>2. done[e][h] > 0 /\ done[e][h] \in Nat /\ done'[e][h] \in Nat /\ done'[e][h] >= done[e][h]
  BY <1>1 DEF Books, EventsTypeOK, MarkedIsHandled
<1>3. QED
  BY <1>2 DEF Books, MarkedIsHandled

\* Steps that handle nothing count nothing down.
LEMMA DoneKept ==
    ASSUME Books, UNCHANGED done
    PROVE  \A e \in Event, h \in Handler : done'[e][h] >= done[e][h]
BY DEF Books, EventsTypeOK

LEMMA HandlerSucceedsBooks ==
    ASSUME Books, EventsTypeOK', NEW s \in Slot, HandlerSucceeds(s)
    PROVE  HandlersCounted' /\ MarkedIsHandled'
<1>1. /\ ev[s] \in Event /\ next[s] \in Handler /\ UNCHANGED <<marked, owed, ev, found, registered>>
      /\ pc[s] = "handle" /\ NextHandler(s)
      /\ done' = [done EXCEPT ![ev[s]][next[s]] = @ + 1]
  BY HandlerSucceedsType DEF HandlerSucceeds, Books
<1>2. /\ \A e \in Event, h \in Handler : done'[e][h] >= done[e][h]
      /\ done'[ev[s]][next[s]] > 0
  BY <1>1 DEF Books, EventsTypeOK
<1>3. /\ next[s] \in 1..registered /\ found[s] \in 1..registered
      /\ \A h \in 1..(next[s] - 1) : done[ev[s]][h] > 0
      /\ registered \in 0..MaxHandlers /\ MaxHandlers \in Nat /\ ev[s] # None
  BY <1>1, EventsAssumption DEF Books, HandlersCounted, EventsTypeOK
<1>4. \A h \in 1..next[s] : done'[ev[s]][h] > 0
  <2> SUFFICES ASSUME NEW h \in 1..next[s], h # next[s] PROVE done'[ev[s]][h] > 0
    BY <1>2
  <2>1. h \in 1..(next[s] - 1) /\ h \in Handler
    BY <1>3 DEF Handler
  <2>2. done[ev[s]][h] > 0 /\ done[ev[s]][h] \in Nat /\ done'[ev[s]][h] \in Nat
    BY <1>1, <1>3, <2>1 DEF Books, EventsTypeOK
  <2>3. QED
    BY <1>1, <1>2, <2>1, <2>2
<1>5. \A t \in Slot \ {s} : pc'[t] = pc[t] /\ next'[t] = next[t]
  BY <1>1 DEF NextHandler, Books, EventsTypeOK
<1>6. CASE next[s] < registered
  <2>1. next'[s] = next[s] + 1 /\ pc'[s] = "handle"
    BY <1>1, <1>6 DEF NextHandler, Books, EventsTypeOK
  <2>2. next'[s] - 1 = next[s] /\ next'[s] \in 1..registered
    BY <1>3, <1>6, <2>1
  <2>3. HandlersCounted'
    BY <1>1, <1>2, <1>3, <1>4, <1>5, <2>1, <2>2, BooksKept
  <2>4. QED
    BY <1>1, <1>2, <2>3, MarksKept
<1>7. CASE ~ (next[s] < registered)
  <2>1. pc'[s] = "mark" /\ next'[s] = next[s]
    BY <1>1, <1>7 DEF NextHandler, Books, EventsTypeOK
  <2>2. \A h \in 1..found[s] : h \in 1..next[s]
    BY <1>3, <1>7
  <2>3. HandlersCounted'
    BY <1>1, <1>2, <1>3, <1>4, <1>5, <2>1, <2>2, BooksKept
  <2>4. QED
    BY <1>1, <1>2, <2>3, MarksKept
<1>8. QED
  BY <1>6, <1>7

LEMMA CheckBooks ==
    ASSUME Books, EventsTypeOK', NEW s \in Slot, Check(s)
    PROVE  HandlersCounted' /\ MarkedIsHandled'
<1>1. /\ UNCHANGED <<marked, registered, owed, done, ev>> /\ ev[s] # None
      /\ registered \in Nat
  BY EventsAssumption DEF Check, Return, Books, HandlersCounted, EventsTypeOK
<1>2. \A t \in Slot \ {s} : pc'[t] = pc[t] /\ next'[t] = next[t] /\ found'[t] = found[t]
  BY DEF Check, Return, Books, EventsTypeOK
<1>3. \/ pc'[s] = "return"
      \/ pc'[s] = "handle" /\ next'[s] = 1 /\ found'[s] = registered /\ registered > 0
  BY <1>1 DEF Check, Return, Books, EventsTypeOK
<1>4. HandlersCounted'
  BY <1>1, <1>2, <1>3, DoneKept, BooksKept
<1>5. QED
  BY <1>1, <1>4, DoneKept, MarksKept

LEMMA MarkBooks ==
    ASSUME Books, EventsTypeOK', NEW s \in Slot, Mark(s)
    PROVE  HandlersCounted' /\ MarkedIsHandled'
<1>1. /\ UNCHANGED <<registered, done, ev, next, found>> /\ ev[s] \in Event /\ ev[s] # None
      /\ pc[s] = "mark" /\ pc' = [pc EXCEPT ![s] = "return"]
  BY MarkType, EventsAssumption DEF Mark, Books
<1>2. \A t \in Slot \ {s} : pc'[t] = pc[t]
  BY <1>1 DEF Books, EventsTypeOK
<1>3. pc'[s] = "return"
  BY <1>1 DEF Books, EventsTypeOK
<1>4. HandlersCounted'
  BY <1>1, <1>2, <1>3, DoneKept, BooksKept DEF Books, EventsTypeOK
<1>5. CASE UNCHANGED <<marked, owed>>
  BY <1>1, <1>4, <1>5, DoneKept, MarksKept
<1>6. CASE marked' = marked \cup {ev[s]} /\ owed' = [owed EXCEPT ![ev[s]] = found[s]]
  <2>1. found[s] > 0 /\ \A h \in 1..found[s] : done[ev[s]][h] > 0
    BY <1>1 DEF Books, HandlersCounted
  <2>2. \A e \in marked' : owed'[e] > 0 /\ \A h \in 1..owed'[e] : done[e][h] > 0
    BY <1>1, <1>6, <2>1 DEF Books, MarkedIsHandled, EventsTypeOK
  <2>3. QED
    BY <1>1, <1>4, <2>2 DEF MarkedIsHandled
<1>7. QED
  BY <1>5, <1>6 DEF Mark

\* A slot that takes a job, and one that is done with it.
LEMMA EndsBooks ==
    ASSUME Books, EventsTypeOK', NEW s \in Slot,
           \/ \E e \in Event : Take(s, e)
           \/ HandlerFails(s) \/ Complete(s)
    PROVE  HandlersCounted' /\ MarkedIsHandled'
<1>1. /\ UNCHANGED <<marked, owed, done, registered>> /\ registered \in Nat
      /\ \A t \in Slot \ {s} : pc'[t] = pc[t] /\ ev'[t] = ev[t] /\ next'[t] = next[t]
                              /\ found'[t] = found[t]
      /\ \/ pc'[s] = "check" /\ ev'[s] \in Event
         \/ pc'[s] = "idle" /\ ev'[s] = None
  BY EventsAssumption DEF Take, HandlerFails, Complete, Idle, history, Books, EventsTypeOK
<1>2. HandlersCounted'
  BY <1>1, DoneKept, BooksKept, EventsAssumption
<1>3. QED
  BY <1>1, <1>2, DoneKept, MarksKept

\* Steps that no slot takes, and the loss of them all.
LEMMA OthersBooks ==
    ASSUME Books, EventsTypeOK', UNCHANGED <<marked, owed, done>>,
           \/ UNCHANGED slots /\ registered <= registered'
           \/ \A s \in Slot : pc'[s] = "idle" /\ ev'[s] = None
    PROVE  HandlersCounted' /\ MarkedIsHandled'
<1>1. MarkedIsHandled'
  BY DoneKept, MarksKept
<1>2. ASSUME NEW s \in Slot, UNCHANGED slots, registered <= registered'
      PROVE  HandlersCounted'
  <2>1. pc[s] = "handle" => next[s] \in 1..registered' /\ found[s] \in 1..registered'
    BY <1>2, EventsAssumption DEF Books, HandlersCounted, EventsTypeOK
  <2>2. QED
    BY <1>2, <2>1, DoneKept, BooksKept DEF slots, Books, HandlersCounted
<1>3. CASE Slot = {} \/ \A s \in Slot : pc'[s] = "idle" /\ ev'[s] = None
  BY <1>1, <1>3 DEF HandlersCounted
<1>4. QED
  BY <1>1, <1>2, <1>3

LEMMA BooksStep ==
    ASSUME Books, EventsTypeOK', [EventsNext]_eventsVars
    PROVE  HandlersCounted' /\ MarkedIsHandled'
<1>0. registered \in Nat
  BY EventsAssumption DEF Books, EventsTypeOK
<1>1. ASSUME NEW s \in Slot, Work(s) \/ \E e \in Event : Take(s, e)
      PROVE  HandlersCounted' /\ MarkedIsHandled'
  BY <1>1, CheckBooks, HandlerSucceedsBooks, MarkBooks, EndsBooks DEF Work
<1>2. ASSUME NEW e \in Event, DeadLetter(e) \/ Wake(e) \/ Stall(e)
      PROVE  HandlersCounted' /\ MarkedIsHandled'
  BY <1>0, <1>2, OthersBooks DEF DeadLetter, Wake, Stall, history
<1>3. CASE RegisterHandler \/ \E batch \in SUBSET Event : Publish(batch)
  BY <1>0, <1>3, OthersBooks DEF RegisterHandler, Publish, history
<1>4. CASE Restart
  BY <1>4, OthersBooks DEF Restart
<1>5. CASE UNCHANGED eventsVars
  BY <1>0, <1>5, OthersBooks DEF eventsVars, history
<1>6. ASSUME NEW e \in Event, MarkLapses(e) PROVE HandlersCounted' /\ MarkedIsHandled'
  <2>1. UNCHANGED <<registered, slots, owed, done>> /\ marked' \subseteq marked
    BY <1>6 DEF MarkLapses
  <2>2. HandlersCounted'
    BY <2>1 DEF Books, HandlersCounted, slots
  <2>3. MarkedIsHandled'
    BY <2>1 DEF Books, MarkedIsHandled
  <2>4. QED
    BY <2>2, <2>3
<1>7. QED
  BY <1>1, <1>2, <1>3, <1>4, <1>5, <1>6 DEF EventsNext

-----------------------------------------------------------------------------
(* What each handling is paid with.                                        *)

\* The sets of slots that are counted, with and without one slot.
One(p) == IF p THEN 1 ELSE 0

LEMMA WithAndWithout ==
    ASSUME NEW P, P \subseteq Slot, NEW s \in Slot
    PROVE  /\ Cardinality(P \ {s}) \in Nat
           /\ Cardinality(P) = Cardinality(P \ {s}) + One(s \in P)
<1>1. IsFiniteSet(P) /\ Cardinality(P) \in Nat /\ Cardinality(P \ {s}) \in Nat
  BY SlotsCounted
<1>2. CASE s \in P
  <2>1. Cardinality(P \ {s}) = Cardinality(P) - 1
    BY <1>1, <1>2, FS_RemoveElement
  <2>2. QED
    BY <1>1, <1>2, <2>1 DEF One
<1>3. CASE s \notin P
  <2>1. P \ {s} = P
    BY <1>3
  <2>2. QED
    BY <1>1, <1>3, <2>1 DEF One
<1>4. QED
  BY <1>2, <1>3

LEMMA CreditIsOne ==
    ASSUME NEW e
    PROVE  /\ Credit(e) \in {0, 1} /\ Credit(e)' \in {0, 1}
           /\ e \in marked => Credit(e) = 0
           /\ e \in marked' => Credit(e)' = 0
BY DEF Credit

LEMMA HeadingIsOne ==
    ASSUME NEW s, NEW e, NEW h
    PROVE  One(Heading(s, e, h)) \in {0, 1} /\ One(Heading(s, e, h)') \in {0, 1}
BY DEF One

LEMMA CountsAreNumbers ==
    ASSUME EventsTypeOK, EventsTypeOK', NEW e \in Event, NEW h \in Handler
    PROVE  /\ done[e][h] \in Nat /\ done'[e][h] \in Nat
           /\ excuses[e] \in Nat /\ excuses'[e] \in Nat
BY DEF EventsTypeOK

\* One slot moves, at one event: the others go on as they were.
OneSlotMoves(s, e) ==
    /\ \A t \in Slot \ {s} : pc'[t] = pc[t] /\ ev'[t] = ev[t] /\ next'[t] = next[t]
    /\ ev[s] \in {e, None} /\ ev'[s] \in {e, None}
    /\ \A f \in Event \ {e} : /\ job'[f] = job[f] /\ done'[f] = done[f]
                              /\ excuses'[f] = excuses[f]
                              /\ f \in marked' <=> f \in marked
    /\ e \in marked => e \in marked'

LEMMA OneSlotPaid ==
    ASSUME EventsTypeOK, EventsTypeOK', HandlingsPaid, NEW s \in Slot, NEW e \in Event, OneSlotMoves(s, e),
           \A h \in Handler :
               done'[e][h] + One(Heading(s, e, h)') + Credit(e)' + excuses[e]
                   <= done[e][h] + One(Heading(s, e, h)) + Credit(e) + excuses'[e]
    PROVE  HandlingsPaid'
<1> USE DEF OneSlotMoves
<1>1. ASSUME NEW f \in Event \ {e}, NEW h \in Handler
      PROVE  done'[f][h] + Cardinality(Ahead(f, h)') + Credit(f)' <= 1 + excuses'[f]
  <2>1. f # None
    BY EventsAssumption
  <2>2. \A t \in Slot : Heading(t, f, h)' <=> Heading(t, f, h)
    BY <2>1 DEF Heading
  <2>3. Ahead(f, h)' = Ahead(f, h)
    BY <2>2 DEF Ahead
  <2>4. \A t \in Slot : ev'[t] = f /\ pc'[t] \in {"check", "handle", "mark"}
                       <=> ev[t] = f /\ pc[t] \in {"check", "handle", "mark"}
    BY <2>1
  <2>5. Attended(f)' <=> Attended(f)
    BY <2>4 DEF Attended
  <2>6. Credit(f)' = Credit(f)
    BY <2>5 DEF Credit
  <2>7. QED
    BY <2>3, <2>6 DEF HandlingsPaid
<1>2. ASSUME NEW h \in Handler
      PROVE  done'[e][h] + Cardinality(Ahead(e, h)') + Credit(e)' <= 1 + excuses'[e]
  <2>1. Ahead(e, h)' \ {s} \subseteq Ahead(e, h) \ {s}
    BY DEF Ahead, Heading
  <2>2. /\ IsFiniteSet(Ahead(e, h) \ {s})
        /\ Cardinality(Ahead(e, h)' \ {s}) \in Nat /\ Cardinality(Ahead(e, h) \ {s}) \in Nat
    BY SlotsCounted DEF Ahead
  <2>3. Cardinality(Ahead(e, h)' \ {s}) <= Cardinality(Ahead(e, h) \ {s})
    BY <2>1, <2>2, FS_Subset
  <2>4. Cardinality(Ahead(e, h)) = Cardinality(Ahead(e, h) \ {s}) + One(s \in Ahead(e, h))
    BY WithAndWithout DEF Ahead
  <2>5. Cardinality(Ahead(e, h)') = Cardinality(Ahead(e, h)' \ {s}) + One(s \in Ahead(e, h)')
    BY WithAndWithout DEF Ahead
  <2>6. One(s \in Ahead(e, h)) = One(Heading(s, e, h)) /\ One(s \in Ahead(e, h)') = One(Heading(s, e, h)')
    BY DEF Ahead, One
  <2>7. One(Heading(s, e, h)) \in {0, 1} /\ One(Heading(s, e, h)') \in {0, 1}
    BY DEF One
  <2>8. done[e][h] \in Nat /\ done'[e][h] \in Nat /\ excuses[e] \in Nat /\ excuses'[e] \in Nat
    BY DEF EventsTypeOK
  <2>9. done[e][h] + Cardinality(Ahead(e, h)) + Credit(e) <= 1 + excuses[e]
    BY DEF HandlingsPaid
  <2>10. QED
    BY <2>2, <2>3, <2>4, <2>5, <2>6, <2>7, <2>8, <2>9, CreditIsOne
<1>3. QED
  BY <1>1, <1>2 DEF HandlingsPaid

LEMMA TakePaid ==
    ASSUME EventsTypeOK, EventsTypeOK', HandlersCounted, HandlingsPaid,
           NEW s \in Slot, NEW e \in Event, Take(s, e)
    PROVE  HandlingsPaid'
<1>1. /\ job[e] = "waiting" /\ job'[e] = "active" /\ pc[s] = "idle" /\ ev[s] = None
      /\ pc'[s] = "check" /\ ev'[s] = e
      /\ UNCHANGED <<marked, done, excuses>>
  BY DEF Take, history, EventsTypeOK, HandlersCounted
<1>2. OneSlotMoves(s, e)
  BY <1>1 DEF Take, OneSlotMoves, history, EventsTypeOK
<1>3. ASSUME NEW h \in Handler
      PROVE  One(Heading(s, e, h)') + Credit(e)' <= One(Heading(s, e, h)) + Credit(e)
  <2>1. Attended(e)'
    BY <1>1 DEF Attended
  <2>2. CASE e \in marked
    BY <1>1, <2>2 DEF One, Heading, Credit
  <2>3. CASE e \notin marked
    BY <1>1, <2>1, <2>3, EventsAssumption DEF One, Heading, Credit
  <2>4. QED
    BY <2>2, <2>3
<1>4. \A h \in Handler : done'[e][h] + One(Heading(s, e, h)') + Credit(e)' + excuses[e]
                           <= done[e][h] + One(Heading(s, e, h)) + Credit(e) + excuses'[e]
  BY <1>1, <1>3, CreditIsOne, HeadingIsOne, CountsAreNumbers
<1>5. QED
  BY <1>2, <1>4, OneSlotPaid

\* The event of a slot at work, before and after its step.
LEMMA CheckPaid ==
    ASSUME EventsTypeOK, EventsTypeOK', HandlersCounted, HandlingsPaid, NEW s \in Slot, Check(s)
    PROVE  HandlingsPaid'
<1>0. PICK e \in Event : e = ev[s]
  BY SlotAtEvent DEF Check
<1>1. ev[s] = e /\ ev'[s] = e /\ pc[s] = "check" /\ UNCHANGED <<job, marked, done, ev>>
  BY <1>0 DEF Check, Return, queue
<1>2. \/ pc'[s] = "return" /\ UNCHANGED excuses
      \/ /\ pc'[s] = "handle" /\ next'[s] = 1
         /\ IF e \in marked THEN excuses' = [excuses EXCEPT ![e] = @ + 1] ELSE UNCHANGED excuses
  BY <1>0 DEF Check, Return, EventsTypeOK, AlreadyProcessed, Excuse
<1>3. OneSlotMoves(s, e)
  BY <1>1, <1>2 DEF Check, Return, OneSlotMoves, EventsTypeOK
<1>4. ASSUME NEW h \in Handler
      PROVE  One(Heading(s, e, h)') + Credit(e)' + excuses[e]
                 <= One(Heading(s, e, h)) + Credit(e) + excuses'[e]
  <2>1. excuses[e] \in Nat /\ excuses'[e] \in Nat /\ h >= 1 /\ h \in Nat
    BY <1>1 DEF EventsTypeOK, Handler
  <2>2. CASE e \in marked /\ pc'[s] = "return"
    <3>1. ~ Heading(s, e, h)' /\ UNCHANGED excuses
      BY <1>2, <2>2 DEF Heading
    <3>2. Credit(e)' = 0 /\ Credit(e) = 0
      BY <1>1, <2>2, CreditIsOne
    <3>3. QED
      BY <2>1, <3>1, <3>2 DEF One
  <2>3. CASE e \in marked /\ pc'[s] = "handle"
    <3>1. excuses'[e] = excuses[e] + 1
      BY <1>1, <1>2, <2>3 DEF EventsTypeOK
    <3>2. QED
      BY <1>1, <2>1, <2>3, <3>1, CreditIsOne DEF Heading, One
  <2>4. CASE e \notin marked
    <3>1. UNCHANGED excuses /\ Heading(s, e, h)
      BY <1>1, <1>2, <2>4 DEF Heading
    <3>2. CASE pc'[s] = "return"
      BY <2>1, <3>1, <3>2, CreditIsOne DEF Heading, One
    <3>3. CASE pc'[s] = "handle"
      <4>1. Attended(e) /\ Attended(e)'
        BY <1>1, <3>3 DEF Attended
      <4>2. Credit(e)' = Credit(e)
        BY <1>1, <4>1 DEF Credit
      <4>3. QED
        BY <2>1, <3>1, <4>2, CreditIsOne DEF One
    <3>4. QED
      BY <1>2, <3>2, <3>3
  <2>5. QED
    BY <1>2, <2>2, <2>3, <2>4
<1>5. \A h \in Handler : done'[e][h] + One(Heading(s, e, h)') + Credit(e)' + excuses[e]
                           <= done[e][h] + One(Heading(s, e, h)) + Credit(e) + excuses'[e]
  BY <1>1, <1>4, CreditIsOne, HeadingIsOne, CountsAreNumbers
<1>6. QED
  BY <1>1, <1>3, <1>5, OneSlotPaid

LEMMA HandlerSucceedsPaid ==
    ASSUME Books, EventsTypeOK', HandlingsPaid, NEW s \in Slot, HandlerSucceeds(s)
    PROVE  HandlingsPaid'
<1> USE DEF Books
<1>0. PICK e \in Event : e = ev[s]
  BY SlotAtEvent DEF HandlerSucceeds
<1>1. /\ ev[s] = e /\ next[s] \in Handler /\ ev'[s] = e /\ pc[s] = "handle"
      /\ UNCHANGED <<job, marked, excuses, ev>>
      /\ done' = [done EXCEPT ![e][next[s]] = @ + 1]
  BY <1>0, HandlerSucceedsType DEF HandlerSucceeds, queue
<1>2. \/ pc'[s] = "handle" /\ next'[s] = next[s] + 1
      \/ pc'[s] = "mark"
  BY DEF HandlerSucceeds, NextHandler, EventsTypeOK
<1>3. OneSlotMoves(s, e)
  BY <1>1 DEF HandlerSucceeds, NextHandler, OneSlotMoves, EventsTypeOK
<1>4. Credit(e)' = Credit(e)
  <2>1. Attended(e) /\ Attended(e)'
    BY <1>1, <1>2 DEF Attended
  <2>2. QED
    BY <1>1, <2>1 DEF Credit
<1>5. ASSUME NEW h \in Handler
      PROVE  done'[e][h] + One(Heading(s, e, h)') <= done[e][h] + One(Heading(s, e, h))
  <2>1. done[e][h] \in Nat /\ next[s] \in Nat /\ h \in Nat
    BY <1>1, CountsAreNumbers DEF Handler
  <2>2. CASE h = next[s]
    <3>1. done'[e][h] = done[e][h] + 1
      BY <1>1, <2>2 DEF EventsTypeOK
    <3>2. Heading(s, e, h)
      BY <1>1, <2>1, <2>2 DEF Heading
    <3>3. ~ Heading(s, e, h)'
      BY <1>2, <2>1, <2>2 DEF Heading
    <3>4. QED
      BY <2>1, <3>1, <3>2, <3>3 DEF One
  <2>3. CASE h # next[s]
    <3>1. done'[e][h] = done[e][h]
      BY <1>1, <2>3 DEF EventsTypeOK
    <3>2. Heading(s, e, h)' => Heading(s, e, h)
      BY <1>1, <1>2, <2>1 DEF Heading
    <3>3. QED
      BY <2>1, <3>1, <3>2 DEF One
  <2>4. QED
    BY <2>2, <2>3
<1>6. \A h \in Handler : done'[e][h] + One(Heading(s, e, h)') + Credit(e)' + excuses[e]
                           <= done[e][h] + One(Heading(s, e, h)) + Credit(e) + excuses'[e]
  BY <1>1, <1>4, <1>5, CreditIsOne, HeadingIsOne, CountsAreNumbers
<1>7. QED
  BY <1>1, <1>3, <1>6, OneSlotPaid

\* An attempt that ends without having marked its event has an excuse, or its
\* event was marked, or it ends only now.
LEMMA EndPaid ==
    ASSUME Books, EventsTypeOK', HandlingsPaid, NEW s \in Slot, NEW e \in Event, ev[s] = e,
           OneSlotMoves(s, e), UNCHANGED done,
           pc'[s] \in {"return", "idle"},
           \/ excuses'[e] = excuses[e] + 1
           \/ excuses'[e] = excuses[e] /\ Credit(e)' <= Credit(e)
    PROVE  HandlingsPaid'
<1>1. \A h \in Handler : ~ Heading(s, e, h)'
  BY DEF Heading
<1>2. \A h \in Handler : done'[e][h] + One(Heading(s, e, h)') + Credit(e)' + excuses[e]
                           <= done[e][h] + One(Heading(s, e, h)) + Credit(e) + excuses'[e]
  <2> SUFFICES ASSUME NEW h \in Handler
               PROVE  done'[e][h] + One(Heading(s, e, h)') + Credit(e)' + excuses[e]
                          <= done[e][h] + One(Heading(s, e, h)) + Credit(e) + excuses'[e]
    OBVIOUS
  <2>1. One(Heading(s, e, h)') = 0 /\ One(Heading(s, e, h)) \in {0, 1}
    BY <1>1 DEF One
  <2>2. QED
    BY <2>1, CreditIsOne, CountsAreNumbers DEF Books
<1>3. QED
  BY <1>2, OneSlotPaid DEF Books

LEMMA HandlerFailsPaid ==
    ASSUME Books, EventsTypeOK', HandlingsPaid, NEW s \in Slot, HandlerFails(s)
    PROVE  HandlingsPaid'
<1> USE DEF Books
<1>1. ev[s] \in Event /\ UNCHANGED <<done, marked>> /\ excuses' = [excuses EXCEPT ![ev[s]] = @ + 1]
      /\ Idle(s)
  BY SlotAtEvent DEF HandlerFails, Excuse
<1>2. excuses'[ev[s]] = excuses[ev[s]] + 1
  BY <1>1 DEF EventsTypeOK
<1>3. \A f \in Event \ {ev[s]} : job'[f] = job[f]
  BY <1>1 DEF HandlerFails, Retried, EventsTypeOK
<1>4. OneSlotMoves(s, ev[s])
  BY <1>1, <1>3 DEF OneSlotMoves, Idle, EventsTypeOK
<1>5. pc'[s] = "idle"
  BY <1>1 DEF Idle, EventsTypeOK
<1>6. QED
  BY <1>1, <1>2, <1>4, <1>5, EndPaid

LEMMA MarkPaid ==
    ASSUME Books, EventsTypeOK', HandlingsPaid, NEW s \in Slot, Mark(s)
    PROVE  HandlingsPaid'
<1> USE DEF Books
<1>0. PICK e \in Event : e = ev[s]
  BY SlotAtEvent DEF Mark
<1>1. /\ ev[s] = e /\ UNCHANGED <<done, job, ev, next>> /\ pc' = [pc EXCEPT ![s] = "return"]
  BY <1>0 DEF Mark, queue
<1>2. pc'[s] = "return" /\ \A t \in Slot \ {s} : pc'[t] = pc[t]
  BY <1>1 DEF EventsTypeOK
<1>3. CASE marked' = marked \cup {e} /\ UNCHANGED excuses
  <2>1. OneSlotMoves(s, e)
    BY <1>1, <1>2, <1>3 DEF OneSlotMoves
  <2>2. Credit(e)' <= Credit(e)
    <3>1. e \in marked'
      BY <1>3
    <3>2. QED
      BY <3>1, CreditIsOne
  <2>3. QED
    BY <1>1, <1>2, <1>3, <2>1, <2>2, EndPaid
<1>4. CASE Excuse(e) /\ UNCHANGED marked
  <2>1. OneSlotMoves(s, e)
    BY <1>1, <1>2, <1>4 DEF OneSlotMoves, Excuse, EventsTypeOK
  <2>2. excuses'[e] = excuses[e] + 1
    BY <1>1, <1>4 DEF Excuse, EventsTypeOK
  <2>3. QED
    BY <1>1, <1>2, <2>1, <2>2, EndPaid
<1>5. QED
  BY <1>1, <1>3, <1>4 DEF Mark

LEMMA CompletePaid ==
    ASSUME Books, EventsTypeOK', HandlingsPaid, NEW s \in Slot, Complete(s)
    PROVE  HandlingsPaid'
<1> USE DEF Books
<1>0. PICK e \in Event : e = ev[s]
  BY SlotAtEvent DEF Complete
<1>1. /\ ev[s] = e /\ UNCHANGED <<done, marked, excuses>> /\ Idle(s) /\ pc[s] = "return"
  BY <1>0 DEF Complete, history
<1>2. pc'[s] = "idle" /\ ev'[s] = None /\ OneSlotMoves(s, e)
  BY <1>1 DEF Complete, OneSlotMoves, Idle, EventsTypeOK
<1>3. Credit(e)' <= Credit(e)
  <2>1. CASE job'[e] = "completed"
    <3>1. Credit(e)' = 0
      BY <2>1 DEF Credit
    <3>2. QED
      BY <3>1, CreditIsOne
  <2>2. CASE job'[e] = job[e]
    <3>1. Attended(e) => Attended(e)'
      BY <1>1, <1>2 DEF Attended, OneSlotMoves
    <3>2. QED
      BY <1>1, <2>2, <3>1 DEF Credit
  <2>3. QED
    BY <1>1, <2>1, <2>2 DEF Complete, EventsTypeOK
<1>4. QED
  BY <1>1, <1>2, <1>3, EndPaid

\* Steps that no slot takes.
LEMMA QuietPaid ==
    ASSUME EventsTypeOK, EventsTypeOK', HandlingsPaid, UNCHANGED <<slots, marked, done>>,
           \A e \in Event : Credit(e)' + excuses[e] <= Credit(e) + excuses'[e]
    PROVE  HandlingsPaid'
<1> SUFFICES ASSUME NEW e \in Event, NEW h \in Handler
             PROVE  done'[e][h] + Cardinality(Ahead(e, h)') + Credit(e)' <= 1 + excuses'[e]
  BY DEF HandlingsPaid
<1>1. Ahead(e, h)' = Ahead(e, h)
  BY DEF Ahead, Heading, slots
<1>2. Cardinality(Ahead(e, h)) \in Nat
  BY SlotsCounted DEF Ahead
<1>3. done[e][h] + Cardinality(Ahead(e, h)) + Credit(e) <= 1 + excuses[e]
  BY DEF HandlingsPaid
<1>4. done[e][h] \in Nat /\ excuses[e] \in Nat /\ excuses'[e] \in Nat
  BY DEF EventsTypeOK
<1>5. QED
  BY <1>1, <1>2, <1>3, <1>4, CreditIsOne

LEMMA QueuePaid ==
    ASSUME EventsTypeOK, EventsTypeOK', HandlingsPaid,
           \/ RegisterHandler \/ UNCHANGED eventsVars
           \/ \E batch \in SUBSET Event : Publish(batch)
           \/ \E e \in Event : DeadLetter(e) \/ Wake(e)
    PROVE  HandlingsPaid'
<1>1. UNCHANGED <<slots, marked, done, excuses>>
  BY DEF RegisterHandler, eventsVars, Publish, DeadLetter, Wake, history
<1>2. \A e \in Event : \/ job'[e] = job[e]
                        \/ /\ job[e] \in {"unsent", "lost", "waiting", "delayed"}
                           /\ job'[e] \in {"unsent", "lost", "waiting", "delayed"}
  BY DEF RegisterHandler, eventsVars, queue, Publish, DeadLetter, Wake, EventsTypeOK
<1>3. \A e \in Event : Attended(e)' <=> Attended(e)
  BY <1>1 DEF slots, Attended
<1>4. \A e \in Event : Credit(e)' = Credit(e)
  BY <1>1, <1>2, <1>3 DEF Credit
<1>5. QED
  <2>1. \A e \in Event : excuses[e] \in Nat
    BY DEF EventsTypeOK
  <2>2. \A e \in Event : Credit(e)' + excuses[e] <= Credit(e) + excuses'[e]
    BY <1>1, <1>4, <2>1, CreditIsOne
  <2>3. QED
    BY <1>1, <2>2, QuietPaid

LEMMA StallPaid ==
    ASSUME EventsTypeOK, EventsTypeOK', HandlersCounted, HandlingsPaid, NEW e \in Event, Stall(e)
    PROVE  HandlingsPaid'
<1>1. UNCHANGED <<slots, marked, done>> /\ \A f \in Event : f # e => job'[f] = job[f]
  BY DEF Stall, EventsTypeOK
<1>2. ASSUME NEW f \in Event, f # e PROVE Credit(f)' = Credit(f) /\ excuses'[f] = excuses[f]
  BY <1>1, <1>2 DEF Stall, Excuse, Credit, Attended, slots, EventsTypeOK
<1>3. Credit(e)' + excuses[e] <= Credit(e) + excuses'[e]
  <2>1. excuses[e] \in Nat /\ excuses'[e] \in Nat
    BY DEF EventsTypeOK
  <2>2. CASE \E s \in Working(e) : pc[s] # "return"
    <3>1. excuses'[e] = excuses[e] + 1
      BY <2>2 DEF Stall, Excuse, EventsTypeOK
    <3>2. QED
      BY <2>1, <3>1, CreditIsOne
  <2>3. CASE ~ \E s \in Working(e) : pc[s] # "return"
    <3>1. ~ Attended(e)
      BY <2>3 DEF Attended, Working
    <3>2. job[e] = "active" /\ UNCHANGED excuses
      BY <2>3 DEF Stall
    <3>3. e \notin marked => Credit(e) = 1
      BY <3>1, <3>2 DEF Credit
    <3>4. QED
      BY <1>1, <2>1, <3>2, <3>3, CreditIsOne
  <2>4. QED
    BY <2>2, <2>3
<1>4. \A f \in Event : Credit(f)' + excuses[f] <= Credit(f) + excuses'[f]
  <2>1. \A f \in Event : excuses[f] \in Nat
    BY DEF EventsTypeOK
  <2>2. QED
    BY <1>2, <1>3, <2>1, CreditIsOne
<1>5. QED
  BY <1>1, <1>4, QuietPaid

\* The process is lost: an event whose job was attended is owed another attempt,
\* for which a slot that was ahead of its handlers, or an excuse, pays.
LEMMA RestartPaid ==
    ASSUME EventsTypeOK, EventsTypeOK', HandlingsPaid, Restart
    PROVE  HandlingsPaid'
<1> SUFFICES ASSUME NEW e \in Event, NEW h \in Handler
             PROVE  done'[e][h] + Cardinality(Ahead(e, h)') + Credit(e)' <= 1 + excuses'[e]
  BY DEF HandlingsPaid
<1> DEFINE struck == {s \in Working(e) : pc[s] \in {"handle", "mark"}}
<1>1. UNCHANGED <<job, marked, done>> /\ excuses'[e] = excuses[e] + Cardinality(struck)
  BY DEF Restart
<1>2. Ahead(e, h)' = {}
  BY DEF Restart, Ahead, Heading
<1>3. Cardinality(Ahead(e, h)') = 0
  BY <1>2, FS_EmptySet
<1>4. struck \subseteq Slot /\ Ahead(e, h) \subseteq Slot
  BY DEF Working, Ahead
<1>5. /\ IsFiniteSet(struck) /\ IsFiniteSet(Ahead(e, h))
      /\ Cardinality(struck) \in Nat /\ Cardinality(Ahead(e, h)) \in Nat
  BY <1>4, SlotsCounted
<1>6. Credit(e)' <= Credit(e) + Cardinality(Ahead(e, h)) + Cardinality(struck)
  <2>1. CASE ~ Attended(e) \/ e \in marked \/ job[e] # "active"
    <3>1. Credit(e)' <= Credit(e)
      BY <1>1, <2>1, CreditIsOne DEF Credit
    <3>2. QED
      BY <1>5, <3>1, CreditIsOne
  <2>2. CASE Attended(e) /\ e \notin marked
    <3>1. PICK s \in Slot : ev[s] = e /\ pc[s] \in {"check", "handle", "mark"}
      BY <2>2 DEF Attended
    <3>2. CASE pc[s] = "check"
      <4>1. s \in Ahead(e, h)
        BY <2>2, <3>1, <3>2 DEF Ahead, Heading
      <4>2. Cardinality(Ahead(e, h)) # 0
        BY <1>5, <4>1, FS_EmptySet
      <4>3. QED
        BY <1>5, <4>2, CreditIsOne
    <3>3. CASE pc[s] # "check"
      <4>1. s \in struck
        BY <3>1, <3>3 DEF Working
      <4>2. Cardinality(struck) # 0
        BY <1>5, <4>1, FS_EmptySet
      <4>3. QED
        BY <1>5, <4>2, CreditIsOne
    <3>4. QED
      BY <3>2, <3>3
  <2>3. QED
    BY <2>1, <2>2
<1>7. done[e][h] + Cardinality(Ahead(e, h)) + Credit(e) <= 1 + excuses[e]
  BY DEF HandlingsPaid
<1>8. done[e][h] \in Nat /\ excuses[e] \in Nat
  BY DEF EventsTypeOK
<1> HIDE DEF struck
<1>9. QED
  BY <1>1, <1>3, <1>5, <1>6, <1>7, <1>8, CreditIsOne

\* A mark lapses: the attempts about to look for it are ahead of every handler, and
\* the queue may owe one more.
LEMMA MarkLapsesPaid ==
    ASSUME EventsTypeOK, EventsTypeOK', HandlingsPaid, NEW e \in Event, MarkLapses(e)
    PROVE  HandlingsPaid'
<1> SUFFICES ASSUME NEW f \in Event, NEW h \in Handler
             PROVE  done'[f][h] + Cardinality(Ahead(f, h)') + Credit(f)' <= 1 + excuses'[f]
  BY DEF HandlingsPaid
<1>1. UNCHANGED <<job, pc, ev, next, done>> /\ e \in marked /\ marked' = marked \ {e}
  BY DEF MarkLapses, queue, slots
<1>2. done[f][h] + Cardinality(Ahead(f, h)) + Credit(f) <= 1 + excuses[f]
  BY DEF HandlingsPaid
<1>3. done[f][h] \in Nat /\ excuses[f] \in Nat /\ excuses'[f] \in Nat
  BY DEF EventsTypeOK
<1>4. CASE f # e
  <2>1. f \in marked' <=> f \in marked
    BY <1>1, <1>4
  <2>2. Ahead(f, h)' = Ahead(f, h) /\ Credit(f)' = Credit(f)
    BY <1>1, <2>1 DEF Ahead, Heading, Credit, Attended
  <2>3. excuses'[f] = excuses[f]
    BY <1>4, MarkLapsesType
  <2>4. QED
    BY <1>1, <1>2, <2>2, <2>3
<1>5. CASE f = e
  <2>1. Ahead(e, h)' = Ahead(e, h) \cup TurnedAway(e)
    BY <1>1 DEF Ahead, Heading, TurnedAway, Working
  <2>2. Ahead(e, h) \subseteq Slot /\ TurnedAway(e) \subseteq Slot /\ Ahead(e, h)' \subseteq Slot
    BY DEF Ahead, TurnedAway, Working
  <2>3. /\ IsFiniteSet(Ahead(e, h)) /\ IsFiniteSet(TurnedAway(e))
        /\ Cardinality(Ahead(e, h)) \in Nat /\ Cardinality(TurnedAway(e)) \in Nat
        /\ Cardinality(Ahead(e, h)') \in Nat
    BY <2>2, SlotsCounted
  <2>4. Ahead(e, h) \cap TurnedAway(e) = {}
    BY <1>1 DEF Ahead, Heading, TurnedAway
  <2>5. Cardinality(Ahead(e, h)') = Cardinality(Ahead(e, h)) + Cardinality(TurnedAway(e))
    <3>1. Cardinality(Ahead(e, h) \cup TurnedAway(e)) =
            Cardinality(Ahead(e, h)) + Cardinality(TurnedAway(e))
                - Cardinality(Ahead(e, h) \cap TurnedAway(e))
      BY <2>3, FS_Union
    <3>2. Cardinality(Ahead(e, h) \cap TurnedAway(e)) = 0
      BY <2>4, FS_EmptySet
    <3>3. Cardinality(Ahead(e, h) \cup TurnedAway(e)) =
            Cardinality(Ahead(e, h)) + Cardinality(TurnedAway(e))
      BY <2>3, <3>1, <3>2
    <3>4. Cardinality(Ahead(e, h)') = Cardinality(Ahead(e, h) \cup TurnedAway(e))
      BY <2>1
    <3>5. QED
      BY <3>3, <3>4
  <2>6. Credit(e)' <= IF job[e] \in {"completed", "failed"} THEN 0 ELSE 1
    BY <1>1 DEF Credit
  <2>7. Credit(e) = 0
    BY <1>1, CreditIsOne
  <2>8. excuses'[e] = excuses[e] + Cardinality(TurnedAway(e))
                        + (IF job[e] \in {"completed", "failed"} THEN 0 ELSE 1)
    BY MarkLapsesType
  <2>9. QED
    BY <1>1, <1>2, <1>3, <1>5, <2>3, <2>5, <2>6, <2>7, <2>8, CreditIsOne
<1>6. QED
  BY <1>4, <1>5

-----------------------------------------------------------------------------
(* The theorems on events.                                                 *)

LEMMA EventsStart == EventsInit => EventsIInv
<1> SUFFICES ASSUME EventsInit PROVE EventsIInv
  OBVIOUS
<1>1. EventsTypeOK /\ AttemptsLeft
  BY EventsAssumption DEF EventsInit, EventsTypeOK, AttemptsLeft
<1>2. HandlersCounted /\ MarkedIsHandled
  BY EventsAssumption DEF EventsInit, HandlersCounted, MarkedIsHandled
<1>3. HandlingsPaid
  <2>1. ASSUME NEW e \in Event, NEW h \in Handler PROVE Ahead(e, h) = {}
    BY EventsAssumption DEF EventsInit, Ahead, Heading
  <2>2. ASSUME NEW e \in Event, NEW h \in Handler
        PROVE  done[e][h] = 0 /\ excuses[e] = 0 /\ Cardinality(Ahead(e, h)) = 0
    BY <2>1, FS_EmptySet DEF EventsInit
  <2>3. QED
    BY <2>2, CreditIsOne DEF HandlingsPaid
<1>4. QED
  BY <1>1, <1>2, <1>3 DEF EventsIInv

LEMMA EventsStep == EventsIInv /\ [EventsNext]_eventsVars => EventsIInv'
<1> SUFFICES ASSUME EventsIInv, [EventsNext]_eventsVars PROVE EventsIInv'
  OBVIOUS
<1>1. Books /\ EventsTypeOK /\ AttemptsLeft /\ HandlersCounted /\ HandlingsPaid
  BY DEF EventsIInv, Books
<1>2. EventsTypeOK' /\ AttemptsLeft'
  BY <1>1, EventsTypeStep
<1>3. HandlersCounted' /\ MarkedIsHandled'
  BY <1>1, <1>2, BooksStep
<1>4. HandlingsPaid'
  BY <1>1, <1>2, TakePaid, CheckPaid, HandlerSucceedsPaid, HandlerFailsPaid, MarkPaid,
     CompletePaid, QueuePaid, StallPaid, RestartPaid, MarkLapsesPaid
     DEF EventsNext, Work
<1>5. QED
  BY <1>2, <1>3, <1>4 DEF EventsIInv

(* An event is marked only when every handler the attempt found has        *)
(* handled it, for any number of events, slots, handlers and attempts      *)
(* (process, markProcessed).                                               *)
THEOREM EventsMarkedHandled == EventsSpec => []MarkedIsHandled
<1>1. EventsIInv => MarkedIsHandled
  BY DEF EventsIInv
<1>2. QED
  BY <1>1, EventsStart, EventsStep, PTL DEF EventsSpec

(* A handler sees an event once more only with an excuse, for any number   *)
(* of events, slots, handlers, attempts and restarts (process,             *)
(* isAlreadyProcessed, markProcessed).                                     *)
THEOREM EventsHandledForCause == EventsSpec => []HandledAgainForCause
<1>1. EventsIInv => HandledAgainForCause
  <2> SUFFICES ASSUME EventsIInv, NEW e \in Event, NEW h \in Handler
               PROVE  done[e][h] <= 1 + excuses[e]
    BY DEF HandledAgainForCause
  <2>1. done[e][h] + Cardinality(Ahead(e, h)) + Credit(e) <= 1 + excuses[e]
    BY DEF EventsIInv, HandlingsPaid
  <2>2. Cardinality(Ahead(e, h)) \in Nat /\ done[e][h] \in Nat /\ excuses[e] \in Nat
    BY SlotsCounted DEF Ahead, EventsIInv, EventsTypeOK
  <2>3. QED
    BY <2>1, <2>2, CreditIsOne
<1>2. QED
  BY <1>1, EventsStart, EventsStep, PTL DEF EventsSpec

(* Queue, cache and slots keep their types: no attempt past the last, and  *)
(* a lock is held only by the slot that is at the job.                     *)
THEOREM EventsTypeCorrect == EventsSpec => []EventsTypeOK
<1>1. EventsIInv => EventsTypeOK
  BY DEF EventsIInv
<1>2. QED
  BY <1>1, EventsStart, EventsStep, PTL DEF EventsSpec

-----------------------------------------------------------------------------
(* Organizations: role changes and the chain of the audit log.             *)

LEMMA OrganizationStart == OrganizationInit => OrganizationIInv
<1> SUFFICES ASSUME OrganizationInit PROVE OrganizationIInv
  OBVIOUS
<1>1. OrganizationTypeOK
  BY OrganizationsAssumption DEF OrganizationInit, OrganizationTypeOK, NoCall
<1>2. RowsLocked
  BY DEF OrganizationInit, RowsLocked, Locks
<1>3. ChecksHold
  BY DEF OrganizationInit, ChecksHold
<1>4. LogOrdered /\ CallsOrdered
  BY DEF OrganizationInit, LogOrdered, CallsOrdered
<1>5. SeesEarlier
  BY DEF OrganizationInit, SeesEarlier, Logs
<1>6. QED
  BY <1>1, <1>2, <1>3, <1>4, <1>5 DEF OrganizationIInv

\* A call under way is one that was made.
LEMMA CallMade ==
    ASSUME OrganizationTypeOK, NEW c \in Backend, backend[c] # "idle"
    PROVE  change[c] \in RoleChange
BY DEF OrganizationTypeOK

\* A statement that only takes a call on leaves the order of calls and rows alone.
LEMMA ProceedOrdered ==
    ASSUME OrganizationIInv, NEW c \in Backend, backend[c] # "idle", NEW goal, Proceed(c, goal),
           goal \in {"check", "update", "validate", "chain", "commit"}, previous' \in [Backend -> Nat]
    PROVE  OrganizationTypeOK' /\ LogOrdered' /\ CallsOrdered'
<1>1. \A d \in Backend : (backend'[d] = "idle") = (backend[d] = "idle")
  BY DEF Proceed, OrganizationIInv, OrganizationTypeOK
<1>2. backend' \in [Backend -> {"idle", "rate", "check", "update", "validate", "chain", "commit"}]
  BY DEF Proceed, OrganizationIInv, OrganizationTypeOK
<1>3. OrganizationTypeOK'
  BY <1>1, <1>2 DEF Proceed, OrganizationIInv, OrganizationTypeOK
<1>4. LogOrdered'
  BY DEF Proceed, OrganizationIInv, LogOrdered
<1>5. CallsOrdered'
  BY <1>1 DEF Proceed, OrganizationIInv, CallsOrdered
<1>6. QED
  BY <1>3, <1>4, <1>5

LEMMA BeginKeeps ==
    ASSUME OrganizationIInv, NEW c \in Backend, NEW actor \in Uid, NEW target \in Uid,
           NEW role \in MemberRole, BeginChange(c, actor, target, role)
    PROVE  OrganizationIInv'
<1> DEFINE call == [actor |-> actor, target |-> target, role |-> role, began |-> clock + 1]
<1>1. OrganizationTypeOK /\ clock \in Nat
  BY DEF OrganizationIInv, OrganizationTypeOK
<1>2. call \in RoleChange /\ call # NoCall
  BY <1>1, OrganizationsAssumption DEF RoleChange, NoCall
<1>3. /\ backend' = [backend EXCEPT ![c] = "rate"]
      /\ change' = [change EXCEPT ![c] = call]
      /\ UNCHANGED <<memberRole, enrolled, auditLog, previous, stale, overtaken>>
      /\ clock' = clock + 1 /\ backend[c] = "idle"
  BY DEF BeginChange
<1>4. OrganizationTypeOK'
  BY <1>1, <1>2, <1>3 DEF OrganizationTypeOK
<1>5. \A d \in Backend : d # c => backend'[d] = backend[d] /\ change'[d] = change[d]
  BY <1>1, <1>3 DEF OrganizationTypeOK
<1>6. backend'[c] = "rate" /\ change'[c].began = clock + 1
  BY <1>1, <1>3 DEF OrganizationTypeOK
<1>7. RowsLocked'
  BY <1>3, <1>5, <1>6 DEF OrganizationIInv, RowsLocked, Locks
<1>8. ChecksHold'
  BY <1>3, <1>5, <1>6 DEF OrganizationIInv, ChecksHold, RoleOf
<1>9. LogOrdered'
  BY <1>1, <1>3 DEF OrganizationIInv, OrganizationTypeOK, LogOrdered, AuditRow
<1>10. CallsOrdered'
  <2>1. \A d \in Backend \ {c} : backend'[d] # "idle" =>
            /\ 0 < change'[d].began /\ change'[d].began <= clock
            /\ change'[d].began \in Nat
            /\ \A a \in auditLog : a.began # change'[d].began
    BY <1>1, <1>5, CallMade DEF OrganizationIInv, CallsOrdered, RoleChange
  <2>2. \A a \in auditLog : a.began < clock + 1 /\ a.began \in Nat
    BY <1>1 DEF OrganizationIInv, OrganizationTypeOK, LogOrdered, AuditRow
  <2>3. \A d, e \in Backend \ {c} :
            d # e /\ backend'[d] # "idle" /\ backend'[e] # "idle" =>
                change'[d].began # change'[e].began
    BY <1>5 DEF OrganizationIInv, CallsOrdered
  <2>4. QED
    BY <1>1, <1>3, <1>6, <2>1, <2>2, <2>3 DEF CallsOrdered
<1>11. SeesEarlier'
  BY <1>3, <1>5, <1>6 DEF OrganizationIInv, SeesEarlier, PassesOver, Logs
<1>12. QED
  BY <1>4, <1>7, <1>8, <1>9, <1>10, <1>11 DEF OrganizationIInv

\* A call that ends without a trace.
LEMMA RaiseKeeps ==
    ASSUME OrganizationIInv, NEW c \in Backend, Raise(c)
    PROVE  OrganizationIInv'
<1>1. OrganizationTypeOK
  BY DEF OrganizationIInv
<1>2. /\ backend' = [backend EXCEPT ![c] = "idle"]
      /\ change' = [change EXCEPT ![c] = NoCall]
      /\ previous' = [previous EXCEPT ![c] = 0]
      /\ UNCHANGED <<enrolled, memberRole, auditLog, clock>>
      /\ stale' = stale \ {c} /\ overtaken' = overtaken \ {c}
  BY DEF Raise, End
<1>3. OrganizationTypeOK'
  BY <1>1, <1>2 DEF OrganizationTypeOK
<1>4. \A d \in Backend : d # c => /\ backend'[d] = backend[d] /\ change'[d] = change[d]
                                  /\ previous'[d] = previous[d]
  BY <1>1, <1>2 DEF OrganizationTypeOK
<1>5. backend'[c] = "idle"
  BY <1>1, <1>2 DEF OrganizationTypeOK
<1>6. RowsLocked'
  BY <1>2, <1>4, <1>5 DEF OrganizationIInv, RowsLocked, Locks
<1>7. ChecksHold'
  BY <1>2, <1>4, <1>5 DEF OrganizationIInv, ChecksHold, RoleOf
<1>8. LogOrdered' /\ CallsOrdered'
  BY <1>2, <1>4, <1>5 DEF OrganizationIInv, LogOrdered, CallsOrdered
<1>9. SeesEarlier'
  BY <1>2, <1>4, <1>5 DEF OrganizationIInv, SeesEarlier, PassesOver, Logs
<1>10. QED
  BY <1>3, <1>6, <1>7, <1>8, <1>9 DEF OrganizationIInv

LEMMA RateLimitKeeps ==
    ASSUME OrganizationIInv, NEW c \in Backend, RateLimit(c)
    PROVE  OrganizationIInv'
<1>1. /\ OrganizationTypeOK /\ backend[c] = "rate" /\ Proceed(c, "check")
      /\ UNCHANGED previous
  BY DEF OrganizationIInv, RateLimit
<1>2. OrganizationTypeOK' /\ LogOrdered' /\ CallsOrdered'
  BY <1>1, ProceedOrdered DEF OrganizationTypeOK
<1>3. /\ \A d \in Backend : d # c => backend'[d] = backend[d]
      /\ backend'[c] = "check"
      /\ UNCHANGED <<memberRole, enrolled, auditLog, clock, change, stale, overtaken>>
  BY <1>1 DEF Proceed, OrganizationTypeOK
<1>4. RowsLocked' /\ SeesEarlier'
  BY <1>1, <1>3 DEF OrganizationIInv, RowsLocked, Locks, SeesEarlier, PassesOver, Logs
<1>5. ChecksHold'
  BY <1>3 DEF OrganizationIInv, ChecksHold, RoleOf
<1>6. QED
  BY <1>2, <1>4, <1>5 DEF OrganizationIInv

LEMMA CheckActorKeeps ==
    ASSUME OrganizationIInv, NEW c \in Backend, CheckActor(c)
    PROVE  OrganizationIInv'
<1> DEFINE r == RoleOf(change[c].actor)
<1>1. CASE Insufficient(r, change[c].role)
  BY <1>1, RaiseKeeps DEF CheckActor
<1>2. CASE ~ Insufficient(r, change[c].role)
  <2>1. /\ OrganizationTypeOK /\ backend[c] = "check" /\ Proceed(c, "update")
        /\ UNCHANGED previous
    BY <1>2 DEF OrganizationIInv, CheckActor
  <2>2. OrganizationTypeOK' /\ LogOrdered' /\ CallsOrdered'
    BY <2>1, ProceedOrdered DEF OrganizationTypeOK
  <2>3. /\ \A d \in Backend : d # c => backend'[d] = backend[d]
        /\ backend'[c] = "update"
        /\ UNCHANGED <<memberRole, enrolled, auditLog, clock, change, stale, overtaken>>
    BY <2>1 DEF Proceed, OrganizationTypeOK
  <2>4. RowsLocked' /\ SeesEarlier'
    BY <2>1, <2>3 DEF OrganizationIInv, RowsLocked, Locks, SeesEarlier, PassesOver, Logs
  <2>5. r = Null \/ r \in {"owner", "admin"}
    BY <1>2 DEF Insufficient
  <2>6. ChecksHold'
    BY <2>3, <2>5 DEF OrganizationIInv, ChecksHold, RoleOf
  <2>7. QED
    BY <2>2, <2>4, <2>6 DEF OrganizationIInv
<1>3. QED
  BY <1>1, <1>2

LEMMA LockMemberKeeps ==
    ASSUME OrganizationIInv, NEW c \in Backend, LockMember(c)
    PROVE  OrganizationIInv'
<1>1. CASE memberRole[change[c].target] = "none"
  BY <1>1, RaiseKeeps DEF LockMember
<1>2. CASE memberRole[change[c].target] # "none"
  <2>1. /\ OrganizationTypeOK /\ backend[c] = "update" /\ Proceed(c, "validate")
        /\ UNCHANGED previous
        /\ \A d \in Backend : Locks(d) => change[d].target # change[c].target
    BY <1>2 DEF OrganizationIInv, LockMember
  <2>2. OrganizationTypeOK' /\ LogOrdered' /\ CallsOrdered'
    BY <2>1, ProceedOrdered DEF OrganizationTypeOK
  <2>3. /\ \A d \in Backend : d # c => backend'[d] = backend[d]
        /\ backend'[c] = "validate"
        /\ UNCHANGED <<memberRole, enrolled, auditLog, clock, change, stale, overtaken>>
    BY <2>1 DEF Proceed, OrganizationTypeOK
  <2>4. RowsLocked'
    BY <1>2, <2>1, <2>3 DEF OrganizationIInv, RowsLocked, Locks
  <2>5. SeesEarlier'
    BY <2>1, <2>3 DEF OrganizationIInv, SeesEarlier, PassesOver, Logs
  <2>6. ChecksHold'
    BY <2>1, <2>3 DEF OrganizationIInv, ChecksHold, RoleOf
  <2>7. QED
    BY <2>2, <2>4, <2>5, <2>6 DEF OrganizationIInv
<1>3. QED
  BY <1>1, <1>2

LEMMA ValidateKeeps ==
    ASSUME OrganizationIInv, NEW c \in Backend, ValidateChange(c)
    PROVE  OrganizationIInv'
<1> DEFINE r == RoleOf(change[c].actor)
           old == memberRole[change[c].target]
           new == change[c].role
           goal == IF old = new THEN "commit" ELSE "chain"
<1>1. CASE Forbidden(r, old, new)
  BY <1>1, RaiseKeeps DEF ValidateChange
<1>2. CASE ~ Forbidden(r, old, new)
  <2>1. /\ OrganizationTypeOK /\ backend[c] = "validate" /\ Proceed(c, goal)
        /\ UNCHANGED previous
    BY <1>2 DEF OrganizationIInv, ValidateChange
  <2>2. OrganizationTypeOK' /\ LogOrdered' /\ CallsOrdered'
    BY <2>1, ProceedOrdered DEF OrganizationTypeOK
  <2>3. /\ \A d \in Backend : d # c => backend'[d] = backend[d]
        /\ backend'[c] = goal
        /\ UNCHANGED <<memberRole, enrolled, auditLog, clock, change, stale, overtaken>>
    BY <2>1 DEF Proceed, OrganizationTypeOK
  <2>4. RowsLocked'
    BY <2>1, <2>3 DEF OrganizationIInv, RowsLocked, Locks
  <2>5. SeesEarlier'
    BY <2>1, <2>3 DEF OrganizationIInv, SeesEarlier, PassesOver, Logs
  <2>6. "owner" \in {old, new} => r \in {Null, "owner"}
    BY <1>2 DEF Forbidden
  <2>7. ChecksHold'
    BY <2>1, <2>3, <2>6 DEF OrganizationIInv, ChecksHold, RoleOf
  <2>8. QED
    BY <2>2, <2>4, <2>5, <2>7 DEF OrganizationIInv
<1>3. QED
  BY <1>1, <1>2

\* The latest row passes over none, and is one of the log unless the log is empty.
LEMMA LatestSeesAll ==
    ASSUME OrganizationIInv, NEW b \in Nat, LatestRow(b), NEW t
    PROVE  ~ PassesOver(t, b) /\ (b # 0 => \E p \in auditLog : p.began = b)
<1>1. \A a \in auditLog : a.began \in Nat
  BY DEF OrganizationIInv, OrganizationTypeOK, AuditRow
<1>2. QED
  BY <1>1 DEF LatestRow, PassesOver

LEMMA ChainKeeps ==
    ASSUME OrganizationIInv, NEW c \in Backend, Chain(c)
    PROVE  OrganizationIInv'
<1>1. /\ OrganizationTypeOK /\ clock \in Nat /\ backend[c] = "chain"
      /\ Proceed(c, "commit")
  BY DEF OrganizationIInv, OrganizationTypeOK, Chain
<1>2. PICK b \in Nat : LatestRow(b) /\ previous' = [previous EXCEPT ![c] = b]
  <2>1. PICK b \in 0..clock : LatestRow(b) /\ previous' = [previous EXCEPT ![c] = b]
    BY DEF Chain
  <2>2. b \in Nat
    BY <1>1, <2>1
  <2>3. QED
    BY <2>1, <2>2
<1>3. OrganizationTypeOK' /\ LogOrdered' /\ CallsOrdered'
  BY <1>1, <1>2, ProceedOrdered DEF OrganizationTypeOK
<1>4. /\ \A d \in Backend : d # c => backend'[d] = backend[d] /\ previous'[d] = previous[d]
      /\ backend'[c] = "commit" /\ previous'[c] = b
      /\ UNCHANGED <<memberRole, enrolled, auditLog, clock, change, stale, overtaken>>
  BY <1>1, <1>2 DEF Proceed, OrganizationTypeOK
<1>5. RowsLocked'
  BY <1>1, <1>4 DEF OrganizationIInv, RowsLocked, Locks
<1>6. ChecksHold'
  BY <1>1, <1>4 DEF OrganizationIInv, ChecksHold, RoleOf
<1>7. \A t : ~ PassesOver(t, b)
  BY <1>2, LatestSeesAll
<1>8. b # 0 => \E p \in auditLog : p.began = b
  BY <1>2, LatestSeesAll
<1>9. SeesEarlier'
  BY <1>4, <1>7, <1>8 DEF OrganizationIInv, SeesEarlier, PassesOver, Logs
<1>10. QED
  BY <1>3, <1>5, <1>6, <1>9 DEF OrganizationIInv

\* A commit: what the other calls have read of the row is noted as gone.
LEMMA CommitKeeps ==
    ASSUME OrganizationIInv, NEW c \in Backend, Commit(c)
    PROVE  OrganizationIInv'
<1> DEFINE u == change[c].target
           row == [began |-> change[c].began, ended |-> clock, previous |-> previous[c]]
<1>1. OrganizationTypeOK /\ backend[c] = "commit" /\ clock \in Nat
  BY DEF OrganizationIInv, OrganizationTypeOK, Commit
<1>2. /\ change[c] \in RoleChange /\ u \in Uid /\ change[c].role \in MemberRole
      /\ memberRole[u] # "none"
  BY <1>1, CallMade DEF OrganizationIInv, RowsLocked, Locks, RoleChange
<1>3. CASE memberRole[u] = change[c].role
  <2>1. Raise(c)
    BY <1>3 DEF Commit, Raise
  <2>2. QED
    BY <2>1, RaiseKeeps
<1>4. CASE memberRole[u] # change[c].role
  <2>1. /\ memberRole' = [memberRole EXCEPT ![u] = change[c].role]
        /\ auditLog' = auditLog \cup {row}
        /\ clock' = clock
        /\ stale' = (stale \ {c}) \cup Relying(c, {"update", "validate", "chain", "commit"})
        /\ overtaken' = (overtaken \ {c}) \cup Relying(c, {"chain", "commit"})
        /\ UNCHANGED enrolled
    BY <1>4 DEF Commit, End
  <2>2. /\ backend' = [backend EXCEPT ![c] = "idle"]
        /\ change' = [change EXCEPT ![c] = NoCall]
        /\ previous' = [previous EXCEPT ![c] = 0]
    BY DEF Commit, End
  <2>3. \A d \in Backend : d # c => /\ backend'[d] = backend[d] /\ change'[d] = change[d]
                                    /\ previous'[d] = previous[d]
    BY <1>1, <2>2 DEF OrganizationTypeOK
  <2>4. backend'[c] = "idle"
    BY <1>1, <2>2 DEF OrganizationTypeOK
  <2>5. \A v \in Uid : v # u => memberRole'[v] = memberRole[v]
    BY <1>1, <2>1 DEF OrganizationTypeOK
  <2>6. memberRole'[u] = change[c].role
    BY <1>1, <1>2, <2>1 DEF OrganizationTypeOK
  <2>7. OrganizationTypeOK'
    <3>1. memberRole' \in [Uid -> MemberRole \cup {"none"}]
      BY <1>1, <1>2, <2>1 DEF OrganizationTypeOK
    <3>2. enrolled' \subseteq {v \in Uid : memberRole'[v] # "none"}
      BY <1>1, <1>2, <2>1, <2>5, <2>6 DEF OrganizationTypeOK, MemberRole
    <3>3. auditLog' \subseteq AuditRow
      BY <1>1, <1>2, <2>1 DEF OrganizationTypeOK, AuditRow, RoleChange
    <3>4. stale' \subseteq Backend /\ overtaken' \subseteq Backend
      BY <1>1, <2>1 DEF OrganizationTypeOK, Relying
    <3>5. /\ backend' \in [Backend -> {"idle", "rate", "check", "update", "validate", "chain", "commit"}]
          /\ change' \in [Backend -> RoleChange \cup {NoCall}]
          /\ previous' \in [Backend -> Nat]
          /\ \A d \in Backend : backend'[d] = "idle" <=> change'[d] = NoCall
      BY <1>1, <2>2 DEF OrganizationTypeOK
    <3>6. clock' \in Nat
      BY <1>1, <2>1
    <3>7. QED
      BY <3>1, <3>2, <3>3, <3>4, <3>5, <3>6 DEF OrganizationTypeOK
  <2>8. RowsLocked'
    <3>1. \A d \in Backend : d # c /\ Locks(d) => change[d].target # u
      BY <1>1 DEF OrganizationIInv, RowsLocked, Locks
    <3>2. \A d \in Backend : Locks(d)' => d # c /\ Locks(d) /\ change'[d] = change[d]
      BY <2>3, <2>4 DEF Locks
    <3>3. \A d \in Backend : Locks(d) => change[d].target \in Uid
      BY <1>1, CallMade DEF Locks, RoleChange
    <3>4. QED
      BY <2>5, <3>1, <3>2, <3>3 DEF OrganizationIInv, RowsLocked
  <2>9. ChecksHold'
    <3> SUFFICES ASSUME NEW d \in Backend, d # c, RoleOf(change[d].actor)' # Null
                 PROVE  /\ /\ backend[d] \in {"update", "validate", "chain", "commit"}
                           /\ d \notin stale'
                           => RoleOf(change[d].actor)' \in {"owner", "admin"}
                        /\ /\ backend[d] \in {"chain", "commit"} /\ d \notin overtaken'
                           /\ "owner" \in {memberRole'[change[d].target], change[d].role}
                           => RoleOf(change[d].actor)' = "owner"
      BY <2>3, <2>4 DEF ChecksHold, RoleOf
    <3>1. change'[d] = change[d]
      BY <2>3
    <3>2. CASE change[d].actor = u
      <4>1. backend[d] \in {"update", "validate", "chain", "commit"} => d \in stale'
        BY <2>1, <3>2 DEF Relying
      <4>2. backend[d] \in {"chain", "commit"} => d \in overtaken'
        BY <2>1, <3>2 DEF Relying
      <4>3. QED
        BY <4>1, <4>2
    <3>3. CASE change[d].actor # u
      <4>1. RoleOf(change[d].actor)' = RoleOf(change[d].actor)
        BY <1>1, <2>1, <2>5, <3>1, <3>3 DEF RoleOf, OrganizationTypeOK
      <4>2. d \notin stale' => d \notin stale
        BY <2>1
      <4>3. d \notin overtaken' => d \notin overtaken
        BY <2>1
      <4>4. backend[d] \in {"chain", "commit"} =>
                memberRole'[change[d].target] = memberRole[change[d].target]
        <5>1. backend[d] \in {"chain", "commit"} => change[d].target # u /\ change[d].target \in Uid
          BY <1>1, CallMade DEF OrganizationIInv, RowsLocked, Locks, RoleChange
        <5>2. QED
          BY <2>5, <5>1
      <4>5. QED
        BY <4>1, <4>2, <4>3, <4>4 DEF OrganizationIInv, ChecksHold
    <3>4. QED
      BY <3>2, <3>3
  <2>10. /\ 0 < row.began /\ row.began <= clock /\ row.began \in Nat
         /\ \A a \in auditLog : a.began # row.began
    BY <1>1, <1>2 DEF OrganizationIInv, CallsOrdered, RoleChange
  <2>11. \A a \in auditLog : /\ a.began \in Nat /\ a.ended \in Nat /\ a.ended <= clock
                              /\ 0 < a.began /\ a.began <= a.ended
    BY <1>1 DEF OrganizationIInv, OrganizationTypeOK, AuditRow, LogOrdered
  <2>12. Logs(c)
    BY <1>1, <1>4 DEF Logs
  <2>13. LogOrdered'
    <3>1. \A a \in auditLog' : 0 < a.began /\ a.began <= a.ended /\ a.ended <= clock'
      BY <1>1, <2>1, <2>10, <2>11
    <3>2. \A a, b \in auditLog' : a.began = b.began => a = b
      BY <2>1, <2>10 DEF OrganizationIInv, LogOrdered
    <3>3. row.previous # 0 => \E p \in auditLog : p.began = row.previous /\ p.ended <= row.ended
      BY <1>1, <2>11, <2>12 DEF OrganizationIInv, SeesEarlier
    <3>4. \A a \in auditLog' : a.previous # 0 =>
              \E p \in auditLog' : p.began = a.previous /\ p.ended <= a.ended
      BY <2>1, <3>3 DEF OrganizationIInv, LogOrdered
    <3>5. QED
      BY <3>1, <3>2, <3>4 DEF LogOrdered
  <2>14. CallsOrdered'
    <3>1. \A d \in Backend : backend'[d] # "idle" => d # c /\ change'[d] = change[d] /\ backend[d] # "idle"
      BY <2>3, <2>4
    <3>2. \A d \in Backend : backend'[d] # "idle" =>
              /\ 0 < change[d].began /\ change[d].began <= clock
              /\ change[d].began # row.began
              /\ \A a \in auditLog : a.began # change[d].began
      <4>1. \A d \in Backend : backend'[d] # "idle" => change[d].began \in Nat
        BY <1>1, <3>1, CallMade DEF RoleChange
      <4>2. QED
        BY <1>1, <3>1, <4>1 DEF OrganizationIInv, CallsOrdered
    <3>3. \A d, e \in Backend : d # e /\ backend'[d] # "idle" /\ backend'[e] # "idle" =>
              change'[d].began # change'[e].began
      BY <3>1 DEF OrganizationIInv, CallsOrdered
    <3>4. QED
      BY <2>1, <3>1, <3>2, <3>3 DEF CallsOrdered
  <2>15. \A t \in Nat, b \in Nat :
            t <= clock /\ ~ PassesOver(t, b) => ~ PassesOver(t, b)'
    \* The new row was not committed before t.
    <3> SUFFICES ASSUME NEW t \in Nat, NEW b \in Nat, t <= clock, PassesOver(t, b)'
                 PROVE  PassesOver(t, b)
      OBVIOUS
    <3>1. PICK a \in auditLog' : a.ended < t /\ \A p \in auditLog' : p.began = b => p.began < a.began
      BY DEF PassesOver
    <3>2. a # row
      BY <1>1, <3>1
    <3>3. QED
      BY <2>1, <3>1, <3>2 DEF PassesOver
  <2>16. SeesEarlier'
    <3>1. \A a \in auditLog : ~ PassesOver(a.began, a.previous)'
      <4>1. \A a \in auditLog : a.began <= clock /\ a.began \in Nat /\ a.previous \in Nat
        BY <1>1, <2>11 DEF OrganizationTypeOK, AuditRow
      <4>2. QED
        BY <2>15, <4>1 DEF OrganizationIInv, SeesEarlier
    <3>2. ASSUME NEW t \in Nat, NEW b \in Nat, t = row.began, b = row.previous
          PROVE  ~ PassesOver(t, b)'
      BY <2>10, <2>12, <2>15, <3>2 DEF OrganizationIInv, SeesEarlier
    <3>3. \A d \in Backend : Logs(d)' => d # c /\ Logs(d) /\ change'[d] = change[d] /\ previous'[d] = previous[d]
      <4> SUFFICES ASSUME NEW d \in Backend, Logs(d)'
                   PROVE  d # c /\ Logs(d) /\ change'[d] = change[d] /\ previous'[d] = previous[d]
        OBVIOUS
      <4>1. d # c /\ backend[d] = "commit" /\ change'[d] = change[d] /\ previous'[d] = previous[d]
        BY <2>3, <2>4 DEF Logs
      <4>2. change[d].target # u /\ change[d].target \in Uid
        BY <1>1, <4>1, CallMade DEF OrganizationIInv, RowsLocked, Locks, RoleChange
      <4>3. QED
        BY <2>5, <4>1, <4>2 DEF Logs
    <3>4. ASSUME NEW d \in Backend, Logs(d)'
          PROVE  /\ ~ PassesOver(change[d].began, previous[d])'
                 /\ previous'[d] # 0 => \E p \in auditLog' : p.began = previous'[d]
      <4>1. Logs(d) /\ change'[d] = change[d] /\ previous'[d] = previous[d]
        BY <3>3, <3>4
      <4>2. change[d].began \in Nat /\ change[d].began <= clock /\ previous[d] \in Nat
        BY <1>1, <4>1, CallMade DEF OrganizationIInv, OrganizationTypeOK, CallsOrdered, Logs, RoleChange
      <4>3. ASSUME NEW t \in Nat, NEW b \in Nat, t = change[d].began, b = previous[d]
            PROVE  ~ PassesOver(t, b)'
        BY <2>15, <4>1, <4>2, <4>3 DEF OrganizationIInv, SeesEarlier
      <4>4. previous[d] # 0 => \E p \in auditLog' : p.began = previous[d]
        BY <2>1, <4>1 DEF OrganizationIInv, SeesEarlier
      <4>5. ~ PassesOver(change[d].began, previous[d])'
        BY <4>1, <4>2, <4>3 DEF PassesOver
      <4>6. QED
        BY <4>1, <4>4, <4>5
    <3>5. ASSUME NEW a \in auditLog'
          PROVE  ~ PassesOver(a.began, a.previous)'
      <4>1. CASE a \in auditLog
        BY <3>1, <4>1
      <4>2. CASE a = row
        <5>1. row.began \in Nat /\ row.previous \in Nat
          BY <1>1, <2>10 DEF OrganizationTypeOK
        <5>2. QED
          BY <3>2, <4>2, <5>1
      <4>3. QED
        BY <2>1, <4>1, <4>2
    <3>6. QED
      BY <3>4, <3>5 DEF SeesEarlier
  <2>17. QED
    BY <2>7, <2>8, <2>9, <2>13, <2>14, <2>16 DEF OrganizationIInv
<1>5. QED
  BY <1>3, <1>4

LEMMA OrganizationStep ==
    OrganizationIInv /\ [OrganizationNext]_organizationVars => OrganizationIInv'
<1> SUFFICES ASSUME OrganizationIInv, [OrganizationNext]_organizationVars
             PROVE  OrganizationIInv'
  OBVIOUS
<1>1. CASE UNCHANGED organizationVars
  BY <1>1 DEF organizationVars, OrganizationIInv, OrganizationTypeOK, RowsLocked, Locks,
     ChecksHold, RoleOf, LogOrdered, CallsOrdered, SeesEarlier, PassesOver, Logs
<1>2. ASSUME NEW c \in Backend, NEW actor \in Uid, NEW target \in Uid, NEW role \in MemberRole,
             BeginChange(c, actor, target, role)
      PROVE  OrganizationIInv'
  BY <1>2, BeginKeeps
<1>3. ASSUME NEW c \in Backend,
             \/ RateLimit(c) \/ CheckActor(c) \/ LockMember(c) \/ ValidateChange(c) \/ Chain(c)
             \/ Commit(c) \/ Disconnect(c)
      PROVE  OrganizationIInv'
  BY <1>3, RateLimitKeeps, CheckActorKeeps, LockMemberKeeps, ValidateKeeps, ChainKeeps,
     CommitKeeps, RaiseKeeps DEF Disconnect
<1>4. QED
  BY <1>1, <1>2, <1>3 DEF OrganizationNext

\* From the order of the log: the later of two rows that name the same row either
\* began before the earlier was committed, or the earlier began before that row.
LEMMA ForkExplained ==
    ASSUME OrganizationIInv
    PROVE  ForkHasCause
<1> SUFFICES ASSUME NEW a \in auditLog, NEW b \in auditLog, a # b, a.previous = b.previous,
                    ~ Overlap(a, b)
             PROVE  \E p \in auditLog : p.began = a.previous /\ (Overlap(a, p) \/ Overlap(b, p))
  BY DEF ForkHasCause
<1>1. \A r \in auditLog : /\ r.began \in Nat /\ r.ended \in Nat /\ r.previous \in Nat
                           /\ 0 < r.began /\ r.began <= r.ended
  BY DEF OrganizationIInv, OrganizationTypeOK, AuditRow, LogOrdered
<1>2. ASSUME NEW x \in auditLog, NEW y \in auditLog, x.previous = y.previous, x.ended < y.began
      PROVE  \E p \in auditLog : p.began = x.previous /\ Overlap(x, p)
  <2>1. ~ PassesOver(y.began, y.previous)
    BY DEF OrganizationIInv, SeesEarlier
  <2>2. PICK p \in auditLog : p.began = y.previous /\ ~ (p.began < x.began)
    BY <1>2, <2>1 DEF PassesOver
  <2>3. x.previous # 0
    BY <1>1, <1>2, <2>2
  <2>4. PICK q \in auditLog : q.began = x.previous /\ q.ended <= x.ended
    BY <2>3 DEF OrganizationIInv, LogOrdered
  <2>5. p = q
    BY <1>2, <2>2, <2>4 DEF OrganizationIInv, LogOrdered
  <2>6. x.began <= p.ended /\ p.began <= x.ended
    BY <1>1, <2>2, <2>4, <2>5
  <2>7. QED
    BY <2>4, <2>5, <2>6 DEF Overlap
<1>3. a.ended < b.began \/ b.ended < a.began
  BY <1>1 DEF Overlap
<1>4. QED
  BY <1>2, <1>3

\* The step that changes a role is the commit of a call whose checks still hold, or
\* whose actor was changed by another.
LEMMA ChangeEarned ==
    ASSUME OrganizationIInv, [OrganizationNext]_organizationVars,
           NEW u \in Uid, memberRole'[u] # memberRole[u]
    PROVE  \E c \in Backend :
               /\ backend[c] = "commit" /\ change[c].target = u
               /\ LET r == RoleOf(change[c].actor) IN
                  \/ r = Null
                  \/ /\ "owner" \in {memberRole[u], memberRole'[u]}
                     /\ r = "owner" \/ c \in overtaken
                  \/ /\ "owner" \notin {memberRole[u], memberRole'[u]}
                     /\ r \in {"owner", "admin"} \/ c \in stale
<1>1. PICK c \in Backend : Commit(c)
  BY DEF OrganizationNext, organizationVars, BeginChange, RateLimit, CheckActor, LockMember, ValidateChange,
     Chain, Disconnect, Proceed, Raise
<1>2. /\ OrganizationTypeOK /\ backend[c] = "commit" /\ change[c].target \in Uid
      /\ memberRole' = [memberRole EXCEPT ![change[c].target] = change[c].role]
  BY <1>1, CallMade DEF OrganizationIInv, Commit, RoleChange
<1>3. change[c].target = u /\ memberRole'[u] = change[c].role
  BY <1>2 DEF OrganizationTypeOK
<1>4. QED
  BY <1>2, <1>3 DEF OrganizationIInv, ChecksHold

LEMMA OrganizationInvariance == OrganizationSpec => []OrganizationIInv
<1>1. QED
  BY OrganizationStart, OrganizationStep, PTL DEF OrganizationSpec

\* change_member_role and its trigger: an actor with an active membership changes
\* a role only if it may when the change commits, or if its own role was changed
\* by a call that crossed this one.  Of an actor without one, whose NULL role
\* passes both checks, nothing is said.
THEOREM OrganizationChanges == OrganizationSpec => ChangesEarned
<1>1. OrganizationIInv /\ [OrganizationNext]_organizationVars =>
          [\A u \in Uid : memberRole'[u] # memberRole[u] =>
              \E c \in Backend :
               /\ backend[c] = "commit" /\ change[c].target = u
               /\ LET r == RoleOf(change[c].actor) IN
                  \/ r = Null
                  \/ /\ "owner" \in {memberRole[u], memberRole'[u]}
                     /\ r = "owner" \/ c \in overtaken
                  \/ /\ "owner" \notin {memberRole[u], memberRole'[u]}
                     /\ r \in {"owner", "admin"} \/ c \in stale]_organizationVars
  BY ChangeEarned
<1>2. QED
  BY <1>1, OrganizationInvariance, PTL DEF OrganizationSpec, ChangesEarned

\* write_audit_log: the chain forks only where transactions overlapped.
THEOREM OrganizationForks == OrganizationSpec => []ForkHasCause
<1>1. OrganizationIInv => ForkHasCause
  BY ForkExplained
<1>2. QED
  BY <1>1, OrganizationInvariance, PTL

\* Type correctness of Organizations.
THEOREM OrganizationTypeCorrect == OrganizationSpec => []OrganizationTypeOK
<1>1. OrganizationIInv => OrganizationTypeOK
  BY DEF OrganizationIInv
<1>2. QED
  BY <1>1, OrganizationInvariance, PTL

-----------------------------------------------------------------------------
(* Results: chains of calls on a Result.                                   *)

(* What one call does to one Result.                                       *)
BringsError(call) == call.name \in {"flatMap", "filter"} /\ \E r \in call.gives : ~r.ok

LEMMA AfterCall ==
    ASSUME NEW call \in Calls, NEW r \in Result
    PROVE  /\ After(call, r) \in Result
           /\ r.ok => /\ After(call, r).ok <=> ~BringsError(call)
                      /\ BringsError(call) => call.gives = {After(call, r)}
           /\ ~r.ok /\ call.name = "mapError" =>
                ~After(call, r).ok /\ call.gives = {After(call, r)}
           /\ ~r.ok /\ call.name # "mapError" => After(call, r) = r
<1> DEFINE given == CHOOSE s \in call.gives : TRUE
<1>1. After(call, r) = IF CallsBack(call.name, r) /\ call.gives # {} THEN given ELSE r
  BY DEF After
<1>2. r.ok \in BOOLEAN
  BY DEF Result
<1>3. ASSUME NEW s, call.gives = {s} PROVE given = s
  BY <1>3
<1> HIDE DEF given
<1>4. CASE call \in [name : {"map"}, gives : {{Ok(v)} : v \in Val}]
  <2>1. PICK v \in Val : call.gives = {Ok(v)}
    BY <1>4
  <2>2. Ok(v) \in Result /\ Ok(v).ok /\ call.name = "map" /\ given = Ok(v)
    BY <1>3, <1>4, <2>1 DEF Ok, Result
  <2>3. QED
    BY <1>1, <1>2, <2>1, <2>2 DEF CallsBack, BringsError
<1>5. CASE call \in [name : {"flatMap"}, gives : {{s} : s \in Result}]
  <2>1. PICK s \in Result : call.gives = {s}
    BY <1>5
  <2>2. call.name = "flatMap" /\ given = s /\ s.ok \in BOOLEAN
    BY <1>3, <1>5, <2>1 DEF Result
  <2>3. QED
    BY <1>1, <1>2, <2>1, <2>2 DEF CallsBack, BringsError
<1>6. CASE call \in [name : {"mapError"}, gives : {{Failed(e)} : e \in Err}]
  <2>1. PICK e \in Err : call.gives = {Failed(e)}
    BY <1>6
  <2>2. Failed(e) \in Result /\ ~Failed(e).ok /\ call.name = "mapError" /\ given = Failed(e)
    BY <1>3, <1>6, <2>1 DEF Failed, Result
  <2>3. QED
    BY <1>1, <1>2, <2>1, <2>2 DEF CallsBack, BringsError
<1>7. CASE call \in [name : {"filter"}, gives : {{Failed(e)} : e \in Err} \cup {{}}]
  <2>1. call.name = "filter"
    BY <1>7
  <2>2. CASE call.gives = {}
    BY <1>1, <1>2, <2>1, <2>2 DEF CallsBack, BringsError
  <2>3. CASE call.gives # {}
    <3>1. PICK e \in Err : call.gives = {Failed(e)}
      BY <1>7, <2>3
    <3>2. Failed(e) \in Result /\ ~Failed(e).ok /\ given = Failed(e)
      BY <1>3, <3>1 DEF Failed, Result
    <3>3. QED
      BY <1>1, <1>2, <2>1, <3>1, <3>2 DEF CallsBack, BringsError
  <2>4. QED
    BY <2>2, <2>3
<1>8. CASE call \in [name : {"tap", "tapError"}, gives : {{}}]
  BY <1>1, <1>2, <1>8 DEF CallsBack, BringsError
<1>9. QED
  BY <1>4, <1>5, <1>6, <1>7, <1>8 DEF Calls

\* What a call adds, position by position.
LEMMA CallAppends ==
    ASSUME ResultsTypeOK, NEW call \in Calls, CallResult(call)
    PROVE  LET n == Len(chain) + 1 IN
           /\ Res \in Result /\ Res = past[n]
           /\ n \in Nat /\ n > 0 /\ Len(chain') = n
           /\ DOMAIN chain = 1..Len(chain) /\ DOMAIN chain' = DOMAIN chain \cup {n}
           /\ n \notin DOMAIN chain
           /\ chain'[n] = call /\ \A i \in DOMAIN chain : chain'[i] = chain[i]
           /\ DOMAIN past = 1..n /\ DOMAIN past' = DOMAIN past \cup {n + 1}
           /\ n + 1 \notin DOMAIN past
           /\ past'[n + 1] = After(call, Res) /\ \A i \in DOMAIN past : past'[i] = past[i]
           /\ Res' = After(call, Res)
           /\ ran' = IF CallsBack(call.name, Res) THEN ran \cup {n} ELSE ran
           /\ ResultsTypeOK'
<1>1. /\ chain \in Seq(Calls) /\ past \in Seq(Result) /\ Len(past) = Len(chain) + 1
      /\ chain' = Append(chain, call) /\ past' = Append(past, After(call, Res))
      /\ ran \subseteq DOMAIN chain
      /\ ran' = IF CallsBack(call.name, Res) THEN ran \cup {Len(chain) + 1} ELSE ran
  BY DEF ResultsTypeOK, CallResult
<1>2. Res \in Result /\ Res = past[Len(chain) + 1]
  BY <1>1 DEF Res
<1>3. After(call, Res) \in Result
  BY <1>2, AfterCall
<1> DEFINE n == Len(chain) + 1
           r == After(call, Res)
<1>4. /\ n \in Nat /\ n > 0 /\ Len(chain') = n
      /\ DOMAIN chain = 1..Len(chain) /\ DOMAIN chain' = 1..n
      /\ chain'[n] = call /\ \A i \in DOMAIN chain : chain'[i] = chain[i]
      /\ chain' \in Seq(Calls)
  BY <1>1
<1>5. /\ DOMAIN past = 1..n /\ DOMAIN past' = 1..(n + 1) /\ Len(past') = n + 1
      /\ past'[n + 1] = r /\ \A i \in DOMAIN past : past'[i] = past[i]
      /\ past' \in Seq(Result)
  <2> HIDE DEF r
  <2> QED BY <1>1, <1>3 DEF r
<1>6. Res' = r
  BY <1>5 DEF Res
<1> HIDE DEF r
<1>7. ResultsTypeOK'
  BY <1>1, <1>4, <1>5 DEF ResultsTypeOK
<1>8. 1..n = 1..Len(chain) \cup {n} /\ n \notin 1..Len(chain)
      /\ 1..(n + 1) = 1..n \cup {n + 1} /\ n + 1 \notin 1..n
  BY <1>4
<1>9. QED
  BY <1>1, <1>2, <1>4, <1>5, <1>6, <1>7, <1>8 DEF r

LEMMA ChosenLeast ==
    ASSUME NEW N, N \subseteq Nat, NEW n \in N, \A m \in N : n <= m
    PROVE  n = CHOOSE i \in N : \A j \in N : i <= j
<1>1. \A i \in N : (\A j \in N : i <= j) => i = n
  OBVIOUS
<1>2. QED
  BY <1>1

LEMMA EnteringNumbers ==
    ASSUME ResultsTypeOK
    PROVE  Entering \subseteq 0..Len(chain)
BY DEF ResultsTypeOK, Entering

LEMMA EnteringNext ==
    ASSUME ResultsTypeOK, NEW call \in Calls, CallResult(call)
    PROVE  Entering' = Entering \cup (IF BringsError(call) THEN {Len(chain) + 1} ELSE {})
<1>1. past'[1] = past[1]
  BY CallAppends
<1>2. QED
  BY <1>1, CallAppends DEF Entering, BringsError

LEMMA ResultsNextInv ==
    ASSUME ResultsIInv, NEW call \in Calls, CallResult(call)
    PROVE  ResultsIInv'
<1>1. ResultsTypeOK /\ Len(chain) + 1 \in Nat
  BY DEF ResultsIInv, ResultsTypeOK
<1>2. PICK n \in Nat : n = Len(chain) + 1
  BY <1>1
<1> DEFINE r == After(call, Res)
<1>3. /\ Res \in Result /\ Res = past[n]
      /\ n \in Nat /\ n > 0 /\ Len(chain') = n
      /\ DOMAIN chain = 1..Len(chain) /\ DOMAIN chain' = DOMAIN chain \cup {n}
      /\ n \notin DOMAIN chain
      /\ chain'[n] = call /\ \A i \in DOMAIN chain : chain'[i] = chain[i]
      /\ DOMAIN past = 1..n /\ DOMAIN past' = DOMAIN past \cup {n + 1}
      /\ n + 1 \notin DOMAIN past
      /\ past'[n + 1] = r /\ \A i \in DOMAIN past : past'[i] = past[i]
      /\ Res' = r
      /\ ran' = IF CallsBack(call.name, Res) THEN ran \cup {n} ELSE ran
      /\ ResultsTypeOK'
  BY <1>1, <1>2, CallAppends
<1>4. Entering' = Entering \cup (IF BringsError(call) THEN {n} ELSE {})
  BY <1>1, <1>2, EnteringNext
<1>5. Entering \subseteq 0..Len(chain)
  BY <1>1, EnteringNumbers
<1>6. ran \subseteq DOMAIN chain
  BY <1>1 DEF ResultsTypeOK
<1>7. /\ Res.ok => /\ r.ok <=> ~BringsError(call)
                   /\ BringsError(call) => call.gives = {r}
      /\ ~Res.ok /\ call.name = "mapError" => ~r.ok /\ call.gives = {r}
      /\ ~Res.ok /\ call.name # "mapError" => r = Res
  BY <1>3, AfterCall
<1> HIDE DEF r
<1>8. CASE Entering = {} /\ ~BringsError(call)
  <2>1. Res.ok /\ \A i \in DOMAIN past : past[i].ok
    BY <1>3, <1>8 DEF ResultsIInv
  <2>2. r.ok
    BY <1>7, <1>8, <2>1
  <2>3. QED
    BY <1>3, <1>4, <1>8, <2>1, <2>2 DEF ResultsIInv
<1>9. CASE Entering = {} /\ BringsError(call)
  <2>1. Res.ok /\ \A i \in DOMAIN past : past[i].ok
    BY <1>3, <1>9 DEF ResultsIInv
  <2>2. ~r.ok /\ call.gives = {r}
    BY <1>7, <1>9, <2>1
  <2>3. Entering' = {n}
    BY <1>4, <1>9
  <2>4. Renamings(n)' = {} /\ \A i \in DOMAIN chain' : ~(i > n)
    BY <1>3, <1>2 DEF Renamings
  <2>5. FailedSince(n)'
    <3>1. \A i \in DOMAIN past' : past'[i].ok <=> i <= n
      BY <1>3, <2>1, <2>2
    <3>2. Came(n)' = {past'[n + 1]}
      BY <1>3, <2>2 DEF Came
    <3>3. OnlyErrorCallbacks(n)'
      BY <2>4 DEF OnlyErrorCallbacks
    <3>4. QED
      BY <1>3, <2>4, <3>1, <3>2, <3>3 DEF FailedSince
  <2>6. QED
    BY <1>3, <2>3, <2>5 DEF ResultsIInv
<1>10. CASE Entering # {}
  <2>1. PICK first \in Entering : (\A j \in Entering : first <= j) /\ FailedSince(first)
    BY <1>10 DEF ResultsIInv
  <2>2. first \in 0..Len(chain) /\ first < n /\ first + 1 \in DOMAIN past
    BY <1>3, <1>5, <1>2
  <2>3. ~Res.ok
    BY <1>3, <2>1, <2>2 DEF FailedSince
  <2>4. first \in Entering' /\ \A j \in Entering' : first <= j
    BY <1>4, <2>1, <2>2
  <2>5. ~r.ok
    BY <1>7, <2>3
  <2>6. \A i \in DOMAIN past' : past'[i].ok <=> i <= first
    <3>1. ~(n + 1 <= first)
      BY <1>3, <2>2
    <3>2. QED
      BY <1>3, <2>1, <2>5, <3>1 DEF FailedSince
  <2>7. Came(first)' = {past'[first + 1]} /\ Came(first)' = Came(first)
    <3>1. past'[first + 1] = past[first + 1] /\ past'[1] = past[1]
      BY <1>3, <2>2
    <3>2. first # 0 => chain'[first] = chain[first]
      BY <1>3, <2>2
    <3>3. QED
      BY <2>1, <3>1, <3>2 DEF Came, FailedSince
  <2>8. Renamings(first)' =
            IF call.name = "mapError" THEN Renamings(first) \cup {n} ELSE Renamings(first)
    BY <1>3, <2>2 DEF Renamings
  <2>9. Renamings(first)' = {} => Res' = past'[first + 1]
    BY <1>3, <1>7, <2>1, <2>2, <2>3, <2>8 DEF FailedSince
  <2>10. Renamings(first)' # {} =>
            \E last \in Renamings(first)' :
                (\A j \in Renamings(first)' : j <= last) /\ {Res'} = chain'[last].gives
    <3>1. CASE call.name = "mapError"
      <4>1. {Res'} = chain'[n].gives
        BY <1>3, <1>7, <2>3, <3>1
      <4>2. \A j \in Renamings(first)' : j <= n
        BY <1>3, <1>2, <2>8 DEF Renamings
      <4>3. QED
        BY <2>8, <3>1, <4>1, <4>2
    <3>2. CASE call.name # "mapError"
      <4>1. Renamings(first)' = Renamings(first) /\ Res' = Res
        BY <1>3, <1>7, <2>3, <2>8, <3>2
      <4>2. \A j \in Renamings(first) : chain'[j] = chain[j]
        BY <1>3 DEF Renamings
      <4>3. QED
        BY <2>1, <4>1, <4>2 DEF FailedSince
    <3>3. QED
      BY <3>1, <3>2
  <2>11. OnlyErrorCallbacks(first)'
    <3>1. n \in ran' <=> call.name \in {"mapError", "tapError"}
      BY <1>3, <1>6, <2>3 DEF CallsBack
    <3>2. \A i \in DOMAIN chain : i \in ran' <=> i \in ran
      BY <1>3
    <3>3. QED
      BY <1>3, <2>1, <3>1, <3>2 DEF FailedSince, OnlyErrorCallbacks
  <2>12. FailedSince(first)'
    BY <2>6, <2>7, <2>9, <2>10, <2>11 DEF FailedSince
  <2>13. QED
    BY <1>3, <2>4, <2>12 DEF ResultsIInv
<1>11. QED
  BY <1>8, <1>9, <1>10

LEMMA ResultsInitInv == ASSUME ResultsInit PROVE ResultsIInv
<1>1. PICK r \in Result : past = <<r>>
  BY DEF ResultsInit
<1>2. chain = <<>> /\ ran = {}
  BY DEF ResultsInit
<1>3. ResultsTypeOK
  BY <1>1, <1>2 DEF ResultsTypeOK
<1>4. Entering = (IF r.ok THEN {} ELSE {0}) /\ DOMAIN past = {1} /\ past[1] = r /\ Res = r
  BY <1>1, <1>2 DEF Entering, Res
<1>5. CASE ~r.ok
  <2>1. Renamings(0) = {} /\ Came(0) = {r} /\ OnlyErrorCallbacks(0)
    BY <1>2, <1>4 DEF Renamings, Came, OnlyErrorCallbacks
  <2>2. FailedSince(0)
    BY <1>4, <1>5, <2>1 DEF FailedSince
  <2>3. QED
    BY <1>3, <1>4, <1>5, <2>2 DEF ResultsIInv
<1>6. CASE r.ok
  BY <1>3, <1>4, <1>6 DEF ResultsIInv
<1>7. QED
  BY <1>5, <1>6

LEMMA FailureStands == ASSUME ResultsIInv PROVE FirstFailureStands
<1>1. /\ chain \in Seq(Calls) /\ past \in Seq(Result) /\ Len(past) = Len(chain) + 1
  BY DEF ResultsIInv, ResultsTypeOK
<1>2. /\ Len(chain) \in Nat /\ DOMAIN past = 1..Len(past) /\ Res = past[Len(past)]
      /\ Len(past) \in DOMAIN past /\ Entering \subseteq 0..Len(chain)
  BY <1>1, EnteringNumbers DEF Res, ResultsIInv
<1> DEFINE failed == {i \in 1..Len(past) : ~past[i].ok}
<1>3. CASE Entering = {}
  <2>1. \A i \in DOMAIN past : past[i].ok
    BY <1>3 DEF ResultsIInv
  <2>2. failed = {}
    BY <1>2, <2>1
  <2>3. Combine(past).ok
    BY <2>2 DEF Combine, Ok
  <2>4. QED
    BY <1>2, <1>3, <2>1, <2>3 DEF FirstFailureStands
<1>4. CASE Entering # {}
  <2>1. PICK first \in Entering : (\A j \in Entering : first <= j) /\ FailedSince(first)
    BY <1>4 DEF ResultsIInv
  <2>2. first \in 0..Len(chain)
    BY <1>2
  <2>3. first = CHOOSE i \in Entering : \A j \in Entering : i <= j
    <3>1. Entering \subseteq Nat
      BY <1>2
    <3>2. QED
      BY <2>1, <3>1, ChosenLeast
  <2>4. {Res} = IF Renamings(first) = {} THEN Came(first)
               ELSE chain[CHOOSE i \in Renamings(first) : \A j \in Renamings(first) : j <= i].gives
    <3>1. CASE Renamings(first) = {}
      BY <2>1, <3>1 DEF FailedSince
    <3>2. CASE Renamings(first) # {}
      <4>1. PICK last \in Renamings(first) :
                (\A j \in Renamings(first) : j <= last) /\ {Res} = chain[last].gives
        BY <2>1, <3>2 DEF FailedSince
      <4>2. Renamings(first) \subseteq Nat
        BY <1>1 DEF Renamings
      <4>3. last = CHOOSE i \in Renamings(first) : \A j \in Renamings(first) : j <= i
        BY <4>1, <4>2
      <4>4. QED
        BY <3>2, <4>1, <4>3
    <3>3. QED
      BY <3>1, <3>2
  <2>5. {Combine(past)} = Came(first)
    <3>1. failed = (first + 1)..Len(past)
      BY <1>1, <1>2, <2>1, <2>2 DEF FailedSince
    <3>2. first + 1 \in failed /\ \A j \in failed : first + 1 <= j
      BY <1>1, <1>2, <2>2, <3>1
    <3>3. first + 1 = CHOOSE i \in failed : \A j \in failed : i <= j
      <4>1. failed \subseteq Nat
        OBVIOUS
      <4> HIDE DEF failed
      <4>2. QED
        BY <3>2, <4>1, ChosenLeast
    <3>4. Combine(past) = Failed(past[first + 1].is)
      BY <3>2, <3>3 DEF Combine
    <3>5. past[first + 1] \in Result /\ ~past[first + 1].ok
      BY <1>1, <1>2, <3>2
    <3>6. Failed(past[first + 1].is) = past[first + 1]
      BY <3>5 DEF Failed, Result
    <3>7. QED
      BY <2>1, <3>4, <3>6 DEF FailedSince
  <2>6. QED
    BY <1>4, <2>1, <2>3, <2>4, <2>5 DEF FirstFailureStands, FailedSince
<1>5. QED
  BY <1>3, <1>4

(* A chain of calls on a Result fails with the first error that came into  *)
(* it, as the mapErrors behind it renamed it, and combine() says the same, *)
(* for any values, errors and lengths.                                     *)
THEOREM ResultsFirstFailure == ResultsSpec => []FirstFailureStands
<1>1. ResultsInit => ResultsIInv
  BY ResultsInitInv
<1>2. ResultsIInv /\ [ResultsNext]_resultVars => ResultsIInv'
  <2> SUFFICES ASSUME ResultsIInv, [ResultsNext]_resultVars PROVE ResultsIInv'
    OBVIOUS
  <2>1. CASE UNCHANGED resultVars
    <3>1. chain' = chain /\ past' = past /\ ran' = ran
      BY <2>1 DEF resultVars
    <3>2. ResultsTypeOK' /\ Entering' = Entering
      BY <3>1 DEF ResultsIInv, ResultsTypeOK, Entering
    <3>3. \A first : FailedSince(first)' = FailedSince(first)
      BY <3>1 DEF FailedSince, Came, Renamings, OnlyErrorCallbacks, Res
    <3>4. QED
      BY <3>1, <3>2, <3>3 DEF ResultsIInv
  <2>2. QED
    BY <2>1, ResultsNextInv DEF ResultsNext
<1>3. ResultsIInv => FirstFailureStands
  BY FailureStands
<1>4. QED
  BY <1>1, <1>2, <1>3, PTL DEF ResultsSpec

-----------------------------------------------------------------------------
(* Paging: a walk over the pages of a table that changes.                  *)

LEMMA RemovedAt ==
    ASSUME NEW S, NEW s \in Seq(S), NEW k \in 1..Len(s)
    PROVE  /\ RemoveAt(s, k) \in Seq(S) /\ Len(RemoveAt(s, k)) = Len(s) - 1
           /\ \A i \in 1..(Len(s) - 1) :
                RemoveAt(s, k)[i] = IF i < k THEN s[i] ELSE s[i + 1]
<1> DEFINE front == SubSeq(s, 1, k - 1)
           back == SubSeq(s, k + 1, Len(s))
<1>1. front \in Seq(S) /\ Len(front) = k - 1 /\ \A i \in 1..(k - 1) : front[i] = s[i]
  OBVIOUS
<1>2. /\ back \in Seq(S) /\ Len(back) = Len(s) - k
      /\ \A i \in 1..(Len(s) - k) : back[i] = s[k + i]
  OBVIOUS
<1>3. RemoveAt(s, k) = front \o back
  BY DEF RemoveAt
<1> HIDE DEF front, back
<1>4. front \o back \in Seq(S) /\ Len(front \o back) = Len(s) - 1
  BY <1>1, <1>2
<1>5. ASSUME NEW i \in 1..(Len(s) - 1)
      PROVE  (front \o back)[i] = IF i < k THEN s[i] ELSE s[i + 1]
  <2>1. (front \o back)[i] = IF i <= k - 1 THEN front[i] ELSE back[i - (k - 1)]
    BY <1>1, <1>2, <1>5, ConcatProperties
  <2>2. CASE i < k
    BY <1>1, <2>1, <2>2
  <2>3. CASE ~(i < k)
    <3>1. i - (k - 1) \in 1..(Len(s) - k) /\ k + (i - (k - 1)) = i + 1
      BY <2>3
    <3>2. QED
      BY <1>2, <2>1, <2>3, <3>1
  <2>4. QED
    BY <2>2, <2>3
<1>6. QED
  BY <1>3, <1>4, <1>5

LEMMA InsertedFirst ==
    ASSUME NEW S, NEW s \in Seq(S), NEW r \in S
    PROVE  /\ <<r>> \o s \in Seq(S) /\ Len(<<r>> \o s) = Len(s) + 1
           /\ (<<r>> \o s)[1] = r
           /\ \A i \in 1..Len(s) : (<<r>> \o s)[i + 1] = s[i]
OBVIOUS

(* Pages and rows.                                                         *)
LEMMA Pages ==
    ASSUME NEW p \in Nat \ {0}, NEW L \in Nat \ {0}
    PROVE  /\ (p - 1) * L + L = p * L /\ p * L \in Nat /\ (p - 1) * L \in Nat
           /\ (p - 1) * L <= p * L
OBVIOUS

\* A page has a next one exactly if it does not reach the last of n rows.
LEMMA NextPage ==
    ASSUME NEW p \in Nat, NEW L \in Nat \ {0}, NEW n \in Nat
    PROVE  p < (n + L - 1) \div L <=> p * L < n
<1> DEFINE m == n + L - 1
           q == m \div L
<1>1. m \in Nat
  OBVIOUS
<1> HIDE DEF m
<1>2. q \in Nat /\ L * q <= m /\ m < L * q + L
  BY <1>1
<1> HIDE DEF q
<1>3. p < q => p * L + L <= L * q
  BY <1>2
<1>4. q <= p => L * q <= p * L
  BY <1>2
<1>5. p * L \in Nat /\ L * q \in Nat
  BY <1>2
<1>6. p < q <=> p * L < n
  BY <1>2, <1>3, <1>4, <1>5 DEF m
<1>7. QED
  BY <1>6 DEF q, m

\* What the invariant says of the rows in front of a mark.
Walked(mark) ==
    /\ "insert" \notin changes => \A i \in DOMAIN table : seen[table[i]] > 0 => i <= mark
    /\ "delete" \notin changes =>
        \A i \in DOMAIN table :
            table[i] \in ToSet(Already) /\ i <= mark => seen[table[i]] > 0

LEMMA Marks ==
    ASSUME PagingIInv, page # 0
    PROVE  /\ page \in Nat \ {0} /\ limit \in Nat \ {0}
           /\ table \in Seq(Row) /\ Len(table) \in Nat /\ DOMAIN table = 1..Len(table)
           /\ seen \in [Row -> Nat] /\ \A i \in DOMAIN table : table[i] \in Row
           /\ (page - 1) * limit \in Nat /\ page * limit \in Nat
           /\ (page - 1) * limit + limit = page * limit
           /\ ReadUpTo = IF "items" \in read THEN page * limit ELSE (page - 1) * limit
           /\ Walked(ReadUpTo)
<1>1. /\ page \in Nat \ {0} /\ limit \in Nat \ {0} /\ table \in Seq(Row)
      /\ seen \in [Row -> Nat]
  BY PagingAssumption DEF PagingIInv, PagingTypeOK
<1>2. /\ (page - 1) * limit \in Nat /\ page * limit \in Nat
      /\ (page - 1) * limit + limit = page * limit
  BY <1>1, Pages
<1>3. Walked(ReadUpTo)
  BY DEF PagingIInv, Walked
<1>4. QED
  BY <1>1, <1>2, <1>3 DEF ReadUpTo

LEMMA ReadItemsInv == ASSUME PagingIInv, ReadItems PROVE PagingIInv'
<1>1. /\ page # 0 /\ "items" \notin read /\ read' = read \cup {"items"}
      /\ seen' = [r \in Row |-> IF r \in PageOf(table) THEN seen[r] + 1 ELSE seen[r]]
      /\ UNCHANGED <<limit, table, unused, page, total, changes>>
  BY DEF ReadItems
<1>2. /\ page \in Nat \ {0} /\ limit \in Nat \ {0}
      /\ table \in Seq(Row) /\ Len(table) \in Nat /\ DOMAIN table = 1..Len(table)
      /\ seen \in [Row -> Nat] /\ \A i \in DOMAIN table : table[i] \in Row
      /\ ReadUpTo = (page - 1) * limit /\ Walked(ReadUpTo)
  BY <1>1, Marks
<1>3. PICK lo \in Nat, hi \in Nat :
        lo = (page - 1) * limit /\ hi = page * limit /\ hi = lo + limit
  BY <1>1, Marks
<1>4. ReadUpTo = lo /\ ReadUpTo' = hi
  BY <1>1, <1>2, <1>3 DEF ReadUpTo
<1>5. PageOf(table) = {table[i] : i \in {j \in DOMAIN table : lo < j /\ j <= hi}}
  BY <1>3 DEF PageOf
<1>6. \A i \in DOMAIN table : table[i] \in PageOf(table) <=> lo < i /\ i <= hi
  BY <1>5 DEF PagingIInv, IsInjective
<1>7. PagingTypeOK'
  <2>1. seen' \in [Row -> Nat]
    BY <1>1, <1>2
  <2>2. QED
    BY <1>1, <2>1 DEF PagingIInv, PagingTypeOK
<1>8. \A r \in Row : seen'[r] > 1 => "insert" \in changes
  <2> SUFFICES ASSUME NEW r \in Row, seen'[r] > 1, "insert" \notin changes PROVE FALSE
    OBVIOUS
  <2>1. seen[r] \in Nat /\ ~(seen[r] > 1)
    BY <1>2 DEF PagingIInv
  <2>2. r \in PageOf(table) /\ seen[r] > 0
    BY <1>1, <2>1
  <2>3. PICK i \in DOMAIN table : r = table[i] /\ lo < i
    BY <1>5, <2>2
  <2>4. i <= lo
    BY <1>2, <1>4, <2>2, <2>3 DEF Walked
  <2>5. QED
    BY <1>2, <2>3, <2>4
<1>9. Walked(hi)'
  <2>1. \A i \in DOMAIN table :
            seen'[table[i]] = IF lo < i /\ i <= hi THEN seen[table[i]] + 1 ELSE seen[table[i]]
    BY <1>1, <1>2, <1>6
  <2>2. ASSUME NEW i \in DOMAIN table, "insert" \notin changes, seen'[table[i]] > 0
        PROVE  i <= hi
    BY <1>2, <1>3, <1>4, <2>1, <2>2 DEF Walked
  <2>3. ASSUME NEW i \in DOMAIN table, "delete" \notin changes,
               table[i] \in ToSet(Already), i <= hi
        PROVE  seen'[table[i]] > 0
    <3>1. seen[table[i]] \in Nat /\ i \in Nat
      BY <1>2
    <3>2. i <= lo => seen[table[i]] > 0
      BY <1>2, <1>4, <2>3 DEF Walked
    <3>3. QED
      BY <1>3, <2>1, <2>3, <3>1, <3>2
  <2>4. QED
    BY <1>1, <2>2, <2>3 DEF Walked
<1>10. QED
  BY <1>1, <1>4, <1>7, <1>8, <1>9 DEF PagingIInv, Walked

LEMMA ReadCountInv == ASSUME PagingIInv, ReadCount PROVE PagingIInv'
<1>1. /\ page # 0 /\ total' = Len(table) /\ read' = read \cup {"count"}
      /\ UNCHANGED <<limit, table, unused, page, seen, changes>>
  BY DEF ReadCount
<1>2. Len(table) \in Nat /\ ReadUpTo' = ReadUpTo
  BY <1>1, Marks DEF ReadUpTo
<1>3. PagingTypeOK'
  BY <1>1, <1>2 DEF PagingIInv, PagingTypeOK
<1>4. QED
  BY <1>1, <1>2, <1>3 DEF PagingIInv

\* A client that stops has been given every row in front of the last one.
LEMMA TurnInv == ASSUME PagingIInv, Turn PROVE PagingIInv'
<1>1. /\ read = {"items", "count"} /\ read' = {}
      /\ page' = IF HasNext(total) THEN page + 1 ELSE 0
      /\ UNCHANGED <<limit, table, unused, total, seen, changes>>
  BY DEF Turn
<1>2. page # 0
  BY <1>1 DEF PagingIInv
<1>3. /\ page \in Nat \ {0} /\ limit \in Nat \ {0} /\ total \in Nat
      /\ table \in Seq(Row) /\ Len(table) \in Nat /\ DOMAIN table = 1..Len(table)
      /\ seen \in [Row -> Nat] /\ \A i \in DOMAIN table : table[i] \in Row
      /\ ReadUpTo = page * limit /\ Walked(ReadUpTo)
  BY <1>1, <1>2, Marks DEF PagingIInv, PagingTypeOK
<1>4. PagingTypeOK'
  <2>1. page' \in Nat
    BY <1>1, <1>3
  <2>2. QED
    BY <1>1, <2>1 DEF PagingIInv, PagingTypeOK
<1>5. CASE HasNext(total)
  <2>1. page' = page + 1 /\ page' # 0
    BY <1>1, <1>3, <1>5
  <2>2. ReadUpTo' = (page' - 1) * limit
    BY <1>1 DEF ReadUpTo
  <2>3. ReadUpTo' = ReadUpTo
    BY <1>3, <2>1, <2>2
  <2>4. QED
    BY <1>1, <1>2, <1>4, <2>1, <2>3 DEF PagingIInv
<1>6. CASE ~HasNext(total)
  <2>1. page' = 0
    BY <1>1, <1>6
  <2>2. ~(page * limit < total)
    BY <1>3, <1>6, NextPage DEF HasNext, TotalPages
  <2>3. page * limit \in Nat
    BY <1>2, Marks
  <2>4. NoneMissed
    <3> SUFFICES ASSUME NEW r \in ToSet(Already), r \in ToSet(table), seen[r] = 0,
                        "delete" \notin changes, ~({"insert", "torn"} \subseteq changes)
                 PROVE  FALSE
      BY DEF NoneMissed
    <3>1. total = Len(table)
      BY <1>1, <1>2 DEF PagingIInv
    <3>2. PICK i \in DOMAIN table : r = table[i]
      BY DEF ToSet
    <3>3. i <= page * limit
      BY <1>3, <2>2, <2>3, <3>1, <3>2
    <3>4. seen[r] > 0
      BY <1>3, <3>2, <3>3 DEF Walked
    <3>5. QED
      BY <3>4
  <2>5. NoneMissed'
    BY <1>1, <2>4 DEF NoneMissed
  <2>6. QED
    BY <1>1, <1>4, <2>1, <2>5 DEF PagingIInv
<1>7. QED
  BY <1>5, <1>6

LEMMA InsertRowInv == ASSUME PagingIInv, NEW r \in Row, InsertRow(r) PROVE PagingIInv'
<1>1. /\ r \in unused /\ table' = <<r>> \o table /\ unused' = unused \ {r} /\ page # 0
      /\ changes' = changes \cup {"insert"} \cup (IF read = {} THEN {} ELSE {"torn"})
      /\ UNCHANGED <<limit, page, read, total, seen>>
  BY DEF InsertRow, Changed
<1>2. /\ table \in Seq(Row) /\ Len(table) \in Nat /\ DOMAIN table = 1..Len(table)
      /\ Walked(ReadUpTo) /\ ReadUpTo \in Nat
  BY <1>1, Marks
<1>3. /\ table' \in Seq(Row) /\ Len(table') = Len(table) + 1 /\ table'[1] = r
      /\ \A i \in 1..Len(table) : table'[i + 1] = table[i]
      /\ DOMAIN table' = 1..(Len(table) + 1)
  BY <1>1, <1>2, InsertedFirst
<1>4. \A i \in DOMAIN table' :
        \/ i = 1 /\ table'[i] = r
        \/ i - 1 \in DOMAIN table /\ table'[i] = table[i - 1]
  <2> SUFFICES ASSUME NEW i \in DOMAIN table', i # 1
               PROVE  i - 1 \in DOMAIN table /\ table'[i] = table[i - 1]
    BY <1>3
  <2>1. i - 1 \in 1..Len(table) /\ (i - 1) + 1 = i
    BY <1>2, <1>3
  <2>2. QED
    BY <1>2, <1>3, <2>1
<1>5. r \notin ToSet(table) /\ r \notin ToSet(Already)
  BY <1>1 DEF PagingIInv
<1>6. PagingTypeOK'
  BY <1>1, <1>3 DEF PagingIInv, PagingTypeOK
<1>7. IsInjective(table')
  <2> SUFFICES ASSUME NEW i \in DOMAIN table', NEW j \in DOMAIN table', table'[i] = table'[j]
               PROVE  i = j
    BY DEF IsInjective
  <2>1. \A k \in DOMAIN table : table[k] # r
    BY <1>5 DEF ToSet
  <2>2. i \in Nat /\ j \in Nat
    BY <1>3
  <2>3. CASE i - 1 \in DOMAIN table /\ j - 1 \in DOMAIN table
    <3>1. table'[i] = table[i - 1] /\ table'[j] = table[j - 1]
      BY <1>2, <1>4, <2>2, <2>3
    <3>2. i - 1 = j - 1
      BY <2>3, <3>1 DEF PagingIInv, IsInjective
    <3>3. QED
      BY <2>2, <3>2
  <2>4. QED
    BY <1>4, <2>1, <2>3
<1>8. unused' \cap ToSet(table') = {}
  <2>1. ToSet(table') \subseteq ToSet(table) \cup {r}
    BY <1>4 DEF ToSet
  <2>2. QED
    BY <1>1, <2>1 DEF PagingIInv
<1>9. ReadUpTo' = ReadUpTo
  BY <1>1 DEF ReadUpTo
<1>10. ASSUME "delete" \notin changes', NEW i \in DOMAIN table',
              table'[i] \in ToSet(Already), i <= ReadUpTo
       PROVE  seen[table'[i]] > 0
  <2>1. i - 1 \in DOMAIN table /\ table'[i] = table[i - 1]
    BY <1>4, <1>5, <1>10
  <2>2. i - 1 <= ReadUpTo
    BY <1>2, <1>3, <1>10
  <2>3. QED
    BY <1>1, <1>2, <1>10, <2>1, <2>2 DEF Walked
<1>11. \/ "delete" \in changes' \/ {"insert", "torn"} \subseteq changes'
       \/ "count" \in read' => total' = Len(table')
  BY <1>1
<1>12. QED
  BY <1>1, <1>6, <1>7, <1>8, <1>9, <1>10, <1>11 DEF PagingIInv

LEMMA DeleteRowInv ==
    ASSUME PagingIInv, NEW k \in DOMAIN table, DeleteRow(k)
    PROVE  PagingIInv'
<1>1. /\ table' = RemoveAt(table, k) /\ unused' = unused /\ page # 0
      /\ changes' = changes \cup {"delete"} \cup (IF read = {} THEN {} ELSE {"torn"})
      /\ UNCHANGED <<limit, page, read, total, seen>>
  BY DEF DeleteRow, Changed
<1>2. /\ table \in Seq(Row) /\ Len(table) \in Nat /\ DOMAIN table = 1..Len(table)
      /\ Walked(ReadUpTo) /\ ReadUpTo \in Nat
  BY <1>1, Marks
<1>3. /\ table' \in Seq(Row) /\ DOMAIN table' = 1..(Len(table) - 1)
      /\ \A i \in 1..(Len(table) - 1) : table'[i] = IF i < k THEN table[i] ELSE table[i + 1]
  <2>1. /\ table' \in Seq(Row) /\ Len(table') = Len(table) - 1
        /\ \A i \in 1..(Len(table) - 1) :
                table'[i] = IF i < k THEN table[i] ELSE table[i + 1]
    BY <1>1, <1>2, RemovedAt
  <2>2. QED
    BY <2>1
<1> DEFINE from(i) == IF i < k THEN i ELSE i + 1
<1>4. \A i \in DOMAIN table' :
        from(i) \in DOMAIN table /\ table'[i] = table[from(i)] /\ i <= from(i)
  BY <1>2, <1>3
<1>5. \A i, j \in DOMAIN table' : from(i) = from(j) => i = j
  BY <1>2, <1>3
<1> HIDE DEF from
<1>6. PagingTypeOK'
  BY <1>1, <1>3 DEF PagingIInv, PagingTypeOK
<1>7. IsInjective(table')
  BY <1>4, <1>5 DEF PagingIInv, IsInjective
<1>8. unused' \cap ToSet(table') = {}
  <2>1. ToSet(table') \subseteq ToSet(table)
    BY <1>4 DEF ToSet
  <2>2. QED
    BY <1>1, <2>1 DEF PagingIInv
<1>9. ReadUpTo' = ReadUpTo
  BY <1>1 DEF ReadUpTo
<1>10. ASSUME "insert" \notin changes', NEW i \in DOMAIN table', seen[table'[i]] > 0
       PROVE  i <= ReadUpTo
  <2>1. from(i) <= ReadUpTo
    BY <1>1, <1>2, <1>4, <1>10 DEF Walked
  <2>2. i \in Nat /\ from(i) \in Nat
    BY <1>2, <1>3, <1>4
  <2>3. QED
    BY <1>2, <1>4, <2>1, <2>2
<1>11. QED
  BY <1>1, <1>6, <1>7, <1>8, <1>9, <1>10 DEF PagingIInv

LEMMA PagingInitInv == ASSUME PagingInit PROVE PagingIInv
<1>1. PICK asked \in Asked : limit = Normalized(asked)
  BY DEF PagingInit
<1>2. limit \in 1..MaxLimit
  BY <1>1, PagingAssumption DEF Normalized
<1>3. PagingTypeOK
  BY <1>2, PagingAssumption DEF PagingInit, PagingTypeOK
<1>4. ReadUpTo = 0
  <2>1. ReadUpTo = (1 - 1) * limit
    BY DEF PagingInit, ReadUpTo
  <2>2. limit \in Nat
    BY <1>2
  <2>3. QED
    BY <2>1, <2>2
<1>5. \A i \in DOMAIN table : seen[table[i]] = 0 /\ ~(i <= 0)
  <2>1. DOMAIN table = 1..Len(table) /\ \A i \in DOMAIN table : table[i] \in Row
    BY PagingAssumption DEF PagingInit
  <2>2. QED
    BY <2>1 DEF PagingInit
<1>6. QED
  BY <1>3, <1>4, <1>5, PagingAssumption DEF PagingInit, PagingIInv

LEMMA PagingWalkSound == ASSUME PagingIInv PROVE WalkSound
<1>1. ASSUME page # 0, NEW n \in 0..total PROVE HasNext(n) <=> HasNextPage(n)
  <2>1. /\ page \in Nat \ {0} /\ limit \in Nat \ {0} /\ n \in Nat
        /\ (page - 1) * limit + limit = page * limit
    BY <1>1, Marks DEF PagingIInv, PagingTypeOK
  <2>2. page < TotalPages(n) <=> page * limit < n
    BY <2>1, NextPage DEF TotalPages
  <2>3. QED
    BY <2>1, <2>2 DEF HasNext, HasNextPage
<1>2. QED
  BY <1>1 DEF PagingIInv, WalkSound

(* A walk over the pages of findPaginated misses a row, or meets one       *)
(* twice, for the causes WalkSound names only, and the two classes of page *)
(* agree on what comes next: for any rows, limits, inserts and deletions.  *)
THEOREM PagingSound == PagingSpec => []WalkSound
<1>1. PagingInit => PagingIInv
  BY PagingInitInv
<1>2. PagingIInv /\ [PagingNext]_pagingVars => PagingIInv'
  <2> SUFFICES ASSUME PagingIInv, [PagingNext]_pagingVars PROVE PagingIInv'
    OBVIOUS
  <2>1. CASE UNCHANGED pagingVars
    BY <2>1 DEF pagingVars, PagingIInv, PagingTypeOK, NoneMissed, ReadUpTo
  <2>2. QED
    BY <2>1, ReadItemsInv, ReadCountInv, TurnInv, InsertRowInv, DeleteRowInv DEF PagingNext
<1>3. PagingIInv => WalkSound
  BY PagingWalkSound
<1>4. QED
  BY <1>1, <1>2, <1>3, PTL DEF PagingSpec
=============================================================================
