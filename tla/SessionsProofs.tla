--------------------------- MODULE SessionsProofs ---------------------------
(***************************************************************************)
(* What holds of sessions and tokens for any number of users, sessions and *)
(* requests.  One lemma per action shows that it preserves the inductive   *)
(* invariant of Sessions, conjunct by conjunct.                            *)
(***************************************************************************)
EXTENDS Sessions, FiniteSetTheorems, TLAPS

(* A login begins; its request holds no token.                             *)
LEMMA LoginInv == ASSUME IInv, NEW p \in Request, NEW u \in User, Login(p, u) PROVE IInv'
<1>. USE SessionAssumption DEF IInv
<1>1. TypeOK'
  BY DEF TypeOK, Born, Login, Begin
<1>2. RefersToBorn'
  BY DEF RefersToBorn, Born, Login, Begin
<1>3. RotationRevokes'
  BY DEF RotationRevokes, TypeOK, Live, Login, Begin
<1>4. OneTrade'
  BY DEF OneTrade, Holder, TypeOK, Login, Begin
<1>5. RevocationHolds'
  BY DEF RevocationHolds, SessionsOf, UnderWay, TypeOK, Live, Login, Begin
<1>6. BarredInactive'
  BY DEF BarredInactive, TypeOK, Login, Begin
<1>7. InactiveBarred'
  BY DEF InactiveBarred, TypeOK, Login, Begin
<1>. QED BY <1>1, <1>2, <1>3, <1>4, <1>5, <1>6, <1>7

(* A refresh begins: only a live session gives it the right to trade.      *)
LEMMA RefreshInv ==
    ASSUME IInv, NEW p \in Request, NEW s \in Session, Refresh(p, s) PROVE IInv'
<1>. USE SessionAssumption DEF IInv
<1>1. TypeOK'
  BY DEF TypeOK, Born, Refresh, Begin
<1>2. RefersToBorn'
  BY DEF RefersToBorn, TypeOK, Born, Refresh, Begin
<1>3. RotationRevokes'
  BY DEF RotationRevokes, Live, Refresh, Begin
<1>4. OneTrade'
  BY DEF OneTrade, Holder, RotationRevokes, TypeOK, Refresh, Begin, Matches
<1>5. RevocationHolds'
  BY DEF RevocationHolds, SessionsOf, UnderWay, TypeOK, Live, Refresh, Begin, Matches
<1>6. BarredInactive'
  BY DEF BarredInactive, TypeOK, Refresh, Begin
<1>7. InactiveBarred'
  BY DEF InactiveBarred, Refresh, Begin
<1>. QED BY <1>1, <1>2, <1>3, <1>4, <1>5, <1>6, <1>7

(* A logout begins; it reads a session and takes no right to anything.     *)
LEMMA LogoutInv ==
    ASSUME IInv, NEW p \in Request, NEW s \in Session, Logout(p, s) PROVE IInv'
<1>. USE SessionAssumption DEF IInv
<1>1. TypeOK'
  BY DEF TypeOK, Born, Logout, Begin
<1>2. RefersToBorn'
  BY DEF RefersToBorn, TypeOK, Born, Logout, Begin
<1>3. RotationRevokes'
  BY DEF RotationRevokes, Live, Logout, Begin
<1>4. OneTrade'
  BY DEF OneTrade, Holder, Logout, Begin
<1>5. RevocationHolds'
  BY DEF RevocationHolds, SessionsOf, UnderWay, Live, Logout, Begin
<1>6. BarredInactive'
  BY DEF BarredInactive, TypeOK, Logout, Begin
<1>7. InactiveBarred'
  BY DEF InactiveBarred, Logout, Begin
<1>. QED BY <1>1, <1>2, <1>3, <1>4, <1>5, <1>6, <1>7

(* A validation begins only for a user with a live session.                *)
LEMMA ValidateInv ==
    ASSUME IInv, NEW p \in Request, NEW s \in Session, Validate(p, s) PROVE IInv'
<1>. USE SessionAssumption DEF IInv
<1>1. TypeOK'
  BY DEF TypeOK, Born, Validate, Begin
<1>2. RefersToBorn'
  BY DEF RefersToBorn, TypeOK, Born, Validate, Begin
<1>3. RotationRevokes'
  BY DEF RotationRevokes, Live, Validate, Begin
<1>4. OneTrade'
  BY DEF OneTrade, Holder, Validate, Begin
<1>5. RevocationHolds'
  BY DEF RevocationHolds, SessionsOf, UnderWay, TypeOK, Live, Validate, Begin
<1>6. BarredInactive'
  BY DEF BarredInactive, TypeOK, Validate, Begin
<1>7. InactiveBarred'
  BY DEF InactiveBarred, Validate, Begin
<1>. QED BY <1>1, <1>2, <1>3, <1>4, <1>5, <1>6, <1>7

(* A new session is born of a request that held the only right to it.      *)
LEMMA IssueInv == ASSUME IInv, NEW p \in Request, Issue(p) PROVE IInv'
<1>. USE SessionAssumption DEF IInv
<1>1. TypeOK'
  BY DEF TypeOK, Born, Issue, Return
<1>2. RefersToBorn'
  BY DEF RefersToBorn, Born, Issue, Return
<1>3. RotationRevokes'
  BY DEF RotationRevokes, RefersToBorn, Live, Issue, Return
<1>4. OneTrade'
  BY DEF OneTrade, Holder, TypeOK, Issue, Return
<1>5. RevocationHolds'
  BY DEF RevocationHolds, SessionsOf, UnderWay, TypeOK, Live, Issue, Return
<1>6. BarredInactive'
  BY DEF BarredInactive, Issue, Return
<1>7. InactiveBarred'
  BY DEF InactiveBarred, Issue, Return
<1>. QED BY <1>1, <1>2, <1>3, <1>4, <1>5, <1>6, <1>7

(* All sessions of the user of a request are revoked.                      *)
LEMMA RevokeAllInv == ASSUME IInv, NEW p \in Request, RevokeAll(p) PROVE IInv'
<1>. USE SessionAssumption DEF IInv
<1>1. TypeOK'
  BY DEF TypeOK, Born, SessionsOf, RevokeAll, RevokeSessions, Return
<1>2. RefersToBorn'
  BY DEF RefersToBorn, TypeOK, Born, RevokeAll, RevokeSessions, Return
<1>3. RotationRevokes'
  BY DEF RotationRevokes, TypeOK, Live, RevokeAll, RevokeSessions, Return
<1>4. OneTrade'
  BY DEF OneTrade, Holder, RevokeAll, Return
<1>5. RevocationHolds'
  BY DEF RevocationHolds, SessionsOf, UnderWay, Live, RevokeAll, RevokeSessions, Return
<1>6. BarredInactive'
  BY DEF BarredInactive, RevokeAll, Return
<1>7. InactiveBarred'
  BY DEF InactiveBarred, RevokeAll, Return
<1>. QED BY <1>1, <1>2, <1>3, <1>4, <1>5, <1>6, <1>7

(* The old session is revoked before its request goes on.                  *)
LEMMA RotateInv == ASSUME IInv, NEW p \in Request, Rotate(p) PROVE IInv'
<1>. USE SessionAssumption DEF IInv
<1>1. TypeOK'
  BY DEF TypeOK, Born, RefersToBorn, Rotate, Return, Goto
<1>2. RefersToBorn'
  BY DEF RefersToBorn, TypeOK, Born, Rotate, Return, Goto
<1>3. RotationRevokes'
  BY DEF RotationRevokes, TypeOK, Live, Rotate, Return, Goto
<1>4. OneTrade'
  BY DEF OneTrade, Holder, TypeOK, Rotate, Return, Goto
<1>5. RevocationHolds'
  BY DEF RevocationHolds, SessionsOf, UnderWay, TypeOK, Live, Rotate, Return, Goto
<1>6. BarredInactive'
  BY DEF BarredInactive, TypeOK, Rotate, Return, Goto
<1>7. InactiveBarred'
  BY DEF InactiveBarred, TypeOK, Rotate, Return, Goto
<1>. QED BY <1>1, <1>2, <1>3, <1>4, <1>5, <1>6, <1>7

(* Only requests of ACTIVE users go on to issue.                           *)
LEMMA LoadUserInv == ASSUME IInv, NEW p \in Request, LoadUser(p) PROVE IInv'
<1>. USE SessionAssumption DEF IInv
<1>1. TypeOK'
  BY DEF TypeOK, Born, LoadUser, Return, Goto
<1>2. RefersToBorn'
  BY DEF RefersToBorn, TypeOK, Born, LoadUser, Return, Goto
<1>3. RotationRevokes'
  BY DEF RotationRevokes, TypeOK, Live, LoadUser, Return, Goto
<1>4. OneTrade'
  BY DEF OneTrade, Holder, TypeOK, LoadUser, Return, Goto
<1>5. RevocationHolds'
  BY DEF RevocationHolds, SessionsOf, UnderWay, TypeOK, Live, LoadUser, Return, Goto
<1>6. BarredInactive'
  BY DEF BarredInactive, TypeOK, LoadUser, Return, Goto
<1>7. InactiveBarred'
  BY DEF InactiveBarred, BarredInactive, TypeOK, LoadUser, Return, Goto
<1>. QED BY <1>1, <1>2, <1>3, <1>4, <1>5, <1>6, <1>7

(* A logout revokes one session.                                           *)
LEMMA RevokeTokenInv == ASSUME IInv, NEW p \in Request, RevokeToken(p) PROVE IInv'
<1>. USE SessionAssumption DEF IInv
<1>1. TypeOK'
  BY DEF TypeOK, Born, RefersToBorn, RevokeToken, Return
<1>2. RefersToBorn'
  BY DEF RefersToBorn, TypeOK, Born, RevokeToken, Return
<1>3. RotationRevokes'
  BY DEF RotationRevokes, Live, RevokeToken, Return
<1>4. OneTrade'
  BY DEF OneTrade, Holder, RevokeToken, Return
<1>5. RevocationHolds'
  BY DEF RevocationHolds, SessionsOf, UnderWay, Live, RevokeToken, Return
<1>6. BarredInactive'
  BY DEF BarredInactive, RevokeToken, Return
<1>7. InactiveBarred'
  BY DEF InactiveBarred, RevokeToken, Return
<1>. QED BY <1>1, <1>2, <1>3, <1>4, <1>5, <1>6, <1>7

(* Only requests of ACTIVE users are accepted.                             *)
LEMMA CheckUserInv == ASSUME IInv, NEW p \in Request, CheckUser(p) PROVE IInv'
<1>. USE SessionAssumption DEF IInv
<1>1. TypeOK'
  BY DEF TypeOK, Born, CheckUser, Return, Goto
<1>2. RefersToBorn'
  BY DEF RefersToBorn, TypeOK, Born, CheckUser, Return, Goto
<1>3. RotationRevokes'
  BY DEF RotationRevokes, TypeOK, Live, CheckUser, Return, Goto
<1>4. OneTrade'
  BY DEF OneTrade, Holder, TypeOK, CheckUser, Return, Goto
<1>5. RevocationHolds'
  BY DEF RevocationHolds, SessionsOf, UnderWay, TypeOK, Live, CheckUser, Return, Goto
<1>6. BarredInactive'
  BY DEF BarredInactive, TypeOK, CheckUser, Return, Goto
<1>7. InactiveBarred'
  BY DEF InactiveBarred, BarredInactive, TypeOK, CheckUser, Return, Goto
<1>. QED BY <1>1, <1>2, <1>3, <1>4, <1>5, <1>6, <1>7

(* A request returns.                                                      *)
LEMMA AnswerInv == ASSUME IInv, NEW p \in Request, Answer(p) PROVE IInv'
<1>. USE SessionAssumption DEF IInv
<1>1. TypeOK'
  BY DEF TypeOK, Born, Answer, Return
<1>2. RefersToBorn'
  BY DEF RefersToBorn, Born, Answer, Return
<1>3. RotationRevokes'
  BY DEF RotationRevokes, Live, Answer, Return
<1>4. OneTrade'
  BY DEF OneTrade, Holder, Answer, Return
<1>5. RevocationHolds'
  BY DEF RevocationHolds, SessionsOf, UnderWay, TypeOK, Live, Answer, Return
<1>6. BarredInactive'
  BY DEF BarredInactive, Answer, Return
<1>7. InactiveBarred'
  BY DEF InactiveBarred, Answer, Return
<1>. QED BY <1>1, <1>2, <1>3, <1>4, <1>5, <1>6, <1>7

(* A request is lost at any statement.                                     *)
LEMMA CrashInv == ASSUME IInv, NEW p \in Request, Crash(p) PROVE IInv'
<1>. USE SessionAssumption DEF IInv
<1>1. TypeOK'
  BY DEF TypeOK, Born, Crash, Return
<1>2. RefersToBorn'
  BY DEF RefersToBorn, TypeOK, Born, Crash, Return
<1>3. RotationRevokes'
  BY DEF RotationRevokes, Live, Crash, Return
<1>4. OneTrade'
  BY DEF OneTrade, Holder, Crash, Return
<1>5. RevocationHolds'
  BY DEF RevocationHolds, SessionsOf, UnderWay, TypeOK, Live, Crash, Return
<1>6. BarredInactive'
  BY DEF BarredInactive, Crash, Return
<1>7. InactiveBarred'
  BY DEF InactiveBarred, Crash, Return
<1>. QED BY <1>1, <1>2, <1>3, <1>4, <1>5, <1>6, <1>7

(* All sessions of a user are revoked from outside.                        *)
LEMMA RevokeAllTokensInv == ASSUME IInv, NEW u \in User, RevokeAllTokens(u) PROVE IInv'
<1>. USE SessionAssumption DEF IInv
<1>1. TypeOK'
  BY DEF TypeOK, Born, SessionsOf, RevokeAllTokens, RevokeSessions, request
<1>2. RefersToBorn'
  BY DEF RefersToBorn, TypeOK, Born, RevokeAllTokens, RevokeSessions, request
<1>3. RotationRevokes'
  BY DEF RotationRevokes, TypeOK, Live, RevokeAllTokens, RevokeSessions, request
<1>4. OneTrade'
  BY DEF OneTrade, Holder, RevokeAllTokens, request
<1>5. RevocationHolds'
  BY DEF RevocationHolds, SessionsOf, UnderWay, Live, RevokeAllTokens, RevokeSessions, request
<1>6. BarredInactive'
  BY DEF BarredInactive, RevokeAllTokens, request
<1>7. InactiveBarred'
  BY DEF InactiveBarred, RevokeAllTokens, request
<1>. QED BY <1>1, <1>2, <1>3, <1>4, <1>5, <1>6, <1>7

(* Only revoked sessions are deleted.                                      *)
LEMMA CleanupExpiredSessionsInv == ASSUME IInv, CleanupExpiredSessions PROVE IInv'
<1>. USE SessionAssumption DEF IInv
<1>1. TypeOK'
  BY DEF TypeOK, Born, CleanupExpiredSessions, request
<1>2. RefersToBorn'
  BY DEF RefersToBorn, TypeOK, Born, CleanupExpiredSessions, request
<1>3. RotationRevokes'
  BY DEF RotationRevokes, TypeOK, Live, CleanupExpiredSessions, request
<1>4. OneTrade'
  BY DEF OneTrade, Holder, CleanupExpiredSessions, request
<1>5. RevocationHolds'
  BY DEF RevocationHolds, SessionsOf, UnderWay, Live, CleanupExpiredSessions, request
<1>6. BarredInactive'
  BY DEF BarredInactive, CleanupExpiredSessions, request
<1>7. InactiveBarred'
  BY DEF InactiveBarred, CleanupExpiredSessions, request
<1>. QED BY <1>1, <1>2, <1>3, <1>4, <1>5, <1>6, <1>7

(* A session expires.                                                      *)
LEMMA ExpireInv == ASSUME IInv, NEW s \in Session, Expire(s) PROVE IInv'
<1>. USE SessionAssumption DEF IInv
<1>1. TypeOK'
  BY DEF TypeOK, Born, Expire, request
<1>2. RefersToBorn'
  BY DEF RefersToBorn, Born, Expire, request
<1>3. RotationRevokes'
  BY DEF RotationRevokes, Live, Expire, request
<1>4. OneTrade'
  BY DEF OneTrade, Holder, Expire, request
<1>5. RevocationHolds'
  BY DEF RevocationHolds, SessionsOf, UnderWay, Live, Expire, request
<1>6. BarredInactive'
  BY DEF BarredInactive, Expire, request
<1>7. InactiveBarred'
  BY DEF InactiveBarred, Expire, request
<1>. QED BY <1>1, <1>2, <1>3, <1>4, <1>5, <1>6, <1>7

(* A user becomes ACTIVE or ceases to be.                                  *)
LEMMA SetStatusInv == ASSUME IInv, NEW u \in User, SetStatus(u) PROVE IInv'
<1>. USE SessionAssumption DEF IInv
<1>1. TypeOK'
  BY DEF TypeOK, Born, SetStatus, request
<1>2. RefersToBorn'
  BY DEF RefersToBorn, Born, SetStatus, request
<1>3. RotationRevokes'
  BY DEF RotationRevokes, Live, SetStatus, request
<1>4. OneTrade'
  BY DEF OneTrade, Holder, SetStatus, request
<1>5. RevocationHolds'
  BY DEF RevocationHolds, SessionsOf, UnderWay, Live, SetStatus, request
<1>6. BarredInactive'
  BY DEF BarredInactive, SetStatus, request
<1>7. InactiveBarred'
  BY DEF InactiveBarred, SetStatus, request
<1>. QED BY <1>1, <1>2, <1>3, <1>4, <1>5, <1>6, <1>7

(* Every step, and none, preserves the invariant.                          *)
LEMMA NextInv == ASSUME IInv, [Next]_vars PROVE IInv'
<1>1. ASSUME NEW p \in Request, Step(p) PROVE IInv'
  BY <1>1, IssueInv, RevokeAllInv, RotateInv, LoadUserInv, RevokeTokenInv, CheckUserInv, AnswerInv,
     CrashInv DEF Step
<1>2. ASSUME NEW p \in Request, NEW u \in User, Login(p, u) PROVE IInv'
  BY <1>2, LoginInv
<1>3. ASSUME NEW p \in Request, NEW s \in Session, Refresh(p, s) \/ Logout(p, s) \/ Validate(p, s)
      PROVE IInv'
  BY <1>3, RefreshInv, LogoutInv, ValidateInv
<1>4. ASSUME NEW u \in User, RevokeAllTokens(u) \/ SetStatus(u) PROVE IInv'
  BY <1>4, RevokeAllTokensInv, SetStatusInv
<1>5. ASSUME NEW s \in Session, Expire(s) PROVE IInv'
  BY <1>5, ExpireInv
<1>6. CASE CleanupExpiredSessions
  BY <1>6, CleanupExpiredSessionsInv
<1>7. CASE UNCHANGED vars
  BY <1>7 DEF IInv, TypeOK, Born, RefersToBorn, RotationRevokes, OneTrade, Holder, RevocationHolds,
     SessionsOf, UnderWay, Live, BarredInactive, InactiveBarred, vars, request
<1>. QED BY <1>1, <1>2, <1>3, <1>4, <1>5, <1>6, <1>7 DEF Next

(* At the start nobody has a session.                                      *)
LEMMA InitInv == ASSUME Init PROVE IInv
  BY SessionAssumption
  DEF Init, IInv, TypeOK, Born, RefersToBorn, RotationRevokes, OneTrade, Holder,
     RevocationHolds, SessionsOf, UnderWay, Live, BarredInactive, InactiveBarred

(* The inductive invariant holds: rights to trade a session in are held    *)
(* once, and barred requests are those of users who are not ACTIVE.        *)
THEOREM Invariance == Spec => []IInv
<1>1. Init => IInv
  BY InitInv
<1>2. IInv /\ [Next]_vars => IInv'
  BY NextInv
<1>. QED BY <1>1, <1>2, PTL DEF Spec

(* Rows of the sessions table and requests keep their types.               *)
THEOREM TypeCorrect == Spec => []TypeOK
<1>1. IInv => TypeOK
  BY DEF IInv
<1>. QED BY <1>1, Invariance, PTL

(* refreshTokens never leaves the old session live beside the new one.     *)
THEOREM OldSessionRevoked == Spec => []RotationRevokes
<1>1. IInv => RotationRevokes
  BY DEF IInv
<1>. QED BY <1>1, Invariance, PTL

(* revokeAllTokens with nothing under way holds until the next login.      *)
THEOREM RevocationStands == Spec => []RevocationHolds
<1>1. IInv => RevocationHolds
  BY DEF IInv
<1>. QED BY <1>1, Invariance, PTL

(* validate and refreshTokens turn users away who are not ACTIVE.          *)
THEOREM InactiveStayOut == Spec => []InactiveBarred
<1>1. IInv => InactiveBarred
  BY DEF IInv
<1>. QED BY <1>1, Invariance, PTL

(* A refresh token is traded in a second time only by a refresh that       *)
(* overlapped the first between the search and the revocation.             *)
THEOREM SecondUse == Spec => []SecondUseOverlaps
<1>1. IInv => SecondUseOverlaps
  <2>. SUFFICES ASSUME IInv, NEW s \in Session \ raced PROVE Cardinality(Children(s)) <= 1
    BY DEF SecondUseOverlaps
  <2>1. CASE Children(s) = {}
    BY <2>1, FS_EmptySet
  <2>2. CASE Children(s) # {}
    <3>1. PICK c \in Session : parent[c] = s
      BY <2>2 DEF Children
    <3>2. Children(s) = {c}
      BY <3>1 DEF Children, IInv, OneTrade
    <3>3. Cardinality({c}) = 1
      BY FS_Singleton
    <3>. QED BY <3>2, <3>3
  <2>. QED BY <2>1, <2>2
<1>. QED BY <1>1, Invariance, PTL
-----------------------------------------------------------------------------
(* Sessions implements Rotation.                                           *)

\* What the abstract state of a session says of its row.
LEMMA TokenStates ==
    ASSUME NEW s \in Session
    PROVE  /\ TokenState[s] = "unissued" <=> row[s] = "unborn"
           /\ TokenState[s] = "live" <=> Live(s)
           /\ TokenState[s] = "spent" <=> Born(s) /\ ~ Live(s)
BY DEF TokenState, Live, Born

LEMMA RefineInit == ASSUME Init PROVE Abstract!Init
BY DEF Init, Abstract!Init, TokenState, Claimed

\* A step that leaves rows, rights and history alone.
LEMMA RefineStutter ==
    ASSUME UNCHANGED <<row, parent, raced>>,
           \A p \in Request : Claimed'[p] = Claimed[p]
    PROVE  UNCHANGED Abstract!rvars
<1>1. TokenState' = TokenState
  BY DEF TokenState
<1>2. Claimed' = Claimed
  BY DEF Claimed
<1>. QED BY <1>1, <1>2 DEF Abstract!rvars

\* A request that ends, whatever it held.
LEMMA RefineForfeit ==
    ASSUME IInv, NEW p \in Request, Return(p), UNCHANGED <<row, parent, raced>>
    PROVE  Abstract!Next
<1>1. TokenState' = TokenState
  BY DEF TokenState
<1>2. Claimed' = [Claimed EXCEPT ![p] = None]
  BY DEF Claimed, Return, IInv, TypeOK
<1>3. Abstract!Forfeit(p)
  BY <1>1, <1>2 DEF Abstract!Forfeit
<1>. QED BY <1>3 DEF Abstract!Next

\* Live sessions are revoked, revoked ones deleted; no right changes hands.
LEMMA RefineSpend ==
    ASSUME UNCHANGED <<parent, raced>>,
           \A s \in Session : \/ row'[s] = row[s]
                              \/ row[s] \in {"live", "revoked", "deleted"}
                                 /\ row'[s] \in {"revoked", "deleted"},
           \A p \in Request : Claimed'[p] = Claimed[p]
    PROVE  Abstract!Next
<1> DEFINE S == {s \in Session : Live(s) /\ row'[s] # "live"}
<1>1. TokenState' = [s \in Session |-> IF s \in S THEN "spent" ELSE TokenState[s]]
  <2>1. ASSUME NEW s \in Session
        PROVE  TokenState'[s] = IF s \in S THEN "spent" ELSE TokenState[s]
    BY DEF TokenState, Live
  <2>. QED BY <2>1 DEF TokenState
<1>2. S \in SUBSET {s \in Session : TokenState[s] = "live"}
  BY TokenStates
<1>3. Claimed' = Claimed
  BY DEF Claimed
<1>. HIDE DEF S
<1>4. Abstract!Spend
  BY <1>1, <1>2, <1>3 DEF Abstract!Spend
<1>. QED BY <1>4 DEF Abstract!Next

\* The session is issued that a login or a refresh asked for; a refresh holds
\* the right to it, which nobody has used unless two requests shared it.
LEMMA RefineIssue == ASSUME IInv, NEW p \in Request, Issue(p) PROVE Abstract!Next
<1>1. PICK s \in Session :
         /\ ~ Born(s)
         /\ row' = [row EXCEPT ![s] = "live"]
         /\ parent' = [parent EXCEPT ![s] = tok[p]]
  BY DEF Issue
<1>2. TokenState[s] = "unissued" /\ TokenState' = [TokenState EXCEPT ![s] = "live"]
  <2>1. ASSUME NEW r \in Session
        PROVE  TokenState'[r] = IF r = s THEN "live" ELSE TokenState[r]
    BY <1>1 DEF TokenState, IInv, TypeOK
  <2>. QED BY <1>1, <2>1 DEF TokenState, Born
<1>3. pc[p] = "issue" /\ Claimed[p] = tok[p] /\ raced' = raced
  BY DEF Issue, Claimed
<1>4. Claimed' = [Claimed EXCEPT ![p] = None]
  BY DEF Claimed, Issue, Return, IInv, TypeOK
<1>5. CASE tok[p] = None
  <2>1. Claimed' = Claimed
    BY <1>3, <1>4, <1>5 DEF Claimed
  <2>2. Abstract!Login(s)
    BY <1>1, <1>2, <1>3, <1>5, <2>1 DEF Abstract!Login, Abstract!Issued
  <2>. QED BY <2>2 DEF Abstract!Next
<1>6. CASE tok[p] # None
  <2>1. tok[p] \in Session /\ TokenState[tok[p]] = "spent"
    BY <1>3, <1>6, TokenStates DEF IInv, TypeOK, RefersToBorn, RotationRevokes
  <2>2. tok[p] \in raced \/ \A c \in Session : parent[c] # tok[p]
    BY <1>3, <1>6, <2>1 DEF IInv, OneTrade, Holder
  <2>3. Abstract!Trade(p, s)
    BY <1>1, <1>2, <1>3, <1>4, <1>6, <2>1, <2>2 DEF Abstract!Trade, Abstract!Issued
  <2>. QED BY <2>3 DEF Abstract!Next
<1>. QED BY <1>5, <1>6

\* A refresh that matched a session: those who hold a right to a live session
\* have not revoked it yet, so a rival is one that is at the same place.
LEMMA RefineMatch ==
    ASSUME IInv, NEW p \in Request, NEW s \in Session, Refresh(p, s), Matches(s)
    PROVE  Abstract!Next
<1>1. TokenState' = TokenState /\ TokenState[s] = "live"
  BY DEF TokenState, Refresh, Matches, Live
<1>2. Claimed[p] = None /\ Claimed' = [Claimed EXCEPT ![p] = s]
  BY DEF Claimed, Refresh, Begin, IInv, TypeOK
<1>3. (\E q \in Request : Claimed[q] = s) <=>
          \E q \in Request \ {p} : pc[q] = "rotate" /\ tok[q] = s
  BY SessionAssumption DEF Claimed, Refresh, Begin, Matches, IInv, RotationRevokes
<1>4. raced' = IF \E q \in Request : Claimed[q] = s THEN raced \cup {s} ELSE raced
  BY <1>3 DEF Refresh
<1>5. Abstract!Claim(p, s)
  BY <1>1, <1>2, <1>4 DEF Abstract!Claim, Refresh
<1>. QED BY <1>5 DEF Abstract!Next

\* A request that begins without a right, and one that goes on with its own.
LEMMA RefineBegin ==
    ASSUME IInv, NEW p \in Request, NEW u, NEW s,
           NEW at \in {"issue", "revokeAll", "logout", "check"},
           at = "issue" => s = None,
           Begin(p, u, s, at), UNCHANGED <<row, parent, raced>>
    PROVE  UNCHANGED Abstract!rvars
<1>1. ASSUME NEW q \in Request PROVE Claimed'[q] = Claimed[q]
  BY DEF Claimed, Begin, IInv, TypeOK
<1>. QED BY <1>1, RefineStutter

LEMMA RefineGoto ==
    ASSUME IInv, NEW p \in Request, NEW at, Goto(p, at),
           \/ pc[p] \in {"rotate", "load"} /\ at \in {"load", "issue"}
           \/ pc[p] = "check" /\ at = "accepted"
    PROVE  \A q \in Request : Claimed'[q] = Claimed[q]
BY DEF Claimed, Goto, IInv, TypeOK

\* The steps a request takes of its own.
LEMMA RefineStep ==
    ASSUME IInv, NEW p \in Request, Step(p) PROVE [Abstract!Next]_(Abstract!rvars)
<1>1. CASE Issue(p)
  BY <1>1, RefineIssue
<1>2. CASE RevokeAll(p)
  <2>1. ASSUME NEW q \in Request PROVE Claimed'[q] = Claimed[q]
    BY <1>2 DEF Claimed, RevokeAll, Return, IInv, TypeOK
  <2>2. ASSUME NEW s \in Session
        PROVE  row'[s] = row[s] \/ (row[s] = "live" /\ row'[s] = "revoked")
    BY <1>2 DEF RevokeAll, RevokeSessions, SessionsOf, Live
  <2>. QED BY <1>2, <2>1, <2>2, RefineSpend DEF RevokeAll
<1>3. CASE Rotate(p)
  <2>1. CASE row[tok[p]] = "deleted"
    BY <1>3, <2>1, RefineForfeit DEF Rotate
  <2>2. CASE row[tok[p]] # "deleted"
    <3>1. Goto(p, "load") /\ row' = [row EXCEPT ![tok[p]] = "revoked"]
      BY <1>3, <2>2 DEF Rotate
    <3>2. row[tok[p]] \in {"live", "revoked"}
      BY <1>3, <2>2 DEF Rotate, IInv, TypeOK, RefersToBorn, Born
    <3>3. ASSUME NEW s \in Session
          PROVE  \/ row'[s] = row[s]
                 \/ row[s] \in {"live", "revoked"} /\ row'[s] = "revoked"
      BY <3>1, <3>2 DEF IInv, TypeOK
    <3>4. \A q \in Request : Claimed'[q] = Claimed[q]
      BY <1>3, <3>1, RefineGoto DEF Rotate
    <3>. QED BY <1>3, <3>3, <3>4, RefineSpend DEF Rotate
  <2>. QED BY <2>1, <2>2
<1>4. CASE LoadUser(p)
  <2>1. CASE user[p] \in active
    <3>1. \A q \in Request : Claimed'[q] = Claimed[q]
      BY <1>4, <2>1, RefineGoto DEF LoadUser
    <3>. QED BY <1>4, <3>1, RefineStutter DEF LoadUser
  <2>2. CASE user[p] \notin active
    BY <1>4, <2>2, RefineForfeit DEF LoadUser
  <2>. QED BY <2>1, <2>2
<1>5. CASE RevokeToken(p)
  <2>1. ASSUME NEW q \in Request PROVE Claimed'[q] = Claimed[q]
    BY <1>5 DEF Claimed, RevokeToken, Return, IInv, TypeOK
  <2>2. row[tok[p]] # "deleted" => row[tok[p]] \in {"live", "revoked"}
    BY <1>5 DEF RevokeToken, IInv, TypeOK, RefersToBorn, Born
  <2>3. ASSUME NEW s \in Session
        PROVE  \/ row'[s] = row[s]
               \/ row[s] \in {"live", "revoked"} /\ row'[s] = "revoked"
    BY <1>5, <2>2 DEF RevokeToken, IInv, TypeOK
  <2>. QED BY <1>5, <2>1, <2>3, RefineSpend DEF RevokeToken
<1>6. CASE CheckUser(p)
  <2>1. CASE user[p] \in active
    <3>1. \A q \in Request : Claimed'[q] = Claimed[q]
      BY <1>6, <2>1, RefineGoto DEF CheckUser
    <3>. QED BY <1>6, <3>1, RefineStutter DEF CheckUser
  <2>2. CASE user[p] \notin active
    BY <1>6, <2>2, RefineForfeit DEF CheckUser
  <2>. QED BY <2>1, <2>2
<1>7. CASE Answer(p) \/ Crash(p)
  BY <1>7, RefineForfeit DEF Answer, Crash
<1>. QED BY <1>1, <1>2, <1>3, <1>4, <1>5, <1>6, <1>7 DEF Step

LEMMA RefineNext == ASSUME IInv, [Next]_vars PROVE [Abstract!Next]_(Abstract!rvars)
<1>1. ASSUME NEW p \in Request, Step(p) PROVE [Abstract!Next]_(Abstract!rvars)
  BY <1>1, RefineStep
<1>2. ASSUME NEW p \in Request, NEW u \in User, Login(p, u) PROVE UNCHANGED Abstract!rvars
  <2>1. Begin(p, u, None, "issue") /\ UNCHANGED <<row, parent, raced>>
    BY <1>2 DEF Login
  <2>. QED BY <2>1, RefineBegin
<1>3. ASSUME NEW p \in Request, NEW s \in Session, Refresh(p, s) \/ Logout(p, s) \/ Validate(p, s)
      PROVE  [Abstract!Next]_(Abstract!rvars)
  <2>1. CASE Refresh(p, s) /\ Matches(s)
    BY <2>1, RefineMatch
  <2>2. CASE Refresh(p, s) /\ ~ Matches(s)
    <3>1. Begin(p, owner[s], s, "revokeAll") /\ UNCHANGED <<row, parent, raced>>
      BY <2>2 DEF Refresh
    <3>. QED BY <3>1, RefineBegin
  <2>3. CASE Logout(p, s)
    <3>1. PICK at \in {"logout", "revokeAll"} : Begin(p, owner[s], s, at)
      BY <2>3 DEF Logout
    <3>2. UNCHANGED <<row, parent, raced>>
      BY <2>3 DEF Logout
    <3>. QED BY <3>1, <3>2, RefineBegin
  <2>4. CASE Validate(p, s)
    <3>1. Begin(p, owner[s], s, "check") /\ UNCHANGED <<row, parent, raced>>
      BY <2>4 DEF Validate
    <3>. QED BY <3>1, RefineBegin
  <2>. QED BY <1>3, <2>1, <2>2, <2>3, <2>4
<1>4. ASSUME UNCHANGED <<pc, tok>> PROVE \A p \in Request : Claimed'[p] = Claimed[p]
  BY <1>4 DEF Claimed
<1>5. ASSUME NEW u \in User, RevokeAllTokens(u) PROVE Abstract!Next
  <2>1. ASSUME NEW s \in Session
        PROVE  row'[s] = row[s] \/ (row[s] = "live" /\ row'[s] = "revoked")
    BY <1>5 DEF RevokeAllTokens, RevokeSessions, SessionsOf, Live
  <2>. QED BY <1>4, <1>5, <2>1, RefineSpend DEF RevokeAllTokens, request
<1>6. ASSUME CleanupExpiredSessions PROVE Abstract!Next
  <2>1. ASSUME NEW s \in Session
        PROVE  row'[s] = row[s] \/ (row[s] = "revoked" /\ row'[s] = "deleted")
    BY <1>6 DEF CleanupExpiredSessions
  <2>. QED BY <1>4, <1>6, <2>1, RefineSpend DEF CleanupExpiredSessions, request
<1>7. ASSUME \/ \E s \in Session : Expire(s)
             \/ \E u \in User : SetStatus(u)
             \/ UNCHANGED vars
      PROVE  UNCHANGED Abstract!rvars
  BY <1>4, <1>7, RefineStutter DEF Expire, SetStatus, vars, request
<1>. QED BY <1>1, <1>2, <1>3, <1>5, <1>6, <1>7 DEF Next

(* refreshTokens, revokeToken, revokeAllTokens and the cleanup implement   *)
(* one-time refresh tokens: whatever overlaps, expires or crashes, a       *)
(* spent session stays spent, and its pair is traded for a live one that   *)
(* has been spent by then, twice only by two requests that overlapped.     *)
THEOREM SessionsRotate == Spec => SessionsImplementRotation
<1>1. Init => Abstract!Init
  BY RefineInit
<1>2. IInv /\ [Next]_vars => [Abstract!Next]_(Abstract!rvars)
  BY RefineNext
<1>. QED BY <1>1, <1>2, Invariance, PTL DEF Spec, SessionsImplementRotation, Abstract!Spec
=============================================================================
