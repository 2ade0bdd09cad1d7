----------------------------- MODULE UsersProofs -----------------------------
(***************************************************************************)
(* Addresses stay unique whatever an edit counts; that save() loses no     *)
(* update and refuses none without cause is proved for edits that count    *)
(* one version, by VersionsTell: the version of a row tells whether anyone *)
(* has written it since it was loaded.                                     *)
(***************************************************************************)
EXTENDS Users, FiniteSetTheorems, TLAPS

LEMMA NoEvents == <<>> \in EventList
  BY DEF EventList

(* What the methods of the entity return.                                  *)
LEMMA CountedType ==
    ASSUME NEW user \in Entity, user.version < MaxVersion
    PROVE  Counted(user) \in Entity /\ Counted(user).version = user.version + 1
  BY UsersAssumption DEF Entity, Status, Counted

LEMMA MovedType ==
    ASSUME NEW user \in Entity, NEW status \in Status, Moved(user, status).version <= MaxVersion
    PROVE  Moved(user, status) \in Entity /\ Moved(user, status).version = user.version + 1
<1>1. Moved(user, status).version = user.version + 1
  BY DEF Moved, Counted, Entity
<1>2. Counted(user) \in Entity
  BY <1>1, CountedType, UsersAssumption DEF Entity
<1>3. Append(Counted(user).events, "UserStatusChanged") \in EventList
  BY <1>2 DEF Entity, EventList
<1>4. Moved(user, status) \in Entity
  BY <1>2, <1>3 DEF Moved, Entity
<1>. QED BY <1>1, <1>4

LEMMA EditedType ==
    ASSUME NEW user \in Entity, NEW u \in Edited(user, Email), u.version <= MaxVersion
    PROVE  u \in Entity /\ u.version \in {user.version, user.version + 1}
<1>0. user.version \in Nat /\ user.version + 1 > user.version
  BY DEF Entity
<1>1. ASSUME NEW e \in Email, u = ChangeEmail(user, e), e # user.email
      PROVE  u \in Entity /\ u.version = user.version + 1
  <2>1. u.version = user.version + 1
    BY <1>1 DEF ChangeEmail, Counted, Entity
  <2>2. Counted(user) \in Entity
    BY <1>0, <2>1, CountedType, UsersAssumption
  <2>3. u \in Entity
    BY <1>1, <2>2 DEF ChangeEmail, Entity, Status
  <2>. QED BY <2>1, <2>3
<1>2. ASSUME u = UpdateProfile(user) PROVE u \in Entity /\ u.version = user.version + 1
  <2>1. u.version = user.version + 1
    BY <1>2 DEF UpdateProfile, Counted, Entity
  <2>. QED BY <1>0, <1>2, <2>1, CountedType, UsersAssumption DEF UpdateProfile
<1>3. ASSUME NEW status \in Status, u = Moved(user, status)
      PROVE  u \in Entity /\ u.version = user.version + 1
  BY <1>3, MovedType
<1>4. ASSUME u = VerifyEmail(user) PROVE u \in Entity /\ u.version = user.version + 1
  <2>. DEFINE seen == [user EXCEPT !.verified = TRUE]
  <2>1. seen \in Entity /\ seen.version = user.version
    BY DEF Entity
  <2>2. u = Moved(seen, "ACTIVE") \/ u = Counted(seen)
    BY <1>4 DEF VerifyEmail
  <2>. HIDE DEF seen
  <2>3. CASE u = Moved(seen, "ACTIVE")
    BY <2>1, <2>3, MovedType DEF Status
  <2>4. CASE u = Counted(seen)
    <3>1. u.version = user.version + 1
      BY <2>1, <2>4 DEF Counted, Entity
    <3>. QED BY <1>0, <2>1, <2>4, <3>1, CountedType, UsersAssumption
  <2>. QED BY <2>2, <2>3, <2>4
<1>5. u \in {ChangeEmail(user, e) : e \in Email} =>
        u = user \/ \E e \in Email : u = ChangeEmail(user, e) /\ e # user.email
  BY DEF ChangeEmail
<1>6. u = Deactivate(user) \/ u = Activate(user) \/ u = Suspend(user) =>
        u = user \/ \E status \in Status : u = Moved(user, status)
  BY DEF Deactivate, Activate, Suspend, Status
<1>7. \/ u \in {ChangeEmail(user, e) : e \in Email} \/ u = UpdateProfile(user)
      \/ u = Deactivate(user) \/ u = Activate(user) \/ u = Suspend(user) \/ u = VerifyEmail(user)
  BY DEF Edited
<1>8. CASE u \in {ChangeEmail(user, e) : e \in Email}
  BY <1>1, <1>5, <1>8
<1>9. CASE u = Deactivate(user) \/ u = Activate(user) \/ u = Suspend(user)
  BY <1>3, <1>6, <1>9
<1>. QED BY <1>2, <1>4, <1>7, <1>8, <1>9

LEMMA EntityFields ==
    ASSUME NEW user \in Entity
    PROVE  user.version \in 1..MaxVersion /\ user.email \in Email /\ user # None
  BY UsersAssumption DEF Entity

LEMMA NewUserType == ASSUME NEW e \in Email PROVE NewUser(e) \in Entity
<1>1. <<"UserCreated">> \in EventList
  BY DEF EventList
<1>. QED BY <1>1, UsersAssumption DEF Entity, Status, NewUser

LEMMA ReconstitutedType ==
    ASSUME NEW user \in Entity
    PROVE  /\ Reconstituted(user) \in Entity /\ Reconstituted(user).events = <<>>
           /\ Reconstituted(user).version = user.version
           /\ Reconstituted(user).email = user.email
           /\ Reconstituted(user).status = user.status
<1>1. Reconstituted(user) \in Entity
  BY NoEvents DEF Entity, Reconstituted
<1>. QED BY <1>1 DEF Entity, Reconstituted


(* Every action preserves the invariant.  Loading an entity, returning and *)
(* writing a row are parts of several.                                     *)
LEMMA LoadInv ==
    ASSUME IInv, NEW p \in Editor, NEW i \in Id, Exists(i),
           NEW a \in {"login", "edit"}, NEW user, NEW at,
           \/ at = "change" /\ a = "edit" /\ user = rows[i]
           \/ at = "lookup" /\ user = Counted(rows[i]),
           a = "login" => rows[i].status = "ACTIVE" /\ at = "lookup",
           Load(p, i, a, user, at)
    PROVE  IInv'
<1>. USE UsersAssumption DEF IInv, Load, Hold
<1>1. rows[i] \in Entity /\ rows[i].version \in 1..MaxVersion /\ rows[i].version < MaxVersion
  <2>1. rows[i] \in Entity
    BY DEF TypeOK, Exists
  <2>. QED BY <2>1, EntityFields
<1>2. /\ user \in Entity
      /\ at = "change" => user.version = rows[i].version
      /\ at = "lookup" => user.version = rows[i].version + 1
  BY <1>1, CountedType
<1>3. TypeOK'
  BY <1>2 DEF TypeOK, Exists
<1>4. OneEach'
  BY DEF OneEach, Exists
<1>5. ChangesCounted'
  BY DEF ChangesCounted, TypeOK
<1>6. RegisteringAlone'
  BY DEF RegisteringAlone, TypeOK, Exists
<1>7. VersionsTell'
  <2>. SUFFICES ASSUME EditCounts = {1}, NEW q \in Editor, Loaded(q)'
       PROVE (/\ Exists(id[q])
              /\ IF q \in touched THEN rows[id[q]].version > LoadedVersion(q)
                                  ELSE rows[id[q]].version = LoadedVersion(q)
              /\ act[q] = "login" /\ q \notin touched => rows[id[q]].status = "ACTIVE"
              /\ act[q] = "login" => pc[q] # "change")'
    BY DEF VersionsTell
  <2>1. CASE q = p
    <3>1. id'[p] = i /\ held'[p] = user /\ pc'[p] = at /\ p \notin touched' /\ act'[p] = a
          /\ rows' = rows
      BY DEF TypeOK
    <3>2. changes'[p] = 0
      BY DEF TypeOK, ChangesCounted
    <3>3. LoadedVersion(p)' = rows[i].version
      BY <1>1, <1>2, <3>1, <3>2 DEF LoadedVersion
    <3>. QED BY <2>1, <3>1, <3>3 DEF Exists
  <2>2. CASE q # p
    <3>1. id'[q] = id[q] /\ held'[q] = held[q] /\ pc'[q] = pc[q] /\ act'[q] = act[q]
          /\ changes'[q] = changes[q] /\ (q \in touched' <=> q \in touched)
          /\ rows' = rows /\ deleted' = deleted
      BY <2>2 DEF TypeOK
    <3>2. Loaded(q) /\ LoadedVersion(q)' = LoadedVersion(q)
      BY <3>1 DEF Loaded, LoadedVersion
    <3>. QED BY <3>1, <3>2 DEF VersionsTell, Exists
  <2>. QED BY <2>1, <2>2
<1>. QED BY <1>3, <1>4, <1>5, <1>6, <1>7

LEMMA ReturnInv ==
    ASSUME IInv, NEW p \in Editor, Return(p), UNCHANGED <<rows, deleted>>,
           announced' \subseteq Id
    PROVE  IInv'
<1>. USE UsersAssumption DEF IInv, Return
<1>1. TypeOK'
  BY NoEvents DEF TypeOK, Exists
<1>2. OneEach'
  BY DEF OneEach, Exists
<1>3. ChangesCounted'
  BY DEF ChangesCounted, TypeOK
<1>4. RegisteringAlone'
  BY DEF RegisteringAlone, TypeOK, Exists
<1>5. VersionsTell'
  BY DEF VersionsTell, Loaded, LoadedVersion, TypeOK, Exists
<1>. QED BY <1>1, <1>2, <1>3, <1>4, <1>5

LEMMA WriteInv ==
    ASSUME IInv, NEW p \in Editor, pc[p] \in {"update", "insert"},
           EmailFree(p), Write(p), UNCHANGED <<deleted, announced>>,
           Exists(id[p]) => rows[id[p]].version = held[p].version - 1
    PROVE  IInv'
<1>. USE UsersAssumption DEF IInv, Write, Touch
<1>1. /\ id[p] \in Id /\ id[p] # None /\ held[p] \in Entity
      /\ held[p].version \in 1..MaxVersion
  BY EntityFields DEF TypeOK
<1>. DEFINE row == Reconstituted(held[p])
<1>2. /\ row \in Entity /\ row # None /\ row.events = <<>>
      /\ row.version = held[p].version /\ row.email = held[p].email
  BY <1>1, ReconstitutedType, EntityFields
<1>3. rows'[id[p]] = row /\ \A i \in Id \ {id[p]} : rows'[i] = rows[i]
  BY <1>1 DEF TypeOK
<1>. HIDE DEF row
<1>4. TypeOK'
  BY <1>1, <1>2, <1>3, NoEvents DEF TypeOK, Exists
<1>5. OneEach'
  BY <1>1, <1>2, <1>3 DEF OneEach, Exists, EmailFree, Owners
<1>6. ChangesCounted'
  BY DEF ChangesCounted, TypeOK
<1>7. RegisteringAlone'
  BY <1>1, <1>2, <1>3 DEF RegisteringAlone, TypeOK, Exists
<1>8. VersionsTell'
  <2>. SUFFICES ASSUME EditCounts = {1}, NEW q \in Editor, Loaded(q)'
       PROVE (/\ Exists(id[q])
              /\ IF q \in touched THEN rows[id[q]].version > LoadedVersion(q)
                                  ELSE rows[id[q]].version = LoadedVersion(q)
              /\ act[q] = "login" /\ q \notin touched => rows[id[q]].status = "ACTIVE"
              /\ act[q] = "login" => pc[q] # "change")'
    BY DEF VersionsTell
  <2>1. q # p
    BY DEF Loaded, TypeOK
  <2>2. /\ id'[q] = id[q] /\ held'[q] = held[q] /\ pc'[q] = pc[q] /\ act'[q] = act[q]
        /\ changes'[q] = changes[q] /\ deleted' = deleted
        /\ q \in touched' <=> q \in touched \/ id[q] = id[p]
    BY <2>1 DEF TypeOK
  <2>3. Loaded(q) /\ LoadedVersion(q)' = LoadedVersion(q)
    BY <2>2 DEF Loaded, LoadedVersion
  <2>4. id[q] \in Id /\ held[q] \in Entity /\ held[q].version \in Nat /\ changes[q] \in Nat
    <3>1. id[q] \in Id /\ held[q] \in Entity /\ changes[q] \in Nat
      BY <2>3, UsersAssumption DEF Loaded, TypeOK
    <3>. QED BY <3>1, EntityFields
  <2>5. LoadedVersion(q) \in Int
    BY <2>4 DEF LoadedVersion
  <2>6. CASE id[q] = id[p]
    <3>1. Exists(id[p]) /\ rows[id[p]].version >= LoadedVersion(q)
      BY <1>1, <2>3, <2>5, <2>6 DEF VersionsTell
    <3>2. row.version > LoadedVersion(q)
      BY <1>1, <1>2, <2>5, <3>1
    <3>. QED BY <1>2, <1>3, <2>2, <2>3, <2>6, <3>2 DEF Exists, VersionsTell
  <2>7. CASE id[q] # id[p]
    <3>1. rows'[id'[q]] = rows[id[q]]
      BY <1>3, <2>2, <2>4, <2>7
    <3>. QED BY <2>2, <2>3, <2>7, <3>1 DEF Exists, VersionsTell
  <2>. QED BY <2>6, <2>7
<1>. QED BY <1>4, <1>5, <1>6, <1>7, <1>8

LEMMA RegisterInv ==
    ASSUME IInv, NEW p \in Editor, NEW i \in Id, NEW e \in Email, Register(p, i, e) PROVE IInv'
<1>. USE UsersAssumption DEF IInv, Register, Hold
<1>1. NewUser(e) \in Entity
  BY NewUserType
<1>2. TypeOK'
  BY <1>1 DEF TypeOK, Exists
<1>3. OneEach'
  BY DEF OneEach, Exists
<1>4. ChangesCounted'
  BY DEF ChangesCounted, TypeOK
<1>5. RegisteringAlone'
  <2>. SUFFICES ASSUME NEW q \in Editor, act'[q] = "register"
       PROVE (/\ pc[q] \in {"idle", "lookup", "insert", "dispatch"}
              /\ pc[q] \in {"lookup", "insert"} =>
                    ~ Exists(id[q]) /\ \A r \in Editor \ {q} : id[r] # id[q])'
    BY DEF RegisteringAlone
  <2>1. \A r \in Editor \ {p} : id'[r] = id[r] /\ pc'[r] = pc[r] /\ act'[r] = act[r]
    BY DEF TypeOK
  <2>2. id'[p] = i /\ pc'[p] = "lookup"
    BY DEF TypeOK
  <2>3. CASE q = p
    BY <2>1, <2>2, <2>3 DEF Exists
  <2>4. CASE q # p
    BY <2>1, <2>2, <2>4 DEF Exists, RegisteringAlone
  <2>. QED BY <2>3, <2>4
<1>6. VersionsTell'
  BY DEF VersionsTell, Loaded, LoadedVersion, TypeOK, Exists
<1>. QED BY <1>2, <1>3, <1>4, <1>5, <1>6

LEMMA AuthenticateInv ==
    ASSUME IInv, NEW p \in Editor, NEW e \in Email, Authenticate(p, e) PROVE IInv'
  BY LoadInv DEF Authenticate, Owners, MayRecordLogin, RecordLogin

LEMMA ChangePasswordOfInv ==
    ASSUME IInv, NEW p \in Editor, NEW i \in Id, ChangePasswordOf(p, i) PROVE IInv'
  BY LoadInv DEF ChangePasswordOf, ChangePassword

LEMMA LoadForEditInv ==
    ASSUME IInv, NEW p \in Editor, NEW i \in Id, LoadForEdit(p, i) PROVE IInv'
  BY LoadInv DEF LoadForEdit

LEMMA EditInv ==
    ASSUME IInv, NEW p \in Editor, Edit(p) PROVE IInv'
<1>. USE UsersAssumption DEF IInv
<1>1. PICK user \in Edited(held[p], Email) : user.version <= MaxVersion /\ Become(p, user, "change")
  BY DEF Edit
<1>. USE DEF Become
<1>2. /\ held[p] \in Entity /\ held[p].version \in 1..MaxVersion /\ changes[p] \in Nat
      /\ user \in Entity /\ user.version \in {held[p].version, held[p].version + 1}
  <2>1. held[p] \in Entity /\ changes[p] \in Nat
    BY DEF TypeOK, Edit
  <2>. QED BY <1>1, <2>1, EntityFields, EditedType
<1>3. /\ rows' = rows /\ pc' = pc /\ act' = act /\ id' = id /\ events' = events
      /\ touched' = touched /\ deleted' = deleted /\ announced' = announced
      /\ held' = [held EXCEPT ![p] = user] /\ pc[p] = "change" /\ act[p] = "edit"
  BY <1>1 DEF Edit, TypeOK
<1>4. /\ changes' = [changes EXCEPT ![p] = @ + user.version - held[p].version]
      /\ changes'[p] = changes[p] + user.version - held[p].version
  BY <1>1 DEF TypeOK
<1>. HIDE DEF Become
<1>5. changes[p] + user.version - held[p].version \in Nat
  BY <1>2
<1>6. TypeOK'
  BY <1>2, <1>3, <1>4, <1>5 DEF TypeOK, Exists
<1>7. OneEach'
  BY <1>3 DEF OneEach, Exists
<1>8. ChangesCounted'
  BY <1>3, <1>4 DEF ChangesCounted, TypeOK
<1>9. RegisteringAlone'
  BY <1>3 DEF RegisteringAlone, Exists
<1>10. LoadedVersion(p)' = LoadedVersion(p)
  BY <1>2, <1>3, <1>4 DEF LoadedVersion, TypeOK
<1>11. \A q \in Editor \ {p} : LoadedVersion(q)' = LoadedVersion(q)
  BY <1>3, <1>4 DEF LoadedVersion, TypeOK
<1>12. \A q \in Editor : Loaded(q)' = Loaded(q)
  BY <1>3 DEF Loaded
<1>13. VersionsTell'
  BY <1>3, <1>10, <1>11, <1>12 DEF VersionsTell, Exists
<1>. QED BY <1>6, <1>7, <1>8, <1>9, <1>13

LEMMA SaveEditsInv ==
    ASSUME IInv, NEW p \in Editor, SaveEdits(p) PROVE IInv'
<1>. USE UsersAssumption DEF IInv, SaveEdits
<1>1. TypeOK'
  BY DEF TypeOK, Exists
<1>2. OneEach'
  BY DEF OneEach, Exists
<1>3. ChangesCounted'
  BY DEF ChangesCounted, TypeOK
<1>4. RegisteringAlone'
  BY DEF RegisteringAlone, TypeOK, Exists
<1>5. VersionsTell'
  BY DEF VersionsTell, Loaded, LoadedVersion, TypeOK, Exists
<1>. QED BY <1>1, <1>2, <1>3, <1>4, <1>5

LEMMA LookupInv ==
    ASSUME IInv, NEW p \in Editor, Lookup(p) PROVE IInv'
<1>. USE UsersAssumption DEF IInv, Lookup, Goto
<1>1. TypeOK'
  BY DEF TypeOK, Exists
<1>2. OneEach'
  BY DEF OneEach, Exists
<1>3. ChangesCounted'
  BY DEF ChangesCounted, TypeOK
<1>4. RegisteringAlone'
  BY DEF RegisteringAlone, TypeOK, Exists
<1>5. VersionsTell'
  BY DEF VersionsTell, Loaded, LoadedVersion, TypeOK, Exists
<1>. QED BY <1>1, <1>2, <1>3, <1>4, <1>5

LEMMA UpdateInv == ASSUME IInv, NEW p \in Editor, Update(p) PROVE IInv'
  BY WriteInv DEF Update, Fits, GetExpectedVersion

LEMMA InsertInv == ASSUME IInv, NEW p \in Editor, Insert(p) PROVE IInv'
  BY WriteInv DEF Insert

LEMMA SaveFailsInv == ASSUME IInv, NEW p \in Editor, SaveFails(p) PROVE IInv'
  BY ReturnInv DEF SaveFails, IInv, TypeOK

LEMMA DispatchInv == ASSUME IInv, NEW p \in Editor, Dispatch(p) PROVE IInv'
<1>1. id[p] \in Id /\ announced \subseteq Id
  BY DEF Dispatch, IInv, TypeOK
<1>. QED BY <1>1, ReturnInv DEF Dispatch

LEMMA CrashInv == ASSUME IInv, NEW p \in Editor, Crash(p) PROVE IInv'
  BY ReturnInv DEF Crash, IInv, TypeOK

LEMMA DeleteInv == ASSUME IInv, NEW i \in Id, Delete(i) PROVE IInv'
<1>. USE UsersAssumption DEF IInv, Delete, call
<1>1. TypeOK'
  BY DEF TypeOK, Exists
<1>2. OneEach'
  BY DEF OneEach, TypeOK, Exists
<1>3. ChangesCounted'
  BY DEF ChangesCounted
<1>4. RegisteringAlone'
  BY DEF RegisteringAlone, TypeOK, Exists
<1>5. VersionsTell'
  BY DEF VersionsTell, Loaded, LoadedVersion, TypeOK, Exists
<1>. QED BY <1>1, <1>2, <1>3, <1>4, <1>5

(* Every step, and none, preserves the invariant.                          *)
LEMMA NextInv == ASSUME IInv, [Next]_vars PROVE IInv'
<1>1. ASSUME NEW p \in Editor, Step(p) PROVE IInv'
  BY <1>1, EditInv, SaveEditsInv, LookupInv, UpdateInv, InsertInv, SaveFailsInv, DispatchInv,
     CrashInv DEF Step
<1>2. ASSUME NEW p \in Editor, NEW e \in Email,
             Authenticate(p, e) \/ \E i \in Id : Register(p, i, e)
      PROVE IInv'
  BY <1>2, AuthenticateInv, RegisterInv
<1>3. ASSUME NEW p \in Editor, NEW i \in Id, ChangePasswordOf(p, i) \/ LoadForEdit(p, i)
      PROVE IInv'
  BY <1>3, ChangePasswordOfInv, LoadForEditInv
<1>4. ASSUME NEW i \in Id, Delete(i) PROVE IInv'
  BY <1>4, DeleteInv
<1>5. CASE UNCHANGED vars
  BY <1>5 DEF IInv, TypeOK, OneEach, ChangesCounted, RegisteringAlone, VersionsTell, Loaded,
     LoadedVersion, Exists, vars, call
<1>. QED BY <1>1, <1>2, <1>3, <1>4, <1>5 DEF Next

(* At the start nobody is registered.                                      *)
LEMMA InitInv == ASSUME Init PROVE IInv
<1>. USE UsersAssumption DEF Init, IInv
<1>1. TypeOK
  BY NoEvents DEF TypeOK, Exists
<1>2. OneEach /\ ChangesCounted /\ RegisteringAlone /\ VersionsTell
  BY DEF OneEach, ChangesCounted, RegisteringAlone, VersionsTell, Loaded, Exists
<1>. QED BY <1>1, <1>2

(* The inductive invariant holds: addresses are owned once, and, when an   *)
(* edit counts one version before it is saved, a row is as a call loaded   *)
(* it or has a later version.                                              *)
THEOREM Invariance == Spec => []IInv
<1>1. Init => IInv
  BY InitInv
<1>2. IInv /\ [Next]_vars => IInv'
  BY NextInv
<1>. QED BY <1>1, <1>2, PTL DEF Spec

(* Rows of the users table and entities keep their types.                  *)
THEOREM TypeCorrect == Spec => []TypeOK
<1>1. IInv => TypeOK
  BY DEF IInv
<1>. QED BY <1>1, Invariance, PTL

(* Registrations and changes of address that overlap never give two users  *)
(* the same one.                                                           *)
THEOREM AddressesUnique == Spec => []EmailsUnique
<1>1. IInv => EmailsUnique
  <2>. SUFFICES ASSUME IInv, NEW e \in Email PROVE Cardinality(Owners(e)) <= 1
    BY DEF EmailsUnique
  <2>1. CASE Owners(e) = {}
    BY <2>1, FS_EmptySet
  <2>2. CASE Owners(e) # {}
    <3>1. PICK i \in Id : Exists(i) /\ rows[i].email = e
      BY <2>2 DEF Owners
    <3>2. Owners(e) = {i}
      BY <3>1 DEF Owners, IInv, OneEach
    <3>3. Cardinality({i}) = 1
      BY FS_Singleton
    <3>. QED BY <3>2, <3>3
  <2>. QED BY <2>1, <2>2
<1>. QED BY <1>1, Invariance, PTL

(* What a call that is about to update holds.                              *)
LEMMA SavingTells ==
    ASSUME IInv, EditCounts = {1}, NEW p \in Editor, Saving(p)
    PROVE  /\ Loaded(p) /\ Exists(id[p])
           /\ rows[id[p]].version \in Nat /\ held[p].version \in Nat
           /\ LoadedVersion(p) = held[p].version - 1
<1>1. Loaded(p)
  BY DEF Saving, Loaded, IInv, RegisteringAlone
<1>2. Exists(id[p])
  BY <1>1 DEF IInv, VersionsTell
<1>3. held[p] \in Entity /\ rows[id[p]] \in Entity
  BY <1>2, UsersAssumption DEF Saving, IInv, TypeOK, Exists
<1>4. rows[id[p]].version \in Nat /\ held[p].version \in Nat
  BY <1>3, EntityFields
<1>. QED BY <1>1, <1>2, <1>4 DEF Saving, LoadedVersion

(* When edits count one version, save() overwrites nothing its caller has  *)
(* not seen.                                                               *)
THEOREM UpdatesAreSeen == ASSUME EditCounts = {1} PROVE Spec => []NoLostUpdate
<1>1. IInv => NoLostUpdate
  BY SavingTells DEF NoLostUpdate, Fits, GetExpectedVersion, IInv, VersionsTell
<1>. QED BY <1>1, Invariance, PTL

(* When edits count one version, save() refuses nobody whose row no other  *)
(* call has written.                                                       *)
THEOREM ConflictsAreReal == ASSUME EditCounts = {1} PROVE Spec => []NoFalseConflict
<1>1. IInv => NoFalseConflict
  BY SavingTells DEF NoFalseConflict, Fits, GetExpectedVersion, IInv, VersionsTell
<1>. QED BY <1>1, Invariance, PTL

(* When edits count one version, a login is only ever written to a user    *)
(* who is ACTIVE at that moment.                                           *)
THEOREM LoginsAreActive == ASSUME EditCounts = {1} PROVE Spec => LoginWhileActive
<1>1. ASSUME IInv, NEW p \in Editor, act[p] = "login", Update(p), id[p] \notin deleted
      PROVE  rows[id[p]].status = "ACTIVE"
  <2>1. Saving(p) /\ Fits(p)
    BY <1>1 DEF Update, Saving
  <2>2. p \notin touched /\ Loaded(p)
    BY <1>1, <2>1, SavingTells DEF Fits, GetExpectedVersion, IInv, VersionsTell
  <2>. QED BY <1>1, <2>2 DEF IInv, VersionsTell
<1>2. IInv /\ [Next]_vars =>
        [\A p \in Editor : act[p] = "login" /\ Update(p) /\ id[p] \notin deleted =>
            rows[id[p]].status = "ACTIVE"]_vars
  BY <1>1
<1>. QED BY <1>2, Invariance, PTL DEF Spec, LoginWhileActive
=============================================================================
