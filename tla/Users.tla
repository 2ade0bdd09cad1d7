------------------------------- MODULE Users -------------------------------
(***************************************************************************)
(* UserDomainService over UserRepositoryImpl and the users table: users    *)
(* that are registered, log in, change their passwords and are edited by   *)
(* code outside, each in several statements.  save() looks the row up and  *)
(* then updates it under the condition that its version is the expected    *)
(* one, or inserts it.                                                     *)
(***************************************************************************)
EXTENDS UserEntity, FiniteSets

CONSTANTS
    Id,         \* user ids
    Email,
    Editor,     \* calls being served at a time
    None,       \* no row, no user
    EditCounts, \* how many counted changes an outside edit makes before it saves
    MaxVersion  \* bound: a user is edited up to this version

EventList == Seq({"UserCreated", "UserStatusChanged"})

Entity ==
    [email : Email, status : Status, verified : BOOLEAN, version : 1..MaxVersion,
     events : EventList]

ASSUME UsersAssumption ==
    /\ None \notin Id
    /\ None \notin Entity
    /\ EditCounts \subseteq Nat
    /\ MaxVersion \in Nat \ {0}

VARIABLES
    rows,       \* the users table
    pc,         \* what each call does next
    act,        \* what it is: "register", "login" or "edit"
    id,         \* the user it is about
    held,       \* the entity it holds
    events,     \* the events of the entity that save() returned to it
    changes,    \* of an edit: the versions it has counted so far
    touched,    \* history: calls whose row somebody else has written since
    deleted,    \* history: users that have been deleted
    announced   \* ids whose UserCreated event has been published

call == <<pc, act, id, held, events, changes>>
vars == <<rows, call, touched, deleted, announced>>

Init ==
    /\ rows = [i \in Id |-> None]
    /\ pc = [p \in Editor |-> "idle"]
    /\ act = [p \in Editor |-> "edit"]
    /\ id = [p \in Editor |-> None]
    /\ held = [p \in Editor |-> None]
    /\ events = [p \in Editor |-> <<>>]
    /\ changes = [p \in Editor |-> 0]
    /\ touched = {}
    /\ deleted = {}
    /\ announced = {}

Exists(i) == rows[i] # None
Owners(e) == {i \in Id : Exists(i) /\ rows[i].email = e}

Hold(p, a, i, user, at) ==
    /\ pc[p] = "idle"
    /\ pc' = [pc EXCEPT ![p] = at]
    /\ act' = [act EXCEPT ![p] = a]
    /\ id' = [id EXCEPT ![p] = i]
    /\ held' = [held EXCEPT ![p] = user]
    /\ touched' = touched \ {p}
    /\ UNCHANGED events

Return(p) ==
    /\ pc' = [pc EXCEPT ![p] = "idle"]
    /\ act' = [act EXCEPT ![p] = "edit"]
    /\ id' = [id EXCEPT ![p] = None]
    /\ held' = [held EXCEPT ![p] = None]
    /\ events' = [events EXCEPT ![p] = <<>>]
    /\ changes' = [changes EXCEPT ![p] = 0]
    /\ touched' = touched \ {p}

Goto(p, at) == pc' = [pc EXCEPT ![p] = at] /\ UNCHANGED <<act, id, held, events, changes>>

Become(p, user, at) ==
    /\ held' = [held EXCEPT ![p] = user]
    /\ changes' = [changes EXCEPT ![p] = @ + user.version - held[p].version]
    /\ pc' = [pc EXCEPT ![p] = at]
    /\ UNCHANGED <<act, id, events>>

Touch(p) == touched' = (touched \cup {q \in Editor : id[q] = id[p]}) \ {p}

-----------------------------------------------------------------------------
(* Loading and changing an entity.  Comparing and hashing passwords takes   *)
(* time, but reads nothing that can change: a call that loads an entity     *)
(* and changes it does so in one step.  A call refused does nothing.        *)

\* registerUser: the email is looked up, and an entity created.
Register(p, i, e) ==
    /\ ~ Exists(i) /\ i \notin deleted /\ \A q \in Editor : id[q] # i
    /\ Owners(e) = {}
    /\ Hold(p, "register", i, NewUser(e), "lookup")
    /\ UNCHANGED <<rows, changes, deleted, announced>>

Load(p, i, a, user, at) ==
    /\ rows[i].version < MaxVersion
    /\ Hold(p, a, i, user, at)
    /\ UNCHANGED <<rows, changes, deleted, announced>>

\* authenticate: findByEmail, and a login recorded if the password is right.
Authenticate(p, e) ==
    \E i \in Owners(e) :
        /\ MayRecordLogin(rows[i])
        /\ Load(p, i, "login", RecordLogin(rows[i]), "lookup")

\* changePassword, the current one being right.
ChangePasswordOf(p, i) ==
    /\ Exists(i)
    /\ Load(p, i, "edit", ChangePassword(rows[i]), "lookup")

LoadForEdit(p, i) ==
    /\ Exists(i)
    /\ Load(p, i, "edit", rows[i], "change")

\* Code outside calls a method of the entity, perhaps not the last.
Edit(p) ==
    /\ pc[p] = "change" /\ act[p] = "edit"
    /\ \E user \in Edited(held[p], Email) :
        /\ user.version <= MaxVersion
        /\ Become(p, user, "change")
    /\ \E n \in EditCounts : changes'[p] <= n
    /\ UNCHANGED <<rows, touched, deleted, announced>>

SaveEdits(p) ==
    /\ pc[p] = "change" /\ act[p] = "edit"
    /\ changes[p] \in EditCounts
    /\ pc' = [pc EXCEPT ![p] = "lookup"]
    /\ changes' = [changes EXCEPT ![p] = 0]
    /\ UNCHANGED <<rows, act, id, held, events, touched, deleted, announced>>

-----------------------------------------------------------------------------
(* save().                                                                 *)

Lookup(p) ==
    /\ pc[p] = "lookup"
    /\ Goto(p, IF Exists(id[p]) THEN "update" ELSE "insert")
    /\ UNCHANGED <<rows, touched, deleted, announced>>

\* Mutant: the row is found by its id alone.
FitsAny(p) == Exists(id[p])

\* The row the update's where clause finds.
Fits(p) == Exists(id[p]) /\ rows[id[p]].version = GetExpectedVersion(held[p])

\* Mutant: the address has been looked up, and is taken to be free.
EmailFreeAsSeen(p) == TRUE

\* The unique index on users.email.
EmailFree(p) == Owners(held[p].email) \subseteq {id[p]}

\* The row becomes the entity; the entity returned is read back from the row.
Write(p) ==
    /\ rows' = [rows EXCEPT ![id[p]] = Reconstituted(held[p])]
    /\ events' = [events EXCEPT ![p] = Reconstituted(held[p]).events]
    /\ held' = [held EXCEPT ![p] = None]
    /\ pc' = [pc EXCEPT ![p] = "dispatch"]
    /\ Touch(p)
    /\ UNCHANGED <<act, id, changes>>

Update(p) ==
    /\ pc[p] = "update"
    /\ Fits(p) /\ EmailFree(p)
    /\ Write(p)
    /\ UNCHANGED <<deleted, announced>>

Insert(p) ==
    /\ pc[p] = "insert"
    /\ ~ Exists(id[p]) /\ EmailFree(p)
    /\ Write(p)
    /\ UNCHANGED <<deleted, announced>>

\* ConcurrencyConflictError, EmailAlreadyExistsException, or a duplicate id.
SaveFails(p) ==
    /\ \/ pc[p] = "update" /\ ~ (Fits(p) /\ EmailFree(p))
       \/ pc[p] = "insert" /\ ~ (~ Exists(id[p]) /\ EmailFree(p))
    /\ Return(p)
    /\ UNCHANGED <<rows, deleted, announced>>

\* pullDomainEvents of the saved entity, and publish.
Dispatch(p) ==
    /\ pc[p] = "dispatch"
    /\ announced' = IF \E n \in DOMAIN events[p] : events[p][n] = "UserCreated"
                    THEN announced \cup {id[p]} ELSE announced
    /\ Return(p)
    /\ UNCHANGED <<rows, deleted>>

-----------------------------------------------------------------------------

\* delete()
Delete(i) ==
    /\ Exists(i)
    /\ rows' = [rows EXCEPT ![i] = None]
    /\ deleted' = deleted \cup {i}
    /\ touched' = touched \cup {p \in Editor : id[p] = i}
    /\ UNCHANGED <<call, announced>>

\* The process is lost, or the transaction around the call times out: what
\* save() wrote outside it stays.
Crash(p) ==
    /\ pc[p] # "idle"
    /\ Return(p)
    /\ UNCHANGED <<rows, deleted, announced>>

Step(p) ==
    \/ Edit(p) \/ SaveEdits(p)
    \/ Lookup(p) \/ Update(p) \/ Insert(p) \/ SaveFails(p) \/ Dispatch(p) \/ Crash(p)

Next ==
    \/ \E p \in Editor :
        \/ Step(p)
        \/ \E e \in Email : Authenticate(p, e) \/ \E i \in Id : Register(p, i, e)
        \/ \E i \in Id : ChangePasswordOf(p, i) \/ LoadForEdit(p, i)
    \/ \E i \in Id : Delete(i)

Spec == Init /\ [][Next]_vars

-----------------------------------------------------------------------------
(* Properties.                                                             *)

(* Rows and entities keep their types, and rows have no events.            *)
TypeOK ==
    /\ rows \in [Id -> Entity \cup {None}]
    /\ \A i \in Id : Exists(i) => rows[i].events = <<>>
    /\ pc \in [Editor -> {"idle", "change", "lookup", "update", "insert", "dispatch"}]
    /\ act \in [Editor -> {"register", "login", "edit"}]
    /\ id \in [Editor -> Id \cup {None}]
    /\ \A p \in Editor : pc[p] = "idle" <=> id[p] = None
    /\ held \in [Editor -> Entity \cup {None}]
    /\ \A p \in Editor : pc[p] \notin {"idle", "dispatch"} => held[p] # None
    /\ events \in [Editor -> EventList]
    /\ changes \in [Editor -> Nat]
    /\ touched \subseteq Editor
    /\ deleted \subseteq Id
    /\ announced \subseteq Id

(* Two users never share an address, although registerUser and changeEmail *)
(* look it up (or do not) long before they write.                          *)
EmailsUnique == \A e \in Email : Cardinality(Owners(e)) <= 1

Saving(p) == pc[p] = "update" /\ id[p] \notin deleted

(* save() overwrites nothing its caller has not seen: the update finds the *)
(* row only when nobody has written it since the entity was loaded.        *)
NoLostUpdate == \A p \in Editor : Saving(p) /\ Fits(p) => p \notin touched

(* And it refuses nobody without cause: a caller whom nobody disturbed     *)
(* finds the version it expects.                                           *)
NoFalseConflict == \A p \in Editor : Saving(p) /\ p \notin touched => Fits(p)

(* A login is only ever written to a user who is ACTIVE at that moment: a  *)
(* suspension between the check of the status and the save makes it fail.  *)
LoginWhileActive ==
    [][\A p \in Editor : act[p] = "login" /\ Update(p) /\ id[p] \notin deleted =>
            rows[id[p]].status = "ACTIVE"]_vars

-----------------------------------------------------------------------------
(* The inductive invariant.                                                *)

OneEach ==
    \A i, j \in Id : Exists(i) /\ Exists(j) /\ rows[i].email = rows[j].email => i = j

(* An edit counts the versions it has added since it loaded the entity.    *)
ChangesCounted ==
    \A p \in Editor : pc[p] # "change" => changes[p] = 0

(* Nobody else knows the id of a user that is being registered.            *)
RegisteringAlone ==
    \A p \in Editor : act[p] = "register" =>
        /\ pc[p] \in {"idle", "lookup", "insert", "dispatch"}
        /\ pc[p] \in {"lookup", "insert"} =>
            ~ Exists(id[p]) /\ \A q \in Editor \ {p} : id[q] # id[p]

(* The version the entity of p had when it was loaded.                     *)
LoadedVersion(p) ==
    IF pc[p] = "change" THEN held[p].version - changes[p] ELSE held[p].version - 1

Loaded(p) ==
    pc[p] \in {"change", "lookup", "update"} /\ act[p] # "register" /\ id[p] \notin deleted

(* When edits count one version, a row is as it was loaded, or its version *)
(* is a later one.                                                         *)
VersionsTell ==
    EditCounts = {1} => \A p \in Editor : Loaded(p) =>
        /\ Exists(id[p])
        /\ IF p \in touched THEN rows[id[p]].version > LoadedVersion(p)
                            ELSE rows[id[p]].version = LoadedVersion(p)
        /\ act[p] = "login" /\ p \notin touched => rows[id[p]].status = "ACTIVE"
        /\ act[p] = "login" => pc[p] # "change"

IInv == TypeOK /\ OneEach /\ ChangesCounted /\ RegisteringAlone /\ VersionsTell

(* "4. Persist and dispatch events" (user-domain.service.ts:38): a         *)
(* registration that completes has published its UserCreated event.        *)
CreatedIsAnnounced ==
    [][\A p \in Editor : act[p] = "register" /\ Dispatch(p) => id[p] \in announced']_vars
=============================================================================
