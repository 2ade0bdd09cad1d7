----------------------------- MODULE UserEntity -----------------------------
(***************************************************************************)
(* The User entity: what each of its methods makes of a user.  A method    *)
(* that throws has a guard of its own, MayX.  Names, hashes and dates are   *)
(* left out: changePassword and updateProfile only count a version.        *)
(***************************************************************************)
EXTENDS Naturals, Sequences

Status == {"ACTIVE", "INACTIVE", "SUSPENDED", "PENDING_VERIFICATION"}

\* create()
NewUser(email) ==
    [email |-> email, status |-> "PENDING_VERIFICATION", verified |-> FALSE, version |-> 1,
     events |-> <<"UserCreated">>]

\* toDomain() and reconstitute(): a user read back has no events.
Reconstituted(user) == [user EXCEPT !.events = <<>>]

Counted(user) == [user EXCEPT !.version = @ + 1]

Moved(user, status) ==
    [Counted(user) EXCEPT !.status = status, !.events = Append(@, "UserStatusChanged")]

MayActivate(user) == user.status # "SUSPENDED"

Activate(user) == IF user.status = "ACTIVE" THEN user ELSE Moved(user, "ACTIVE")

MaySuspend(user) == user.status # "SUSPENDED"

Suspend(user) == Moved(user, "SUSPENDED")

Deactivate(user) == IF user.status = "INACTIVE" THEN user ELSE Moved(user, "INACTIVE")

MayVerifyEmail(user) == ~ user.verified

VerifyEmail(user) ==
    LET seen == [user EXCEPT !.verified = TRUE] IN
    IF user.status = "PENDING_VERIFICATION" THEN Moved(seen, "ACTIVE") ELSE Counted(seen)

MayRecordLogin(user) == user.status = "ACTIVE"

RecordLogin(user) == Counted(user)

ChangePassword(user) == Counted(user)

UpdateProfile(user) == Counted(user)

ChangeEmail(user, email) ==
    IF email = user.email THEN user
    ELSE [Counted(user) EXCEPT
            !.email = email, !.verified = FALSE, !.status = "PENDING_VERIFICATION"]

\* Mutant: the version the user has now, not the one it was loaded with.
GetExpectedVersionNow(user) == user.version

GetExpectedVersion(user) == user.version - 1

\* What one call of a method by code outside the domain services can lead to.
Edited(user, emails) ==
    {ChangeEmail(user, e) : e \in emails} \cup
    {Deactivate(user), UpdateProfile(user)} \cup
    (IF MayActivate(user) THEN {Activate(user)} ELSE {}) \cup
    (IF MaySuspend(user) THEN {Suspend(user)} ELSE {}) \cup
    (IF MayVerifyEmail(user) THEN {VerifyEmail(user)} ELSE {})
=============================================================================
