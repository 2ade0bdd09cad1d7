---------------------------- MODULE Organizations ----------------------------
(***************************************************************************)
(* change_member_role with its trigger validate_role_change and the audit  *)
(* row that write_audit_log chains to the latest one, for one organization *)
(* and any number of overlapping calls.  One action per SQL statement that *)
(* reads or writes shared rows, at READ COMMITTED: a statement sees what   *)
(* is committed when it starts, what a call writes is seen when it         *)
(* commits, and a RAISE undoes it, the security events logged before the   *)
(* RAISE included.  A role is NULL when the SELECT finds no active row; IF *)
(* takes a comparison with NULL for false.  The unqualified names in       *)
(* write_audit_log are taken to resolve.                                   *)
(***************************************************************************)
EXTENDS Naturals

CONSTANTS
    Uid,            \* users
    Backend,        \* database sessions
    Nobody,
    MaxClock        \* bound: calls that begin

ASSUME OrganizationsAssumption == Nobody \notin Uid /\ MaxClock \in Nat

VARIABLES
    memberRole,     \* organization_members.role, "none" where there is no row
    enrolled,       \* users whose row is_active; nothing here sets it
    auditLog,       \* committed rows of audit_log
    clock,          \* now(), which moves on with every transaction that begins
    backend,        \* what each session does next
    change,         \* the call it executes
    previous,       \* v_prev_hash: the row it has read, 0 for none
    stale,          \* history: calls whose actor's role was changed after
                    \* change_member_role had read it
    overtaken       \* history: the same, after validate_role_change had

organizationVars ==
    <<memberRole, enrolled, auditLog, clock, backend, change, previous, stale, overtaken>>

\* Of user_role, those the code compares with, and one that it does not.
MemberRole == {"owner", "admin", "member"}
Null == "null"

\* began: now() of its transaction, which is created_at and part of the hash; it
\* names the row.  ended: when it was committed.
AuditRow == [began : Nat, ended : Nat, previous : Nat]

RoleChange == [actor : Uid, target : Uid, role : MemberRole, began : Nat]
NoCall == [actor |-> Nobody, target |-> Nobody, role |-> Null, began |-> 0]

OrganizationTypeOK ==
    /\ memberRole \in [Uid -> MemberRole \cup {"none"}]
    /\ enrolled \subseteq {u \in Uid : memberRole[u] # "none"}
    /\ auditLog \subseteq AuditRow
    /\ clock \in Nat
    /\ backend \in [Backend -> {"idle", "rate", "check", "update", "validate", "chain", "commit"}]
    /\ change \in [Backend -> RoleChange \cup {NoCall}]
    /\ \A c \in Backend : backend[c] = "idle" <=> change[c] = NoCall
    /\ previous \in [Backend -> Nat]
    /\ stale \subseteq Backend
    /\ overtaken \subseteq Backend

OrganizationInit ==
    /\ memberRole \in [Uid -> MemberRole \cup {"none"}]
    /\ enrolled \in SUBSET {u \in Uid : memberRole[u] # "none"}
    /\ auditLog = {}
    /\ clock = 0
    /\ backend = [c \in Backend |-> "idle"]
    /\ change = [c \in Backend |-> NoCall]
    /\ previous = [c \in Backend |-> 0]
    /\ stale = {}
    /\ overtaken = {}

RoleOf(u) == IF u \in enrolled THEN memberRole[u] ELSE Null

\* check_rate_limit keeps the row of the actor locked, UPDATE that of the target,
\* both to the end of the transaction.
Limited(c) == backend[c] \in {"check", "update", "validate", "chain", "commit"}
Locks(c) == backend[c] \in {"validate", "chain", "commit"}

Proceed(c, next) ==
    /\ backend' = [backend EXCEPT ![c] = next]
    /\ UNCHANGED <<memberRole, enrolled, auditLog, clock, change, stale, overtaken>>

\* The transaction is over.
End(c) ==
    /\ backend' = [backend EXCEPT ![c] = "idle"]
    /\ change' = [change EXCEPT ![c] = NoCall]
    /\ previous' = [previous EXCEPT ![c] = 0]
    /\ UNCHANGED enrolled

Raise(c) ==
    /\ End(c)
    /\ stale' = stale \ {c}
    /\ overtaken' = overtaken \ {c}
    /\ UNCHANGED <<memberRole, auditLog, clock>>

BeginChange(c, actor, target, role) ==
    /\ backend[c] = "idle"
    /\ clock < MaxClock
    /\ clock' = clock + 1
    /\ backend' = [backend EXCEPT ![c] = "rate"]
    /\ change' = [change EXCEPT ![c] =
           [actor |-> actor, target |-> target, role |-> role, began |-> clock + 1]]
    /\ UNCHANGED <<memberRole, enrolled, auditLog, previous, stale, overtaken>>

\* check_rate_limit, of which Ledger says more: a call waits for those of the same
\* actor, and is let through whatever the tokens.
RateLimit(c) ==
    /\ backend[c] = "rate"
    /\ \A d \in Backend : Limited(d) => change[d].actor # change[c].actor
    /\ Proceed(c, "check")
    /\ UNCHANGED previous

\* What change_member_role asks of the actor.
Insufficient(r, role) ==
    /\ r # Null
    /\ r \notin {"owner", "admin"} \/ (role = "owner" /\ r # "owner")

CheckActor(c) ==
    /\ backend[c] = "check"
    /\ IF Insufficient(RoleOf(change[c].actor), change[c].role)
       THEN Raise(c)
       ELSE Proceed(c, "update") /\ UNCHANGED previous

\* UPDATE organization_members, as far as the lock on the row.
LockMember(c) ==
    /\ backend[c] = "update"
    /\ IF memberRole[change[c].target] = "none"
       THEN Raise(c)
       ELSE /\ \A d \in Backend : Locks(d) => change[d].target # change[c].target
            /\ Proceed(c, "validate")
            /\ UNCHANGED previous

\* Mutant: owners may be demoted by admins.
ForbiddenPromotion(r, old, new) == r \notin {Null, "owner"} /\ new = "owner"

\* What the trigger asks of the actor.
Forbidden(r, old, new) == r \notin {Null, "owner"} /\ "owner" \in {old, new}

ValidateChange(c) ==
    /\ backend[c] = "validate"
    /\ LET old == memberRole[change[c].target]
           new == change[c].role IN
       IF Forbidden(RoleOf(change[c].actor), old, new)
       THEN Raise(c)
       ELSE Proceed(c, IF old = new THEN "commit" ELSE "chain") /\ UNCHANGED previous

\* Mutant: ORDER BY created_at without DESC.
EarliestRow(b) ==
    IF auditLog = {} THEN b = 0
    ELSE \E r \in auditLog : b = r.began /\ \A q \in auditLog : r.began <= q.began

\* SELECT row_hash ... ORDER BY created_at DESC LIMIT 1
LatestRow(b) ==
    IF auditLog = {} THEN b = 0
    ELSE \E r \in auditLog : b = r.began /\ \A q \in auditLog : q.began <= r.began

\* write_audit_log
Chain(c) ==
    /\ backend[c] = "chain"
    /\ \E b \in 0..clock :
           /\ LatestRow(b)
           /\ previous' = [previous EXCEPT ![c] = b]
    /\ Proceed(c, "commit")

\* The other calls that rely on what they have read of c's target.
Relying(c, steps) ==
    {d \in Backend \ {c} : backend[d] \in steps /\ change[d].actor = change[c].target}

Commit(c) ==
    /\ backend[c] = "commit"
    /\ LET u == change[c].target
           row == [began |-> change[c].began, ended |-> clock, previous |-> previous[c]] IN
       IF memberRole[u] = change[c].role
       THEN /\ stale' = stale \ {c}
            /\ overtaken' = overtaken \ {c}
            /\ UNCHANGED <<memberRole, auditLog>>
       ELSE /\ memberRole' = [memberRole EXCEPT ![u] = change[c].role]
            /\ auditLog' = auditLog \cup {row}
            /\ stale' = (stale \ {c}) \cup Relying(c, {"update", "validate", "chain", "commit"})
            /\ overtaken' = (overtaken \ {c}) \cup Relying(c, {"chain", "commit"})
    /\ End(c)
    /\ UNCHANGED clock

\* The connection is lost.
Disconnect(c) == backend[c] # "idle" /\ Raise(c)

OrganizationNext ==
    \E c \in Backend :
        \/ \E actor, target \in Uid, role \in MemberRole : BeginChange(c, actor, target, role)
        \/ RateLimit(c) \/ CheckActor(c) \/ LockMember(c) \/ ValidateChange(c) \/ Chain(c)
        \/ Commit(c) \/ Disconnect(c)

OrganizationSpec == OrganizationInit /\ [][OrganizationNext]_organizationVars

-----------------------------------------------------------------------------
\* A role is changed by one who may: to or from owner by an owner, otherwise by an
\* owner or an admin, as of the moment the change is committed, although both
\* checks were made before.  The exceptions are an actor whose own role was
\* changed by a call that crossed this one (so two owners may demote one another
\* and leave none) and one without an active row, for whom every comparison is
\* NULL.
ChangesEarned ==
    [][\A u \in Uid : memberRole'[u] # memberRole[u] =>
           \E c \in Backend :
               /\ backend[c] = "commit" /\ change[c].target = u
               /\ LET r == RoleOf(change[c].actor) IN
                  \/ r = Null
                  \/ /\ "owner" \in {memberRole[u], memberRole'[u]}
                     /\ r = "owner" \/ c \in overtaken
                  \/ /\ "owner" \notin {memberRole[u], memberRole'[u]}
                     /\ r \in {"owner", "admin"} \/ c \in stale]_organizationVars

\* Two transactions were open at one time.
Overlap(a, b) == a.began <= b.ended /\ b.began <= a.ended

\* The chain of the audit log forks only where transactions overlapped: two rows
\* name the same row as the one before them only if they overlapped, or if one of
\* them overlapped that row (created_at is when a transaction began, so a row
\* committed late never becomes the latest).
ForkHasCause ==
    \A a, b \in auditLog : a # b /\ a.previous = b.previous =>
        \/ Overlap(a, b)
        \/ \E p \in auditLog : p.began = a.previous /\ (Overlap(a, p) \/ Overlap(b, p))

-----------------------------------------------------------------------------
(* The inductive invariant.                                                *)

\* Locks exclude one another, and a locked row exists.
RowsLocked ==
    /\ \A c, d \in Backend :
           c # d /\ Locks(c) /\ Locks(d) => change[c].target # change[d].target
    /\ \A c \in Backend : Locks(c) => memberRole[change[c].target] # "none"

\* What a call has read of its actor is still so, unless a history says otherwise.
ChecksHold ==
    \A c \in Backend :
        LET r == RoleOf(change[c].actor) IN
        r # Null =>
            /\ backend[c] \in {"update", "validate", "chain", "commit"} /\ c \notin stale =>
                   r \in {"owner", "admin"}
            /\ /\ backend[c] \in {"chain", "commit"} /\ c \notin overtaken
               /\ "owner" \in {memberRole[change[c].target], change[c].role}
               => r = "owner"

\* A row begins before it is committed, under a time of its own, and names a row
\* that was not committed after it.
LogOrdered ==
    /\ \A a \in auditLog : 0 < a.began /\ a.began <= a.ended /\ a.ended <= clock
    /\ \A a, b \in auditLog : a.began = b.began => a = b
    /\ \A a \in auditLog : a.previous # 0 =>
           \E p \in auditLog : p.began = a.previous /\ p.ended <= a.ended

CallsOrdered ==
    /\ \A c \in Backend : backend[c] # "idle" =>
           /\ 0 < change[c].began /\ change[c].began <= clock
           /\ \A a \in auditLog : a.began # change[c].began
    /\ \A c, d \in Backend :
           c # d /\ backend[c] # "idle" /\ backend[d] # "idle" =>
               change[c].began # change[d].began

\* A row that began at t and names b has passed over no row committed before t.
PassesOver(t, b) ==
    \E a \in auditLog :
        a.ended < t /\ \A p \in auditLog : p.began = b => p.began < a.began

Logs(c) == backend[c] = "commit" /\ memberRole[change[c].target] # change[c].role

SeesEarlier ==
    /\ \A a \in auditLog : ~ PassesOver(a.began, a.previous)
    /\ \A c \in Backend : Logs(c) =>
           /\ ~ PassesOver(change[c].began, previous[c])
           /\ previous[c] # 0 => \E p \in auditLog : p.began = previous[c]

OrganizationIInv ==
    OrganizationTypeOK /\ RowsLocked /\ ChecksHold /\ LogOrdered /\ CallsOrdered /\ SeesEarlier

=============================================================================
