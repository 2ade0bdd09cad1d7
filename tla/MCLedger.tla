------------------------------ MODULE MCLedger ------------------------------
(* Small instances of Ledger for TLC.                                      *)
EXTENDS Ledger, TLC

CONSTANTS o1, o2, chk, crd, new1, new2, m1, m2, svc

MCOrg == {o1}
MCAccount == {chk, crd, new1, new2}
MCCaller == {m1, m2, svc}
MCAccountOrg == [a \in MCAccount |-> o1]
MCAccountType == [a \in MCAccount |-> IF a = crd THEN "credit" ELSE "checking"]

\* Two members of the organization, and a session whose token has no org claim.
MCClaimOf == [c \in Caller |-> IF c = svc THEN Null ELSE o1]
MCOpening == [a \in MCAccount |-> IF a = chk THEN 2 ELSE 0]
MCOpenAccounts == {chk, crd}
MCFreezable == {chk, new1}

Xfer(amount, source, dest, key) ==
    [org |-> o1, amount |-> amount, source |-> source, dest |-> dest, key |-> key]

\* Competing spends, opposite directions, a reused key, a withdrawal, and
\* the calls the CHECKs refuse.
MCTransfers ==
    {Xfer(1, chk, crd, "k"), Xfer(2, chk, new1, Null), Xfer(2, crd, chk, Null),
     Xfer(1, chk, Null, "k"), Xfer(1, crd, new1, Null),
     Xfer(0, chk, crd, Null)}

\* Three sessions with three claims, which can wait for one another in a ring.
RingOrg == {o1, o2}
RingClaimOf == [c \in MCCaller |-> CASE c = m1 -> o1 [] c = m2 -> o2 [] c = svc -> Null]
RingOpening == [a \in MCAccount |-> IF a \in {chk, new1} THEN 1 ELSE 0]
RingOpenAccounts == {chk, crd, new1}
RingFreezable == {}
RingTransfers ==
    {Xfer(1, chk, crd, Null), Xfer(1, crd, new1, "k"), Xfer(1, new1, chk, "k")}

(* 00005_financial_schema.sql:329: a call that repeats a committed key is  *)
(* answered with the existing transaction ("Return existing transaction"). *)
ReplayReturnsExisting ==
    [][\A c \in Caller :
        pc[c] = "idempotency" /\ Earlier(c) # {} => pc'[c] # "checkSource"]_vars

Members == Permutations({m1, m2})
=============================================================================
