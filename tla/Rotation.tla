------------------------------ MODULE Rotation ------------------------------
(***************************************************************************)
(* What a client may rely on of refresh tokens, with no statements and no  *)
(* ports: a token is live, then spent, and never live again; a live token  *)
(* is claimed by a party that presents it, and the claim is traded for one *)
(* new token, once the old one is spent.  Sessions (AuthService) and       *)
(* UseCases (RefreshTokenUseCase) are both shown to implement it.          *)
(***************************************************************************)
CONSTANTS
    Token,
    Party,      \* those that present tokens
    None        \* no token

VARIABLES
    state,      \* each token: "unissued", "live" or "spent"
    parent,     \* the token each was traded for, None after a login
    claim,      \* the token each party may trade in, or None
    rivals      \* tokens two parties have claimed at the same time

rvars == <<state, parent, claim, rivals>>

Init ==
    /\ state = [t \in Token |-> "unissued"]
    /\ parent = [t \in Token |-> None]
    /\ claim = [p \in Party |-> None]
    /\ rivals = {}

Issued(t, from) ==
    /\ state[t] = "unissued"
    /\ state' = [state EXCEPT ![t] = "live"]
    /\ parent' = [parent EXCEPT ![t] = from]
    /\ UNCHANGED rivals

Login(t) == Issued(t, None) /\ UNCHANGED claim

\* Only a live token can be claimed.
Claim(p, t) ==
    /\ claim[p] = None
    /\ state[t] = "live"
    /\ claim' = [claim EXCEPT ![p] = t]
    /\ rivals' = IF \E q \in Party : claim[q] = t THEN rivals \cup {t} ELSE rivals
    /\ UNCHANGED <<state, parent>>

\* A trade, a logout, or the revocation of several tokens at once.
Spend ==
    /\ UNCHANGED <<parent, claim, rivals>>
    /\ \E S \in SUBSET {t \in Token : state[t] = "live"} :
           state' = [t \in Token |-> IF t \in S THEN "spent" ELSE state[t]]

\* The old token is spent by now, and has bought nothing else but by a rival.
Trade(p, t) ==
    /\ claim[p] # None
    /\ state[claim[p]] = "spent"
    /\ claim[p] \in rivals \/ \A u \in Token : parent[u] # claim[p]
    /\ Issued(t, claim[p])
    /\ claim' = [claim EXCEPT ![p] = None]

\* The claim ends with nothing: a refusal, or a crash.
Forfeit(p) ==
    /\ claim' = [claim EXCEPT ![p] = None]
    /\ UNCHANGED <<state, parent, rivals>>

Next ==
    \/ \E p \in Party : Forfeit(p)
    \/ \E p \in Party, t \in Token : Claim(p, t) \/ Trade(p, t)
    \/ \E t \in Token : Login(t)
    \/ Spend

Spec == Init /\ [][Next]_rvars
=============================================================================
