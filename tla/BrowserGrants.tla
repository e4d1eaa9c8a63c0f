---------------------------- MODULE BrowserGrants ----------------------------
(***************************************************************************)
(* What the manager promises about browser access, independent of how it   *)
(* keeps it: a manager login, and the grants to single Gateways opened     *)
(* under it.  "A gateway browser grant cannot outlive or survive logout of *)
(* its manager login" (internal/service/auth.go:183).  A ticket opens at   *)
(* most one grant and nothing that ended begins again.                     *)
(***************************************************************************)
CONSTANTS
    Values,   \* session values the manager may draw
    Tickets,  \* login tickets
    Gateways, \* instances
    Nobody    \* the owner of a grant opened with the API token

VARIABLES
    open,     \* the manager logins in force
    grants,   \* the grants in force
    past      \* session values and tickets used so far

Grant == [value: Values, login: Values \cup {Nobody}, gateway: Gateways]

Init == open = {} /\ grants = {} /\ past = {}

Under(logins) == {x \in grants : x.login \in logins}

\* A login begins, perhaps in place of an earlier one.
SignIn(v, replaced) ==
    /\ v \notin past
    /\ past' = past \cup {v}
    /\ open' = (open \ replaced) \cup {v}
    /\ grants' = grants \ Under(replaced)

\* A login that was slow enough to have expired when it was stored.
SignInLate(v, replaced) ==
    /\ v \notin past
    /\ past' = past \cup {v}
    /\ open' = open \ replaced
    /\ grants' = grants \ Under(replaced)

\* Logins and grants end: signed out, expired, revoked, or with the manager.
\* Tickets may come to nothing.
End(logins, ended) ==
    /\ open' = open \ logins
    /\ grants' = grants \ (Under(logins) \cup ended)
    /\ past \subseteq past'
    /\ past' \subseteq Values \cup Tickets

\* A ticket opens a grant under a login in force.
Admit(x, t) ==
    /\ {x.value, t} \cap past = {}
    /\ x.login \in open \cup {Nobody}
    /\ grants' = grants \cup {x}
    /\ past' = past \cup {x.value, t}
    /\ UNCHANGED open

Next ==
    \/ \E v \in Values : \E replaced \in SUBSET open :
           SignIn(v, replaced) \/ SignInLate(v, replaced)
    \/ \E logins \in SUBSET open : \E ended \in SUBSET grants : End(logins, ended)
    \/ \E x \in Grant : \E t \in Tickets : Admit(x, t)

Spec == Init /\ [][Next]_<<open, grants, past>>
==============================================================================
