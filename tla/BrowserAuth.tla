----------------------------- MODULE BrowserAuth -----------------------------
(***************************************************************************)
(* Browser logins, login tickets and Gateway grants of the service:        *)
(* internal/service/auth.go, with the places of server.go and              *)
(* configuration.go that revoke them.                                      *)
(*                                                                         *)
(* The tables are memory, guarded by Server.mu; a handler takes mu several *)
(* times, and between two of its sections any other request may run.  Only *)
(* management requests that change something also hold Server.opMu, from   *)
(* their authorization to their answer; logging in, logging out and using  *)
(* a ticket do not.                                                        *)
(*                                                                         *)
(* A session value or a ticket is 32 random bytes: an element of a finite  *)
(* set that is never drawn twice.  Every configured instance has a proxy.  *)
(***************************************************************************)
EXTENDS Naturals, FiniteSets

CONSTANTS
    Values,      \* session values randomToken may draw
    Tickets,     \* tickets randomToken may draw
    Gateways,    \* instance IDs
    Nobody,      \* the owner ""
    Manager,     \* the GatewayID "" of a manager login
    Absent,      \* the GatewayID of a table entry that is not there
    SessionTTL,  \* session_ttl_minutes
    TicketTTL,   \* a ticket's two minutes
    MaxNow,      \* bound: the clock stops here
    MaxEra       \* bound: how often a Gateway's grants are revoked

ASSUME NamesAssumption ==
    /\ Nobody \notin Values
    /\ Manager \notin Gateways /\ Absent \notin Gateways /\ Manager # Absent
    /\ Values \cap Tickets = {}
ASSUME TimesAssumption ==
    /\ SessionTTL \in Nat \ {0} /\ TicketTTL \in Nat \ {0}
    /\ MaxNow \in Nat /\ MaxEra \in Nat

VARIABLES
    now,        \* Server.now()
    sessions,   \* Server.sessions: manager logins and Gateway grants
    tickets,    \* Server.tickets
    configured, \* the instances of Server.config
    issuing,    \* the login-ticket request that holds opMu
    logins,     \* logins whose password is checked but which are not stored
    logouts,    \* logouts whose session is checked but not yet revoked
    era,        \* history: how often each Gateway's grants were revoked
    past        \* history: session values and tickets used so far

vars == <<now, sessions, tickets, configured, issuing, logins, logouts, era, past>>

Horizon == MaxNow + SessionTTL
Owners  == Values \cup {Nobody}
Session == [gateway: Gateways \cup {Manager, Absent}, owner: Owners,
            expires: 0..Horizon, era: 0..MaxEra]
Ticket  == [gateway: Gateways \cup {Absent}, owner: Owners, until: 0..Horizon,
            expires: 0..(MaxNow + TicketTTL), era: 0..MaxEra]
Login   == [value: Values, expires: 0..Horizon, old: Owners]
Issue   == [phase: {"none", "authorized", "owned"}, gateway: Gateways \cup {Absent},
            bearer: BOOLEAN, owner: Owners, until: 0..Horizon]

NoSession == [gateway |-> Absent, owner |-> Nobody, expires |-> 0, era |-> 0]
NoTicket  == [gateway |-> Absent, owner |-> Nobody, until |-> 0, expires |-> 0, era |-> 0]
NoIssue   == [phase |-> "none", gateway |-> Absent, bearer |-> FALSE,
              owner |-> Nobody, until |-> 0]

-----------------------------------------------------------------------------
(* The tables.                                                             *)

\* cleanupLocked
FreshSessions == [v \in Values |-> IF sessions[v].expires > now THEN sessions[v] ELSE NoSession]
FreshTickets  == [t \in Tickets |-> IF tickets[t].expires > now THEN tickets[t] ELSE NoTicket]

\* revokeManagerSessionLocked; there is no login Nobody.
WithoutOwner(table, v) ==
    [w \in Values |-> IF v # Nobody /\ (w = v \/ table[w].owner = v) THEN NoSession ELSE table[w]]
TicketsWithoutOwner(table, v) ==
    [t \in Tickets |-> IF v # Nobody /\ table[t].owner = v THEN NoTicket ELSE table[t]]

\* The revocation of applyConfig and of a Gateway's logout.
WithoutGateways(revoked) ==
    [v \in Values |-> IF sessions[v].gateway \in revoked THEN NoSession ELSE sessions[v]]
TicketsWithoutGateways(revoked) ==
    [t \in Tickets |-> IF tickets[t].gateway \in revoked THEN NoTicket ELSE tickets[t]]

\* managerSession finds the cookie's login, once the tables are cleaned up.
SignedIn(v) == v \in Values /\ sessions[v].gateway = Manager /\ sessions[v].expires > now

OwnerValid(o) == o = Nobody \/ SignedIn(o)

\* What authorizedProxy demands of the cookie of gateway g.
Admits(v, g) ==
    /\ sessions[v].gateway = g
    /\ sessions[v].expires > now
    /\ OwnerValid(sessions[v].owner)

\* randomToken
Unused == Values \ (past \cup {l.value : l \in logins})

-----------------------------------------------------------------------------
Init ==
    /\ now = 0
    /\ sessions = [v \in Values |-> NoSession]
    /\ tickets = [t \in Tickets |-> NoTicket]
    /\ configured \in SUBSET Gateways
    /\ issuing = NoIssue
    /\ logins = {} /\ logouts = {}
    /\ era = [g \in Gateways |-> 0]
    /\ past = {}

Tick ==
    /\ now < MaxNow
    /\ now' = now + 1
    /\ UNCHANGED <<sessions, tickets, configured, issuing, logins, logouts, era, past>>

\* Any request that is only authorized cleans the tables up.
Cleanup ==
    /\ sessions' = FreshSessions
    /\ tickets' = FreshTickets

Browse ==
    /\ Cleanup
    /\ UNCHANGED <<now, configured, issuing, logins, logouts, era, past>>

\* POST /auth/v1/session up to its managerSession: the right password, a new
\* value, and the login the browser still has, if any.
LoginChecked(v, old) ==
    /\ v \in Unused
    /\ old = Nobody \/ SignedIn(old)
    /\ logins' = logins \cup {[value |-> v, expires |-> now + SessionTTL, old |-> old]}
    /\ Cleanup
    /\ UNCHANGED <<now, configured, issuing, logouts, era, past>>

LoginStored(l) ==
    /\ logins' = logins \ {l}
    /\ sessions' = [WithoutOwner(FreshSessions, l.old) EXCEPT ![l.value] =
                       [gateway |-> Manager, owner |-> Nobody, expires |-> l.expires, era |-> 0]]
    /\ tickets' = TicketsWithoutOwner(FreshTickets, l.old)
    /\ past' = past \cup {l.value}
    /\ UNCHANGED <<now, configured, issuing, logouts, era>>

\* DELETE /auth/v1/session takes mu once to find the session and once more to
\* revoke it and what it owns.
LogoutChecked(v) ==
    /\ SignedIn(v)
    /\ logouts' = logouts \cup {v}
    /\ Cleanup
    /\ UNCHANGED <<now, configured, issuing, logins, era, past>>

LogoutDone(v) ==
    /\ logouts' = logouts \ {v}
    /\ sessions' = WithoutOwner(sessions, v)
    /\ tickets' = TicketsWithoutOwner(tickets, v)
    /\ UNCHANGED <<now, configured, issuing, logins, era, past>>

\* POST login-ticket: serveManagement takes opMu and authorizes the request by
\* the API token, without looking at the cookie, or by the cookie, which holds
\* a value handed out once or none.
IssueBegins(g, cookie, bearer) ==
    /\ issuing = NoIssue
    /\ g \in configured
    /\ cookie \in past \cup {Nobody}
    /\ bearer \/ SignedIn(cookie)
    /\ issuing' = [phase |-> "authorized", gateway |-> g, bearer |-> bearer,
                   owner |-> cookie, until |-> 0]
    /\ IF bearer THEN UNCHANGED <<sessions, tickets>> ELSE Cleanup
    /\ UNCHANGED <<now, configured, logins, logouts, era, past>>

\* Fault: a grant gets a whole session time of its own.
IssueRenewed ==
    /\ issuing.phase = "authorized"
    /\ SignedIn(issuing.owner)
    /\ issuing' = [issuing EXCEPT !.phase = "owned",
                                  !.until = sessions[issuing.owner].expires + SessionTTL]
    /\ Cleanup
    /\ UNCHANGED <<now, configured, logins, logouts, era, past>>

\* issueLoginTicket looks the login up again: it owns the ticket and bounds it.
\* A login gone since leaves an API request without an owner, and refuses a
\* browser.
IssueOwned ==
    /\ issuing.phase = "authorized"
    /\ issuing' = IF SignedIn(issuing.owner)
                  THEN [issuing EXCEPT !.phase = "owned", !.until = sessions[issuing.owner].expires]
                  ELSE IF issuing.bearer
                  THEN [issuing EXCEPT !.phase = "owned", !.owner = Nobody, !.until = now + SessionTTL]
                  ELSE NoIssue
    /\ Cleanup
    /\ UNCHANGED <<now, configured, logins, logouts, era, past>>

IssueStored(t) ==
    /\ issuing.phase = "owned"
    /\ t \notin past /\ tickets[t] = NoTicket
    /\ tickets' = [FreshTickets EXCEPT ![t] =
                      [gateway |-> issuing.gateway, owner |-> issuing.owner,
                       until |-> issuing.until, expires |-> now + TicketTTL,
                       era |-> era[issuing.gateway]]]
    /\ sessions' = FreshSessions
    /\ issuing' = NoIssue
    /\ UNCHANGED <<now, configured, logins, logouts, era, past>>

\* Fault: the owner of the ticket is not looked at.
RedeemableUnowned(t, g) ==
    /\ tickets[t].expires > now
    /\ tickets[t].gateway = g
    /\ tickets[t].until > now

Redeemable(t, g) ==
    /\ tickets[t].expires > now
    /\ tickets[t].gateway = g
    /\ OwnerValid(tickets[t].owner)
    /\ tickets[t].until > now

Opened(t) == [gateway |-> tickets[t].gateway, owner |-> tickets[t].owner,
              expires |-> tickets[t].until, era |-> tickets[t].era]

\* Fault: only a ticket that is refused is thrown away.
RedeemAgain(t, g) ==
    /\ tickets[t] # NoTicket
    /\ Redeemable(t, g)
    /\ \E v \in Unused :
           /\ sessions' = [sessions EXCEPT ![v] = Opened(t)]
           /\ past' = past \cup {v, t}
    /\ UNCHANGED <<now, tickets, configured, issuing, logins, logouts, era>>

\* A browser presents a ticket at the origin of gateway g (consumeTicket): it
\* is gone whatever comes of it.
Redeem(t, g) ==
    /\ tickets[t] # NoTicket
    /\ tickets' = [tickets EXCEPT ![t] = NoTicket]
    /\ \/ /\ Redeemable(t, g)
          /\ \E v \in Unused :
                 /\ sessions' = [sessions EXCEPT ![v] = Opened(t)]
                 /\ past' = past \cup {v, t}
       \/ /\ ~Redeemable(t, g)
          /\ past' = past \cup {t}
          /\ UNCHANGED sessions
    /\ UNCHANGED <<now, configured, issuing, logins, logouts, era>>

\* The management logout of gateway g ends its grants whatever IBKR answered.
GatewayLogout(g) ==
    /\ issuing = NoIssue
    /\ g \in configured
    /\ era[g] < MaxEra
    /\ era' = [era EXCEPT ![g] = @ + 1]
    /\ sessions' = WithoutGateways({g})
    /\ tickets' = TicketsWithoutGateways({g})
    /\ UNCHANGED <<now, configured, issuing, logins, logouts, past>>

\* Fault: a rotated credential ends the grants but not the tickets.
ReconfigureKeepingTickets(next, rotated) ==
    /\ issuing = NoIssue
    /\ LET lost == (configured \ next) \cup rotated
       IN  /\ \A g \in lost : era[g] < MaxEra
           /\ era' = [g \in Gateways |-> IF g \in lost THEN era[g] + 1 ELSE era[g]]
           /\ sessions' = WithoutGateways(lost \cup (Gateways \ configured))
    /\ configured' = next
    /\ UNCHANGED <<now, tickets, issuing, logins, logouts, past>>

\* The publication of applyConfig: grants do not survive the removal of their
\* Gateway or the rotation of its proxy token.
Reconfigure(next, rotated) ==
    /\ issuing = NoIssue
    /\ LET lost    == (configured \ next) \cup rotated
           revoked == lost \cup (Gateways \ configured)
       IN  /\ \A g \in lost : era[g] < MaxEra
           /\ era' = [g \in Gateways |-> IF g \in lost THEN era[g] + 1 ELSE era[g]]
           /\ sessions' = WithoutGateways(revoked)
           /\ tickets' = TicketsWithoutGateways(revoked)
    /\ configured' = next
    /\ UNCHANGED <<now, issuing, logins, logouts, past>>

\* The manager is restarted: its tables and the requests in progress are gone.
NewServer ==
    /\ sessions' = [v \in Values |-> NoSession]
    /\ tickets' = [t \in Tickets |-> NoTicket]
    /\ issuing' = NoIssue
    /\ logins' = {} /\ logouts' = {}
    /\ past' = past \cup {l.value : l \in logins}
                    \cup {t \in Tickets : tickets[t] # NoTicket}
    /\ UNCHANGED <<now, configured, era>>

Next ==
    \/ Tick
    \/ Browse
    \/ \E v \in Values : \E old \in Owners : LoginChecked(v, old)
    \/ \E l \in logins : LoginStored(l)
    \/ \E v \in Values : LogoutChecked(v)
    \/ \E v \in logouts : LogoutDone(v)
    \/ \E g \in Gateways : \E cookie \in Owners : \E bearer \in BOOLEAN :
           IssueBegins(g, cookie, bearer)
    \/ IssueOwned
    \/ \E t \in Tickets : IssueStored(t)
    \/ \E t \in Tickets : \E g \in Gateways : Redeem(t, g)
    \/ \E g \in Gateways : GatewayLogout(g)
    \/ \E next \in SUBSET Gateways : \E rotated \in SUBSET (configured \cap next) :
           Reconfigure(next, rotated)
    \/ NewServer

Spec == Init /\ [][Next]_vars

-----------------------------------------------------------------------------
(* Properties.                                                             *)

TypeOK ==
    /\ now \in 0..MaxNow
    /\ sessions \in [Values -> Session]
    /\ tickets \in [Tickets -> Ticket]
    /\ configured \subseteq Gateways
    /\ issuing \in Issue
    /\ logins \subseteq Login
    /\ logouts \subseteq Values
    /\ era \in [Gateways -> 0..MaxEra]
    /\ past \subseteq Values \cup Tickets

\* Every grant in the table has its manager login beside it, ending at the same
\* instant, even where a ticket was issued while its owner logged out, or was
\* used while another request cleaned up (auth.go:183).
GrantsAreOwned ==
    \A v \in Values : sessions[v].owner # Nobody =>
        /\ sessions[sessions[v].owner].gateway = Manager
        /\ sessions[sessions[v].owner].expires = sessions[v].expires

\* No grant and no ticket in the tables was issued before the last logout,
\* removal or credential rotation of its Gateway (configuration.go:262,
\* server.go:279), although tickets are used without opMu.
RevokedStaysRevoked ==
    /\ \A v \in Values : sessions[v].gateway \in Gateways =>
           /\ sessions[v].gateway \in configured
           /\ sessions[v].era = era[sessions[v].gateway]
    /\ \A t \in Tickets : tickets[t].gateway \in Gateways =>
           /\ tickets[t].gateway \in configured
           /\ tickets[t].era = era[tickets[t].gateway]

\* What authorizedManagement and authorizedProxy let through is access as
\* BrowserGrants describes it: under a login in force, once per ticket, and
\* never again after its end.
Granted == {[value |-> v, login |-> sessions[v].owner, gateway |-> sessions[v].gateway] :
                v \in {w \in Values : \E g \in Gateways : Admits(w, g)}}
Access == INSTANCE BrowserGrants
    WITH open <- {v \in Values : SignedIn(v)}, grants <- Granted
GrantsAsPromised == Access!Spec
==============================================================================
