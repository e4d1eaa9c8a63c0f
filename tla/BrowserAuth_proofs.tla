------------------------- MODULE BrowserAuth_proofs -------------------------
(***************************************************************************)
(* The properties of BrowserAuth and its implementation of BrowserGrants,  *)
(* for every choice of the constants.                                      *)
(*                                                                         *)
(* The handlers give up mu between reading a login and writing what they   *)
(* derived from it.  AccessInvariant says what is still true of such a     *)
(* copy: a value is drawn once and names the same login for ever, so that  *)
(* a copied expiry is that of the login as long as there is one.           *)
(***************************************************************************)
EXTENDS BrowserAuth, TLAPS

\* A copy of a login's expiry: right while the login is in the table.
Copied(owner, until) ==
    owner # Nobody =>
        /\ owner \in past
        /\ sessions[owner].gateway = Manager => sessions[owner].expires = until

\* The value of a login that was found once: it may be gone, but is no grant.
OnceLogin(v) == v \in past /\ sessions[v].gateway \in {Manager, Absent}

\* Values in the table are drawn, only grants have owners.
SessionShape ==
    \A v \in Values :
        /\ sessions[v].gateway # Absent => v \in past
        /\ sessions[v].owner # Nobody => sessions[v].gateway \in Gateways

TicketShape ==
    \A t \in Tickets :
        /\ tickets[t] # NoTicket => t \notin past
        /\ Copied(tickets[t].owner, tickets[t].until)

\* A request for a ticket holds opMu: its Gateway stays configured.
IssueShape ==
    /\ issuing.phase # "none" => issuing.gateway \in configured
    /\ issuing.owner # Nobody => issuing.owner \in past
    /\ issuing.phase = "owned" => Copied(issuing.owner, issuing.until)

RequestShape ==
    /\ \A l \in logins : l.value \notin past /\ (l.old # Nobody => OnceLogin(l.old))
    /\ \A k, l \in logins : k.value = l.value => k = l
    /\ \A v \in logouts : OnceLogin(v)

AccessInvariant ==
    /\ SessionShape /\ TicketShape /\ IssueShape /\ RequestShape
    /\ GrantsAreOwned /\ RevokedStaysRevoked

-----------------------------------------------------------------------------
(* Types.                                                                  *)

\* A request in progress names a Gateway: the type invariant needs it for the
\* ticket that IssueStored writes.
Typed ==
    /\ TypeOK
    /\ issuing.phase # "none" => issuing.gateway \in Gateways

\* The entries that stand for none have the types of entries.
LEMMA EmptyEntries == NoSession \in Session /\ NoTicket \in Ticket /\ NoIssue \in Issue
  BY TimesAssumption, SMTT(30)
     DEF NoSession, NoTicket, NoIssue, Session, Ticket, Issue, Owners, Horizon

\* cleanupLocked and the revocations leave tables of the types they found.
LEMMA TablesTyped ==
    ASSUME TypeOK
    PROVE  /\ FreshSessions \in [Values -> Session]
           /\ FreshTickets \in [Tickets -> Ticket]
           /\ \A v, table : table \in [Values -> Session] => WithoutOwner(table, v) \in [Values -> Session]
           /\ \A v, table : table \in [Tickets -> Ticket] => TicketsWithoutOwner(table, v) \in [Tickets -> Ticket]
           /\ \A G : WithoutGateways(G) \in [Values -> Session]
           /\ \A G : TicketsWithoutGateways(G) \in [Tickets -> Ticket]
  <1>1. sessions \in [Values -> Session] /\ tickets \in [Tickets -> Ticket]
    BY DEF TypeOK
  <1> QED
    BY <1>1, EmptyEntries
       DEF FreshSessions, FreshTickets, WithoutOwner, TicketsWithoutOwner,
           WithoutGateways, TicketsWithoutGateways

\* Every step keeps the types; the bounds on the clock, on the times and on the
\* eras are what the guards of Tick, GatewayLogout and Reconfigure keep.
LEMMA TypedStep == Typed /\ [Next]_vars => Typed'
  <1> SUFFICES ASSUME Typed, [Next]_vars PROVE Typed'
    OBVIOUS
  <1> USE TimesAssumption, NamesAssumption, EmptyEntries
  <1>t. TypeOK
    BY DEF Typed
  <1>f. /\ FreshSessions \in [Values -> Session]
        /\ FreshTickets \in [Tickets -> Ticket]
        /\ \A v, table : table \in [Values -> Session] => WithoutOwner(table, v) \in [Values -> Session]
        /\ \A v, table : table \in [Tickets -> Ticket] => TicketsWithoutOwner(table, v) \in [Tickets -> Ticket]
        /\ \A G : WithoutGateways(G) \in [Values -> Session]
        /\ \A G : TicketsWithoutGateways(G) \in [Tickets -> Ticket]
    BY <1>t, TablesTyped
  <1>b. now + SessionTTL \in 0..Horizon /\ now + TicketTTL \in 0..(MaxNow + TicketTTL)
    BY <1>t DEF TypeOK, Horizon
  <1>1. CASE Tick
    BY <1>1 DEF Tick, Typed, TypeOK
  <1>2. CASE Browse
    BY <1>2, <1>f DEF Browse, Cleanup, Typed, TypeOK
  <1>3. ASSUME NEW v \in Values, NEW old \in Owners, LoginChecked(v, old) PROVE Typed'
    <2>1. [value |-> v, expires |-> now + SessionTTL, old |-> old] \in Login
      BY <1>b DEF Login
    <2> QED BY <1>3, <1>f, <2>1 DEF LoginChecked, Cleanup, Typed, TypeOK
  <1>4. ASSUME NEW l \in logins, LoginStored(l) PROVE Typed'
    <2>1. l \in Login
      BY <1>t DEF TypeOK
    <2>2. [gateway |-> Manager, owner |-> Nobody, expires |-> l.expires, era |-> 0] \in Session
      BY <2>1 DEF Login, Session, Owners
    <2>3. sessions' \in [Values -> Session] /\ tickets' \in [Tickets -> Ticket]
      BY <1>4, <1>f, <2>1, <2>2 DEF LoginStored, Login
    <2> QED BY <1>4, <2>1, <2>3 DEF LoginStored, Login, Typed, TypeOK
  <1>5. ASSUME NEW v \in Values, LogoutChecked(v) PROVE Typed'
    BY <1>5, <1>f DEF LogoutChecked, Cleanup, Typed, TypeOK
  <1>6. ASSUME NEW v \in logouts, LogoutDone(v) PROVE Typed'
    BY <1>6, <1>f DEF LogoutDone, Typed, TypeOK
  <1>7. ASSUME NEW g \in Gateways, NEW cookie \in Owners, NEW bearer \in BOOLEAN,
               IssueBegins(g, cookie, bearer)
        PROVE Typed'
    <2>1. issuing' \in Issue
      BY <1>7 DEF IssueBegins, Issue, Horizon
    <2>2. sessions' \in [Values -> Session] /\ tickets' \in [Tickets -> Ticket]
      BY <1>7, <1>t, <1>f DEF IssueBegins, Cleanup, TypeOK
    <2> QED BY <1>7, <2>1, <2>2 DEF IssueBegins, Typed, TypeOK
  <1>8. CASE IssueOwned
    <2>0. issuing \in Issue
      BY <1>t DEF TypeOK
    <2>1. SignedIn(issuing.owner) => sessions[issuing.owner].expires \in 0..Horizon
      BY <1>t DEF TypeOK, SignedIn, Session
    <2>2. issuing' \in Issue
      BY <1>8, <1>b, <2>0, <2>1 DEF IssueOwned, Issue, Owners
    <2>3. issuing'.phase # "none" => issuing'.gateway \in Gateways
      BY <1>8, <2>0 DEF IssueOwned, Issue, Typed, NoIssue
    <2> QED BY <1>8, <1>f, <2>2, <2>3 DEF IssueOwned, Cleanup, Typed, TypeOK
  <1>9. ASSUME NEW t \in Tickets, IssueStored(t) PROVE Typed'
    <2>1. /\ issuing \in Issue /\ issuing.gateway \in Gateways
          /\ era[issuing.gateway] \in 0..MaxEra
      BY <1>9, <1>t DEF Typed, TypeOK, IssueStored
    <2>2. [gateway |-> issuing.gateway, owner |-> issuing.owner,
           until |-> issuing.until, expires |-> now + TicketTTL,
           era |-> era[issuing.gateway]] \in Ticket
      BY <1>b, <2>1 DEF Issue, Ticket
    <2>3. tickets' \in [Tickets -> Ticket]
      BY <1>9, <1>f, <2>2 DEF IssueStored
    <2> QED BY <1>9, <1>f, <2>3 DEF IssueStored, Typed, TypeOK, NoIssue
  <1>10. ASSUME NEW t \in Tickets, NEW g \in Gateways, Redeem(t, g) PROVE Typed'
    <2>1. tickets \in [Tickets -> Ticket] /\ sessions \in [Values -> Session]
      BY <1>t DEF TypeOK
    <2>2. tickets' \in [Tickets -> Ticket]
      BY <1>10, <2>1 DEF Redeem
    <2>3. Opened(t) \in Session
      BY <2>1 DEF Opened, Session, Ticket
    <2>4. sessions' \in [Values -> Session] /\ past' \subseteq Values \cup Tickets
      BY <1>10, <1>t, <2>1, <2>3 DEF Redeem, Unused, TypeOK
    <2> QED BY <1>10, <2>2, <2>4 DEF Redeem, Typed, TypeOK
  <1>11. ASSUME NEW g \in Gateways, GatewayLogout(g) PROVE Typed'
    <2>1. era' \in [Gateways -> 0..MaxEra]
      BY <1>11, <1>t DEF GatewayLogout, TypeOK
    <2> QED BY <1>11, <1>f, <2>1 DEF GatewayLogout, Typed, TypeOK
  <1>12. ASSUME NEW next \in SUBSET Gateways, NEW rotated \in SUBSET (configured \cap next),
                Reconfigure(next, rotated)
         PROVE Typed'
    <2>1. era' \in [Gateways -> 0..MaxEra]
      BY <1>12, <1>t DEF Reconfigure, TypeOK
    <2> QED BY <1>12, <1>f, <2>1 DEF Reconfigure, Typed, TypeOK
  <1>13. CASE NewServer
    <2>1. {l.value : l \in logins} \subseteq Values
      BY <1>t DEF TypeOK, Login
    <2>2. past' \subseteq Values \cup Tickets
      BY <1>13, <1>t, <2>1 DEF NewServer, TypeOK
    <2> QED BY <1>13, <2>2 DEF NewServer, Typed, TypeOK, NoIssue
  <1>14. CASE UNCHANGED vars
    BY <1>14 DEF vars, Typed, TypeOK
  <1> QED
    BY <1>1, <1>2, <1>3, <1>4, <1>5, <1>6, <1>7, <1>8, <1>9, <1>10, <1>11, <1>12,
       <1>13, <1>14 DEF Next

\* The tables, the requests in progress and the histories stay in their types.
THEOREM AccessTyped == Spec => []TypeOK
  <1>1. Init => Typed
    BY TimesAssumption, EmptyEntries DEF Init, Typed, TypeOK, NoIssue
  <1>2. Typed => TypeOK
    BY DEF Typed
  <1> QED BY <1>1, <1>2, TypedStep, PTL DEF Spec

-----------------------------------------------------------------------------
(* The invariant.                                                          *)

AccessInv == Typed /\ AccessInvariant

\* A step that only takes entries away, and no login before its grants.
SessionsTrimmed ==
    /\ \A v \in Values : sessions'[v] = sessions[v] \/ sessions'[v] = NoSession
    /\ \A v \in Values : sessions'[v] # NoSession /\ sessions[v].owner # Nobody =>
           sessions'[sessions[v].owner] = sessions[sessions[v].owner]

Trimmed ==
    /\ SessionsTrimmed
    /\ \A t \in Tickets : tickets'[t] = tickets[t] \/ tickets'[t] = NoTicket

\* A grant's owner is the value of a login, and a login has no owner.
LEMMA OwnersAreLogins ==
    ASSUME AccessInv, NEW v \in Values, sessions[v].owner # Nobody
    PROVE  /\ sessions[v].owner \in Values
           /\ sessions[sessions[v].owner].gateway = Manager
           /\ sessions[sessions[v].owner].owner = Nobody
           /\ sessions[sessions[v].owner].expires = sessions[v].expires
           /\ sessions[v].gateway \in Gateways
           /\ sessions[v].owner \in past
  <1>1. sessions[v] \in Session
    BY DEF AccessInv, Typed, TypeOK
  <1>2. sessions[v].owner \in Values
    BY <1>1 DEF Session, Owners
  <1> QED
    BY <1>2, NamesAssumption DEF AccessInv, AccessInvariant, GrantsAreOwned, SessionShape

\* cleanupLocked forgets a login and its grants at the same instant.
LEMMA CleanupTrims ==
    ASSUME AccessInv, sessions' = FreshSessions PROVE SessionsTrimmed
  <1>1. \A v \in Values : sessions'[v] = IF sessions[v].expires > now THEN sessions[v] ELSE NoSession
    BY DEF FreshSessions
  <1>2. ASSUME NEW v \in Values, sessions'[v] # NoSession, sessions[v].owner # Nobody
        PROVE  sessions'[sessions[v].owner] = sessions[sessions[v].owner]
    BY <1>1, <1>2, OwnersAreLogins
  <1> QED BY <1>1, <1>2 DEF SessionsTrimmed

\* revokeManagerSessionLocked takes a login's grants with it; the revocation of
\* a Gateway's grants takes no login.
LEMMA RevocationTrims ==
    ASSUME AccessInv, NEW x \in Owners,
           \/ /\ sessions' = WithoutOwner(sessions, x)
              /\ tickets' = TicketsWithoutOwner(tickets, x)
           \/ \E G \in SUBSET Gateways :
                  /\ sessions' = WithoutGateways(G)
                  /\ tickets' = TicketsWithoutGateways(G)
    PROVE  Trimmed
  <1>1. CASE /\ sessions' = WithoutOwner(sessions, x)
             /\ tickets' = TicketsWithoutOwner(tickets, x)
    <2>1. \A v \in Values : sessions'[v] = IF x # Nobody /\ (v = x \/ sessions[v].owner = x)
                                           THEN NoSession ELSE sessions[v]
      BY <1>1 DEF WithoutOwner
    <2>2. ASSUME NEW v \in Values, sessions'[v] # NoSession, sessions[v].owner # Nobody
          PROVE  sessions'[sessions[v].owner] = sessions[sessions[v].owner]
      BY <2>1, <2>2, OwnersAreLogins
    <2>3. \A t \in Tickets : tickets'[t] = tickets[t] \/ tickets'[t] = NoTicket
      BY <1>1 DEF TicketsWithoutOwner
    <2> QED BY <2>1, <2>2, <2>3 DEF Trimmed, SessionsTrimmed
  <1>2. ASSUME NEW G \in SUBSET Gateways,
               sessions' = WithoutGateways(G), tickets' = TicketsWithoutGateways(G)
        PROVE  Trimmed
    <2>1. \A v \in Values : sessions'[v] = IF sessions[v].gateway \in G THEN NoSession ELSE sessions[v]
      BY <1>2 DEF WithoutGateways
    <2>2. ASSUME NEW v \in Values, sessions'[v] # NoSession, sessions[v].owner # Nobody
          PROVE  sessions'[sessions[v].owner] = sessions[sessions[v].owner]
      BY <2>1, <2>2, OwnersAreLogins, NamesAssumption
    <2>3. \A t \in Tickets : tickets'[t] = tickets[t] \/ tickets'[t] = NoTicket
      BY <1>2 DEF TicketsWithoutGateways
    <2> QED BY <2>1, <2>2, <2>3 DEF Trimmed, SessionsTrimmed
  <1> QED BY <1>1, <1>2

\* What a step that only takes sessions away keeps of the invariant, and of the
\* copies that tickets and requests in progress hold.
LEMMA SessionsTrimmedKeep ==
    ASSUME AccessInv, SessionsTrimmed, past \subseteq past'
    PROVE  /\ SessionShape' /\ GrantsAreOwned'
           /\ \A o \in Owners : \A u : Copied(o, u) => Copied(o, u)'
           /\ \A v \in Values : OnceLogin(v) => OnceLogin(v)'
           /\ issuing' = issuing /\ configured' = configured => IssueShape'
           /\ past' = past /\ logins' \subseteq logins /\ logouts' \subseteq logouts => RequestShape'
  <1> USE NamesAssumption DEF SessionsTrimmed
  <1>n. NoSession.gateway = Absent /\ NoSession.owner = Nobody
    BY DEF NoSession
  <1>1. SessionShape'
    BY <1>n DEF AccessInv, AccessInvariant, SessionShape
  <1>2. GrantsAreOwned'
    <2> SUFFICES ASSUME NEW v \in Values, sessions'[v].owner # Nobody
                 PROVE  /\ sessions'[sessions'[v].owner].gateway = Manager
                        /\ sessions'[sessions'[v].owner].expires = sessions'[v].expires
      BY DEF GrantsAreOwned
    <2>1. sessions'[v] = sessions[v] /\ sessions'[v] # NoSession
      BY <1>n
    <2> QED BY <2>1, OwnersAreLogins
  <1>3. ASSUME NEW o \in Owners, NEW u, Copied(o, u) PROVE Copied(o, u)'
    BY <1>3, <1>n DEF Copied, Owners
  <1>4. ASSUME NEW v \in Values, OnceLogin(v) PROVE OnceLogin(v)'
    BY <1>4, <1>n DEF OnceLogin
  <1>6. ASSUME issuing' = issuing, configured' = configured PROVE IssueShape'
    <2>1. issuing.owner \in Owners
      BY DEF AccessInv, Typed, TypeOK, Issue
    <2>2. IssueShape
      BY DEF AccessInv, AccessInvariant
    <2>3. issuing'.phase = "owned" => Copied(issuing.owner, issuing.until)'
      BY <1>6, <2>1, <2>2, <1>3 DEF IssueShape, Copied
    <2> QED BY <1>6, <2>2, <2>3 DEF IssueShape, Copied
  <1>7. ASSUME past' = past, logins' \subseteq logins, logouts' \subseteq logouts
        PROVE  RequestShape'
    <2>1. \A l \in logins : l.old \in Owners
      BY DEF AccessInv, Typed, TypeOK, Login
    <2>2. logouts \subseteq Values
      BY DEF AccessInv, Typed, TypeOK
    <2>3. RequestShape
      BY DEF AccessInv, AccessInvariant
    <2> QED BY <1>7, <2>1, <2>2, <2>3, <1>4 DEF RequestShape, Owners
  <1> QED BY <1>1, <1>2, <1>3, <1>4, <1>6, <1>7

\* The same for the tickets.
LEMMA TrimmedKeeps ==
    ASSUME AccessInv, Trimmed, past \subseteq past'
    PROVE  /\ past' = past => TicketShape'
           /\ configured' = configured /\ era' = era => RevokedStaysRevoked'
  <1>n. NoSession.gateway = Absent /\ NoSession.owner = Nobody
    BY DEF NoSession
  <1>3. \A o \in Owners : \A u : Copied(o, u) => Copied(o, u)'
    BY SessionsTrimmedKeep DEF Trimmed
  <1>m. NoTicket.owner = Nobody /\ NoTicket.gateway = Absent
    BY DEF NoTicket
  <1>5. ASSUME past' = past PROVE TicketShape'
    <2> SUFFICES ASSUME NEW t \in Tickets
                 PROVE  /\ tickets'[t] # NoTicket => t \notin past
                        /\ Copied(tickets[t].owner, tickets[t].until)'
      BY <1>5 DEF TicketShape
    <2>1. tickets'[t] = tickets[t] \/ tickets'[t] = NoTicket
      BY DEF Trimmed
    <2>2. tickets[t].owner \in Owners
      BY DEF AccessInv, Typed, TypeOK, Ticket
    <2>3. /\ tickets[t] # NoTicket => t \notin past
          /\ Copied(tickets[t].owner, tickets[t].until)
      BY DEF AccessInv, AccessInvariant, TicketShape
    <2>4. CASE tickets'[t] = NoTicket
      BY <2>4, <1>m DEF Copied
    <2>5. CASE tickets'[t] = tickets[t]
      BY <2>5, <2>2, <2>3, <1>3 DEF Copied
    <2> QED BY <2>1, <2>4, <2>5
  <1>8. ASSUME configured' = configured, era' = era PROVE RevokedStaysRevoked'
    <2>1. RevokedStaysRevoked
      BY DEF AccessInv, AccessInvariant
    <2> QED BY <1>8, <1>n, <1>m, <2>1, NamesAssumption DEF RevokedStaysRevoked, Trimmed, SessionsTrimmed
  <1> QED BY <1>5, <1>8

\* The steps that only take entries away, one after the other.
LEMMA TrimmingSteps ==
    ASSUME AccessInv,
           \/ Tick \/ Browse
           \/ \E v \in Values : \E old \in Owners : LoginChecked(v, old)
           \/ \E v \in Values : LogoutChecked(v)
           \/ \E v \in logouts : LogoutDone(v)
           \/ \E g \in Gateways : \E cookie \in Owners : \E bearer \in BOOLEAN :
                  IssueBegins(g, cookie, bearer)
           \/ IssueOwned
           \/ \E g \in Gateways : GatewayLogout(g)
           \/ \E next \in SUBSET Gateways : \E rotated \in SUBSET (configured \cap next) :
                  Reconfigure(next, rotated)
           \/ NewServer
           \/ UNCHANGED vars
    PROVE  Trimmed /\ past \subseteq past'
  <1>u. ASSUME UNCHANGED <<sessions, tickets>> PROVE Trimmed
    BY <1>u DEF Trimmed, SessionsTrimmed
  <1>c. ASSUME Cleanup PROVE Trimmed
    BY <1>c, CleanupTrims DEF Cleanup, Trimmed, FreshTickets
  <1>1. CASE Tick
    BY <1>1, <1>u DEF Tick
  <1>2. CASE Browse
    BY <1>2, <1>c DEF Browse
  <1>3. CASE \E v \in Values : \E old \in Owners : LoginChecked(v, old)
    BY <1>3, <1>c DEF LoginChecked
  <1>4. CASE \E v \in Values : LogoutChecked(v)
    BY <1>4, <1>c DEF LogoutChecked
  <1>5. ASSUME NEW v \in logouts, LogoutDone(v) PROVE Trimmed /\ past \subseteq past'
    <2>1. v \in Owners
      BY DEF AccessInv, Typed, TypeOK, Owners
    <2> QED BY <1>5, <2>1, RevocationTrims DEF LogoutDone
  <1>6. CASE \E g \in Gateways : \E cookie \in Owners : \E bearer \in BOOLEAN :
                 IssueBegins(g, cookie, bearer)
    BY <1>6, <1>u, <1>c DEF IssueBegins
  <1>7. CASE IssueOwned
    BY <1>7, <1>c DEF IssueOwned
  <1>8. ASSUME NEW g \in Gateways, GatewayLogout(g) PROVE Trimmed /\ past \subseteq past'
    <2>1. {g} \in SUBSET Gateways /\ Nobody \in Owners
      BY DEF Owners
    <2> QED BY <1>8, <2>1, RevocationTrims DEF GatewayLogout
  <1>9. ASSUME NEW next \in SUBSET Gateways, NEW rotated \in SUBSET (configured \cap next),
               Reconfigure(next, rotated)
        PROVE  Trimmed /\ past \subseteq past'
    <2>1. (((configured \ next) \cup rotated) \cup (Gateways \ configured)) \in SUBSET Gateways
      BY DEF AccessInv, Typed, TypeOK
    <2>2. Nobody \in Owners
      BY DEF Owners
    <2>3. \E G \in SUBSET Gateways :
              sessions' = WithoutGateways(G) /\ tickets' = TicketsWithoutGateways(G)
      BY <1>9, <2>1 DEF Reconfigure
    <2>4. Trimmed
      BY <2>2, <2>3, RevocationTrims
    <2> QED BY <1>9, <2>4 DEF Reconfigure
  <1>10. CASE NewServer
    BY <1>10 DEF NewServer, Trimmed, SessionsTrimmed
  <1>11. CASE UNCHANGED vars
    BY <1>11, <1>u DEF vars
  <1> QED
    BY <1>1, <1>2, <1>3, <1>4, <1>5, <1>6, <1>7, <1>8, <1>9, <1>10, <1>11

\* What the table holds once a login is stored: the new login, and what had not
\* expired and did not belong to the login it replaces.
LEMMA StoredTable ==
    ASSUME AccessInv, NEW l \in logins, LoginStored(l)
    PROVE  /\ l.value \in Values /\ l.old \in Owners /\ l.value \notin past
           /\ sessions[l.value].gateway = Absent /\ l.old # l.value
           /\ \A v \in Values \ {l.value} : sessions'[v] = sessions[v] \/ sessions'[v] = NoSession
           /\ \A v \in Values \ {l.value} : sessions'[v] # NoSession =>
                  sessions[v].expires > now /\ (l.old # Nobody => v # l.old /\ sessions[v].owner # l.old)
           /\ \A v \in Values \ {l.value} :
                  sessions[v].expires > now /\ (l.old # Nobody => v # l.old /\ sessions[v].owner # l.old)
                      => sessions'[v] = sessions[v]
           /\ sessions'[l.value] = [gateway |-> Manager, owner |-> Nobody, expires |-> l.expires, era |-> 0]
  <1> USE NamesAssumption
  <1>n. NoSession.gateway = Absent /\ NoSession.owner = Nobody
    BY DEF NoSession
  <1>t. l.value \in Values /\ l.old \in Owners
    BY DEF AccessInv, Typed, TypeOK, Login
  <1>d. l.value \notin past /\ sessions[l.value].gateway = Absent /\ l.old # l.value
    BY <1>t DEF AccessInv, AccessInvariant, RequestShape, SessionShape, OnceLogin
  <1> DEFINE S == WithoutOwner(FreshSessions, l.old)
  <1>1. \A v \in Values : S[v] = IF l.old # Nobody /\ (v = l.old \/ FreshSessions[v].owner = l.old)
                                 THEN NoSession ELSE FreshSessions[v]
    BY DEF WithoutOwner
  <1>2. \A v \in Values : FreshSessions[v] = IF sessions[v].expires > now THEN sessions[v] ELSE NoSession
    BY DEF FreshSessions
  <1>3. S \in [Values -> Session]
    BY TablesTyped DEF AccessInv, Typed
  <1>4. /\ \A v \in Values \ {l.value} : sessions'[v] = S[v]
        /\ sessions'[l.value] = [gateway |-> Manager, owner |-> Nobody, expires |-> l.expires, era |-> 0]
    BY <1>3, <1>t DEF LoginStored
  <1> HIDE DEF S
  <1> QED BY <1>1, <1>2, <1>4, <1>n, <1>t, <1>d

\* A login that is stored was nobody's owner and in nobody's hands before: its
\* value is drawn by one request and named by none until now.
LEMMA LoginStoredStep ==
    ASSUME AccessInv, NEW l \in logins, LoginStored(l) PROVE AccessInvariant'
  <1> USE NamesAssumption
  <1>n. NoSession.gateway = Absent /\ NoSession.owner = Nobody /\ NoTicket.owner = Nobody
        /\ NoTicket.gateway = Absent
    BY DEF NoSession, NoTicket
  <1>t. /\ l.value \in Values /\ l.old \in Owners
        /\ logins \subseteq Login /\ logouts \subseteq Values
        /\ \A v \in Values : sessions[v].owner \in Owners
        /\ \A t \in Tickets : tickets[t].owner \in Owners
    BY DEF AccessInv, Typed, TypeOK, Login, Session, Ticket
  <1>d. l.value \notin past /\ sessions[l.value].gateway = Absent /\ l.old # l.value
    BY StoredTable
  <1>s. /\ \A v \in Values \ {l.value} : sessions'[v] = sessions[v] \/ sessions'[v] = NoSession
        /\ \A v \in Values \ {l.value} : sessions'[v] # NoSession =>
               sessions[v].expires > now /\ (l.old # Nobody => v # l.old /\ sessions[v].owner # l.old)
        /\ \A v \in Values \ {l.value} :
               sessions[v].expires > now /\ (l.old # Nobody => v # l.old /\ sessions[v].owner # l.old)
                   => sessions'[v] = sessions[v]
        /\ sessions'[l.value] = [gateway |-> Manager, owner |-> Nobody, expires |-> l.expires, era |-> 0]
    BY StoredTable
  <1>k. \A t \in Tickets : tickets'[t] = tickets[t] \/ tickets'[t] = NoTicket
    BY DEF LoginStored, TicketsWithoutOwner, FreshTickets
  <1>p. past' = past \cup {l.value}
    BY DEF LoginStored
  <1>1. SessionShape'
    <2> SUFFICES ASSUME NEW v \in Values
                 PROVE  /\ sessions'[v].gateway # Absent => v \in past'
                        /\ sessions'[v].owner # Nobody => sessions'[v].gateway \in Gateways
      BY DEF SessionShape
    <2>1. CASE v = l.value
      BY <2>1, <1>s, <1>p
    <2>2. CASE v # l.value
      BY <2>2, <1>s, <1>p, <1>n DEF AccessInv, AccessInvariant, SessionShape
    <2> QED BY <2>1, <2>2
  <1>2. GrantsAreOwned'
    <2> SUFFICES ASSUME NEW v \in Values, sessions'[v].owner # Nobody
                 PROVE  /\ sessions'[sessions'[v].owner].gateway = Manager
                        /\ sessions'[sessions'[v].owner].expires = sessions'[v].expires
      BY DEF GrantsAreOwned
    <2>1. v # l.value /\ sessions'[v] = sessions[v] /\ sessions'[v] # NoSession
      BY <1>s, <1>n
    <2>2. /\ sessions[v].owner \in Values \ {l.value}
          /\ sessions[sessions[v].owner].owner = Nobody
          /\ sessions[sessions[v].owner].expires = sessions[v].expires
          /\ sessions[sessions[v].owner].gateway = Manager
      BY <2>1, <1>d, OwnersAreLogins
    <2>3. sessions'[sessions[v].owner] = sessions[sessions[v].owner]
      BY <2>1, <2>2, <1>s
    <2> QED BY <2>1, <2>2, <2>3
  <1>3. ASSUME NEW o \in Owners, NEW u, Copied(o, u) PROVE Copied(o, u)'
    BY <1>3, <1>n, <1>s, <1>d, <1>p DEF Copied, Owners
  <1>4. ASSUME NEW v \in Values, OnceLogin(v) PROVE OnceLogin(v)'
    BY <1>4, <1>n, <1>s, <1>d, <1>p DEF OnceLogin
  <1>5. TicketShape'
    <2> SUFFICES ASSUME NEW t \in Tickets
                 PROVE  /\ tickets'[t] # NoTicket => t \notin past'
                        /\ Copied(tickets[t].owner, tickets[t].until)'
      BY DEF TicketShape
    <2>1. /\ tickets[t] # NoTicket => t \notin past'
          /\ Copied(tickets[t].owner, tickets[t].until)
      BY <1>p, <1>t DEF AccessInv, AccessInvariant, TicketShape
    <2>2. CASE tickets'[t] = NoTicket
      BY <2>2, <1>n DEF Copied
    <2>3. CASE tickets'[t] = tickets[t]
      BY <2>1, <2>3, <1>t, <1>3 DEF Copied
    <2> QED BY <1>k, <2>1, <2>2, <2>3
  <1>6. IssueShape'
    <2>1. /\ issuing' = issuing /\ configured' = configured
          /\ issuing.owner \in Owners /\ IssueShape
      BY DEF LoginStored, AccessInv, AccessInvariant, Typed, TypeOK, Issue
    <2>2. issuing'.phase = "owned" => Copied(issuing.owner, issuing.until)'
      BY <2>1, <1>3 DEF IssueShape, Copied
    <2> QED BY <2>1, <2>2, <1>p DEF IssueShape, Copied
  <1>7. RequestShape'
    <2>1. RequestShape
      BY DEF AccessInv, AccessInvariant
    <2>2. logins' = logins \ {l} /\ logouts' = logouts
      BY DEF LoginStored
    <2>3. \A k \in logins' : k.value \notin past' /\ (k.old # Nobody => OnceLogin(k.old)')
      BY <2>1, <2>2, <1>4, <1>p, <1>t DEF RequestShape, Login, Owners
    <2> QED BY <2>1, <2>2, <2>3, <1>4, <1>t DEF RequestShape
  <1>8. RevokedStaysRevoked'
    <2>1. configured' = configured /\ era' = era /\ RevokedStaysRevoked
      BY DEF LoginStored, AccessInv, AccessInvariant
    <2>2. \A v \in Values : sessions'[v].gateway \in Gateways =>
              v # l.value /\ sessions'[v] = sessions[v]
      BY <1>s, <1>n
    <2> QED BY <2>1, <2>2, <1>k, <1>n DEF RevokedStaysRevoked
  <1> QED BY <1>1, <1>2, <1>5, <1>6, <1>7, <1>8 DEF AccessInvariant

\* The ticket that is stored names a configured Gateway, in its present era, and
\* the login that its request saw, whatever became of that login since.
LEMMA IssueStoredStep ==
    ASSUME AccessInv, NEW t \in Tickets, IssueStored(t) PROVE AccessInvariant'
  <1>a. /\ issuing' = NoIssue /\ sessions' = FreshSessions
        /\ UNCHANGED <<configured, logins, logouts, era, past>>
        /\ issuing.phase = "owned" /\ t \notin past
    BY DEF IssueStored
  <1>b. SessionsTrimmed
    BY <1>a, CleanupTrims
  <1>c. /\ SessionShape' /\ GrantsAreOwned' /\ RequestShape'
        /\ \A o \in Owners : \A u : Copied(o, u) => Copied(o, u)'
    BY <1>a, <1>b, SessionsTrimmedKeep
  <1>i. IssueShape /\ TicketShape /\ RevokedStaysRevoked
    BY DEF AccessInv, AccessInvariant
  <1>n. /\ NoSession.gateway = Absent /\ NoTicket.gateway = Absent /\ NoTicket.owner = Nobody
        /\ NoIssue.phase = "none" /\ NoIssue.owner = Nobody
    BY DEF NoSession, NoTicket, NoIssue
  <1>s. /\ tickets'[t] = [gateway |-> issuing.gateway, owner |-> issuing.owner,
                          until |-> issuing.until, expires |-> now + TicketTTL,
                          era |-> era[issuing.gateway]]
        /\ \A u \in Tickets \ {t} : tickets'[u] = tickets[u] \/ tickets'[u] = NoTicket
    BY DEF IssueStored, FreshTickets
  <1>1. IssueShape'
    BY <1>a, <1>n DEF IssueShape, Copied
  <1>2. TicketShape'
    <2> SUFFICES ASSUME NEW u \in Tickets
                 PROVE  /\ tickets'[u] # NoTicket => u \notin past'
                        /\ Copied(tickets[u].owner, tickets[u].until)'
      BY DEF TicketShape
    <2>1. CASE u = t
      <3>1. issuing.owner \in Owners /\ Copied(issuing.owner, issuing.until)
        BY <1>a, <1>i DEF IssueShape, AccessInv, Typed, TypeOK, Issue
      <3>2. tickets'[u].owner = issuing.owner /\ tickets'[u].until = issuing.until
        BY <2>1, <1>s
      <3> QED BY <2>1, <3>1, <3>2, <1>a, <1>c DEF Copied
    <2>2. CASE u # t /\ tickets'[u] = tickets[u]
      <3>1. tickets[u].owner \in Owners
        BY DEF AccessInv, Typed, TypeOK, Ticket
      <3> QED BY <2>2, <3>1, <1>i, <1>a, <1>c DEF TicketShape, Copied
    <2>3. CASE u # t /\ tickets'[u] = NoTicket
      BY <2>3, <1>n DEF Copied
    <2> QED BY <2>1, <2>2, <2>3, <1>s
  <1>3. RevokedStaysRevoked'
    BY <1>a, <1>b, <1>i, <1>n, <1>s, NamesAssumption
       DEF RevokedStaysRevoked, SessionsTrimmed, IssueShape
  <1> QED BY <1>1, <1>2, <1>3, <1>c DEF AccessInvariant

\* A grant is bounded by the login it was copied from, which is still there, and
\* its value is nobody's yet.
LEMMA RedeemStep ==
    ASSUME AccessInv, NEW t \in Tickets, NEW g \in Gateways, Redeem(t, g) PROVE AccessInvariant'
  <1> USE NamesAssumption
  <1>a. /\ UNCHANGED <<configured, issuing, logins, logouts, era>>
        /\ tickets' = [tickets EXCEPT ![t] = NoTicket]
    BY DEF Redeem
  <1>n. NoTicket.gateway = Absent /\ NoTicket.owner = Nobody
    BY DEF NoTicket
  <1>t. /\ sessions \in [Values -> Session] /\ tickets \in [Tickets -> Ticket]
        /\ \A u \in Tickets : tickets[u].owner \in Owners
        /\ \A v \in Values : sessions[v].owner \in Owners
        /\ logins \subseteq Login /\ logouts \subseteq Values /\ issuing.owner \in Owners
    BY DEF AccessInv, Typed, TypeOK, Ticket, Session, Issue
  <1>i. /\ SessionShape /\ TicketShape /\ IssueShape /\ RequestShape
        /\ GrantsAreOwned /\ RevokedStaysRevoked
    BY DEF AccessInv, AccessInvariant
  <1>k. \A u \in Tickets : tickets'[u] = IF u = t THEN NoTicket ELSE tickets[u]
    BY <1>a, <1>t
  <1>1. CASE past' = past \cup {t} /\ UNCHANGED sessions
    <2>1. \A l \in logins : l.value \in Values
      BY <1>t DEF Login
    <2>2. TicketShape'
      BY <1>1, <1>i, <1>k, <1>n DEF TicketShape, Copied
    <2>3. RequestShape'
      BY <1>1, <1>i, <1>a, <2>1 DEF RequestShape, OnceLogin
    <2>4. IssueShape'
      BY <1>1, <1>i, <1>a DEF IssueShape, Copied
    <2>5. SessionShape' /\ GrantsAreOwned'
      BY <1>1, <1>i DEF SessionShape, GrantsAreOwned
    <2>6. RevokedStaysRevoked'
      BY <1>1, <1>i, <1>a, <1>k, <1>n DEF RevokedStaysRevoked
    <2> QED BY <2>2, <2>3, <2>4, <2>5, <2>6 DEF AccessInvariant
  <1>2. ASSUME Redeemable(t, g), NEW v \in Unused,
               sessions' = [sessions EXCEPT ![v] = Opened(t)], past' = past \cup {v, t}
        PROVE  AccessInvariant'
    <2>v. v \in Values /\ v \notin past /\ \A l \in logins : l.value # v
      BY DEF Unused
    <2>l. \A l \in logins : l.value \in Values
      BY <1>t DEF Login
    <2>s. /\ sessions'[v] = [gateway |-> tickets[t].gateway, owner |-> tickets[t].owner,
                             expires |-> tickets[t].until, era |-> tickets[t].era]
          /\ \A w \in Values \ {v} : sessions'[w] = sessions[w]
          /\ sessions[v].gateway = Absent
      BY <2>v, <1>2, <1>t, <1>i DEF Opened, SessionShape
    <2>o. /\ tickets[t].gateway = g
          /\ tickets[t].owner # Nobody =>
                 /\ tickets[t].owner \in Values \ {v}
                 /\ sessions[tickets[t].owner].gateway = Manager
                 /\ sessions[tickets[t].owner].expires = tickets[t].until
      BY <1>2, <1>i, <2>v DEF Redeemable, OwnerValid, SignedIn, TicketShape, Copied
    <2>1. SessionShape'
      BY <1>2, <1>i, <2>s, <2>o DEF SessionShape
    <2>2. GrantsAreOwned'
      <3> SUFFICES ASSUME NEW w \in Values, sessions'[w].owner # Nobody
                   PROVE  /\ sessions'[sessions'[w].owner].gateway = Manager
                          /\ sessions'[sessions'[w].owner].expires = sessions'[w].expires
        BY DEF GrantsAreOwned
      <3>1. CASE w = v
        BY <3>1, <2>s, <2>o
      <3>2. CASE w # v
        <4>1. sessions'[w] = sessions[w] /\ sessions[w].owner # v /\ sessions[w].owner \in Values
          BY <3>2, <2>s, <2>v, OwnersAreLogins
        <4> QED BY <4>1, <2>s, OwnersAreLogins
      <3> QED BY <3>1, <3>2
    <2>3. ASSUME NEW o \in Owners, NEW u, Copied(o, u) PROVE Copied(o, u)'
      BY <2>3, <1>2, <2>v, <2>s DEF Copied, Owners
    <2>4. ASSUME NEW w \in Values, OnceLogin(w) PROVE OnceLogin(w)'
      BY <2>4, <1>2, <2>v, <2>s DEF OnceLogin
    <2>5. TicketShape'
      <3> SUFFICES ASSUME NEW u \in Tickets
                   PROVE  /\ tickets'[u] # NoTicket => u \notin past'
                          /\ Copied(tickets[u].owner, tickets[u].until)'
        BY DEF TicketShape
      <3>1. CASE u = t
        BY <3>1, <1>k, <1>n DEF Copied
      <3>2. CASE u # t
        BY <3>2, <1>k, <1>2, <1>i, <1>t, <2>v, <2>3 DEF TicketShape, Copied
      <3> QED BY <3>1, <3>2
    <2>6. IssueShape'
      <3>1. issuing'.phase = "owned" => Copied(issuing.owner, issuing.until)'
        BY <1>a, <1>i, <1>t, <2>3 DEF IssueShape, Copied
      <3> QED BY <3>1, <1>a, <1>2, <1>i DEF IssueShape, Copied
    <2>7. RequestShape'
      BY <1>a, <1>2, <1>i, <1>t, <2>v, <2>l, <2>4 DEF RequestShape, Login, Owners
    <2>8. RevokedStaysRevoked'
      BY <1>a, <1>i, <1>k, <1>n, <2>s DEF RevokedStaysRevoked
    <2> QED BY <2>1, <2>2, <2>5, <2>6, <2>7, <2>8 DEF AccessInvariant
  <1> QED BY <1>1, <1>2 DEF Redeem

\* Every step keeps the invariant.
LEMMA AccessStep == AccessInv /\ [Next]_vars => AccessInv'
  <1> SUFFICES ASSUME AccessInv, [Next]_vars PROVE AccessInvariant'
    BY TypedStep DEF AccessInv
  <1> USE NamesAssumption
  <1>i. /\ SessionShape /\ TicketShape /\ IssueShape /\ RequestShape
        /\ GrantsAreOwned /\ RevokedStaysRevoked
    BY DEF AccessInv, AccessInvariant
  <1>n. /\ NoSession.gateway = Absent /\ NoSession.owner = Nobody
        /\ NoTicket.gateway = Absent /\ NoTicket.owner = Nobody
        /\ NoIssue.phase = "none" /\ NoIssue.owner = Nobody
    BY DEF NoSession, NoTicket, NoIssue
  \* A step that only takes entries away and draws no value.
  <1>k. ASSUME Trimmed, past' = past
        PROVE  /\ SessionShape' /\ GrantsAreOwned' /\ TicketShape'
               /\ issuing' = issuing /\ configured' = configured => IssueShape'
               /\ logins' \subseteq logins /\ logouts' \subseteq logouts => RequestShape'
               /\ configured' = configured /\ era' = era => RevokedStaysRevoked'
               /\ \A o \in Owners : \A u : Copied(o, u) => Copied(o, u)'
               /\ \A v \in Values : OnceLogin(v) => OnceLogin(v)'
    BY <1>k, TrimmedKeeps, SessionsTrimmedKeep DEF Trimmed
  <1>1. CASE Tick \/ Browse \/ UNCHANGED vars
    <2>1. Trimmed
      BY <1>1, TrimmingSteps
    <2> QED BY <1>1, <2>1, <1>k DEF Tick, Browse, vars, AccessInvariant
  <1>2. ASSUME NEW v \in Values, NEW old \in Owners, LoginChecked(v, old) PROVE AccessInvariant'
    <2>1. Trimmed
      BY <1>2, TrimmingSteps
    <2>2. \A l \in logins : l.value # v /\ l.old \in Owners
      BY <1>2 DEF LoginChecked, Unused, AccessInv, Typed, TypeOK, Login
    <2>3. old # Nobody => old \in Values /\ OnceLogin(old)
      BY <1>2, <1>i DEF LoginChecked, SignedIn, OnceLogin, SessionShape
    <2>4. v \notin past
      BY <1>2 DEF LoginChecked, Unused
    <2>5. \A x \in Values : OnceLogin(x) => OnceLogin(x)'
      BY <1>2, <2>1, <1>k DEF LoginChecked
    <2>6. RequestShape'
      <3>1. \A l \in logins' : l = [value |-> v, expires |-> now + SessionTTL, old |-> old] \/ l \in logins
        BY <1>2 DEF LoginChecked
      <3>2. \A l \in logins' : l.value \notin past /\ (l.old # Nobody => OnceLogin(l.old)')
        BY <3>1, <1>i, <2>2, <2>3, <2>4, <2>5 DEF RequestShape, Owners
      <3>3. \A k, l \in logins' : k.value = l.value => k = l
        BY <3>1, <1>i, <2>2 DEF RequestShape
      <3>4. \A x \in logouts : OnceLogin(x)'
        BY <1>i, <2>5 DEF RequestShape, AccessInv, Typed, TypeOK
      <3>5. past' = past /\ logouts' = logouts
        BY <1>2 DEF LoginChecked
      <3> QED BY <3>2, <3>3, <3>4, <3>5 DEF RequestShape
    <2> QED BY <1>2, <2>1, <2>6, <1>k DEF LoginChecked, AccessInvariant
  <1>3. CASE \E l \in logins : LoginStored(l)
    BY <1>3, LoginStoredStep
  <1>4. ASSUME NEW v \in Values, LogoutChecked(v) PROVE AccessInvariant'
    <2>1. Trimmed /\ past' = past
      BY <1>4, TrimmingSteps DEF LogoutChecked
    <2>2. OnceLogin(v)
      BY <1>4, <1>i DEF LogoutChecked, SignedIn, OnceLogin, SessionShape
    <2>3. RequestShape'
      <3>1. \A x \in logouts' : OnceLogin(x)'
        BY <1>4, <1>i, <2>1, <2>2, <1>k DEF LogoutChecked, RequestShape, AccessInv, Typed, TypeOK
      <3>2. \A l \in logins : l.old \in Owners
        BY DEF AccessInv, Typed, TypeOK, Login
      <3> QED BY <1>4, <1>i, <1>k, <2>1, <3>1, <3>2 DEF LogoutChecked, RequestShape, Owners
    <2> QED BY <1>4, <2>1, <2>3, <1>k DEF LogoutChecked, AccessInvariant
  <1>5. ASSUME NEW v \in logouts, LogoutDone(v) PROVE AccessInvariant'
    <2>1. Trimmed /\ past' = past
      BY <1>5, TrimmingSteps DEF LogoutDone
    <2> QED BY <1>5, <2>1, <1>k DEF LogoutDone, AccessInvariant
  <1>6. ASSUME NEW g \in Gateways, NEW cookie \in Owners, NEW bearer \in BOOLEAN,
               IssueBegins(g, cookie, bearer)
        PROVE AccessInvariant'
    <2>1. Trimmed /\ past' = past
      BY <1>6, TrimmingSteps DEF IssueBegins
    <2>2. IssueShape'
      BY <1>6 DEF IssueBegins, IssueShape
    <2> QED BY <1>6, <2>1, <2>2, <1>k DEF IssueBegins, AccessInvariant
  <1>7. CASE IssueOwned
    <2>1. Trimmed /\ past' = past
      BY <1>7, TrimmingSteps DEF IssueOwned
    <2>2. issuing \in Issue
      BY DEF AccessInv, Typed, TypeOK
    <2>3. IssueShape'
      <3>1. CASE SignedIn(issuing.owner)
        <4>1. /\ issuing'.phase = "owned" /\ issuing'.gateway = issuing.gateway
              /\ issuing'.owner = issuing.owner
              /\ issuing'.until = sessions[issuing.owner].expires
          BY <1>7, <2>2, <3>1 DEF IssueOwned, Issue
        <4>2. issuing.owner \in Values /\ issuing.owner \in past
          BY <3>1, <1>i DEF SignedIn, IssueShape
        <4>3. Copied(issuing.owner, sessions[issuing.owner].expires)
          BY <4>2 DEF Copied
        <4>4. issuing.phase # "none" /\ configured' = configured
          BY <1>7 DEF IssueOwned
        <4>5. sessions'[issuing.owner].gateway = Manager =>
                  sessions'[issuing.owner].expires = sessions[issuing.owner].expires
          BY <2>1, <4>2, <1>n DEF Trimmed, SessionsTrimmed
        <4> QED BY <2>1, <4>1, <4>2, <4>4, <4>5, <1>i DEF IssueShape, Copied
      <3>2. CASE ~SignedIn(issuing.owner) /\ issuing.bearer
        <4>1. /\ issuing'.gateway = issuing.gateway /\ issuing'.owner = Nobody
              /\ issuing.phase # "none" /\ configured' = configured
          BY <1>7, <2>2, <3>2 DEF IssueOwned, Issue
        <4> QED BY <4>1, <1>i DEF IssueShape, Copied
      <3>3. CASE ~SignedIn(issuing.owner) /\ ~issuing.bearer
        <4>1. issuing' = NoIssue
          BY <1>7, <3>3 DEF IssueOwned
        <4> QED BY <4>1, <1>n DEF IssueShape, Copied
      <3> QED BY <3>1, <3>2, <3>3
    <2> QED BY <1>7, <2>1, <2>3, <1>k DEF IssueOwned, AccessInvariant
  <1>8. CASE \E t \in Tickets : IssueStored(t)
    BY <1>8, IssueStoredStep
  <1>9. CASE \E t \in Tickets : \E g \in Gateways : Redeem(t, g)
    BY <1>9, RedeemStep
  <1>10. ASSUME NEW g \in Gateways, GatewayLogout(g) PROVE AccessInvariant'
    <2>1. Trimmed /\ past' = past
      BY <1>10, TrimmingSteps DEF GatewayLogout
    <2>2. /\ \A v \in Values : sessions'[v].gateway \in Gateways =>
                 sessions'[v] = sessions[v] /\ sessions[v].gateway # g
          /\ \A t \in Tickets : tickets'[t].gateway \in Gateways =>
                 tickets'[t] = tickets[t] /\ tickets[t].gateway # g
      BY <1>10, <1>n DEF GatewayLogout, WithoutGateways, TicketsWithoutGateways
    <2>3. /\ configured' = configured
          /\ \A h \in Gateways \ {g} : era'[h] = era[h]
      BY <1>10 DEF GatewayLogout, AccessInv, Typed, TypeOK
    <2>4. RevokedStaysRevoked'
      BY <2>2, <2>3, <1>i DEF RevokedStaysRevoked
    <2> QED BY <1>10, <2>1, <2>4, <1>k DEF GatewayLogout, AccessInvariant
  <1>11. ASSUME NEW next \in SUBSET Gateways, NEW rotated \in SUBSET (configured \cap next),
                Reconfigure(next, rotated)
         PROVE AccessInvariant'
    <2>1. Trimmed /\ past' = past
      BY <1>11, TrimmingSteps DEF Reconfigure
    <2> DEFINE lost == (configured \ next) \cup rotated
    <2>2. /\ \A v \in Values : sessions'[v].gateway \in Gateways =>
                 /\ sessions'[v] = sessions[v]
                 /\ sessions[v].gateway \notin lost /\ sessions[v].gateway \in configured
          /\ \A t \in Tickets : tickets'[t].gateway \in Gateways =>
                 /\ tickets'[t] = tickets[t]
                 /\ tickets[t].gateway \notin lost /\ tickets[t].gateway \in configured
      BY <1>11, <1>n DEF Reconfigure, WithoutGateways, TicketsWithoutGateways
    <2>3. /\ configured' = next
          /\ \A h \in Gateways \ lost : era'[h] = era[h]
      BY <1>11 DEF Reconfigure
    <2>4. RevokedStaysRevoked'
      BY <2>2, <2>3, <1>i DEF RevokedStaysRevoked
    <2>5. IssueShape'
      BY <1>11, <1>n DEF Reconfigure, IssueShape, Copied
    <2> QED BY <1>11, <2>1, <2>4, <2>5, <1>k DEF Reconfigure, AccessInvariant
  <1>12. CASE NewServer
    <2>1. /\ \A v \in Values : sessions'[v] = NoSession
          /\ \A t \in Tickets : tickets'[t] = NoTicket
          /\ issuing' = NoIssue /\ logins' = {} /\ logouts' = {}
      BY <1>12 DEF NewServer
    <2> QED BY <2>1, <1>n DEF AccessInvariant, SessionShape, TicketShape, IssueShape, RequestShape,
                              GrantsAreOwned, RevokedStaysRevoked, Copied
  <1> QED
    BY <1>1, <1>2, <1>3, <1>4, <1>5, <1>6, <1>7, <1>8, <1>9, <1>10, <1>11, <1>12 DEF Next

\* The manager starts with empty tables.
LEMMA AccessInit == Init => AccessInv
  <1> SUFFICES ASSUME Init PROVE AccessInv
    OBVIOUS
  <1>1. Typed
    BY TimesAssumption, EmptyEntries DEF Init, Typed, TypeOK, NoIssue
  <1>2. /\ NoSession.gateway = Absent /\ NoSession.owner = Nobody
        /\ NoTicket.gateway = Absent /\ NoTicket.owner = Nobody
        /\ NoIssue.phase = "none" /\ NoIssue.owner = Nobody
    BY DEF NoSession, NoTicket, NoIssue
  <1>3. /\ \A v \in Values : sessions[v] = NoSession
        /\ \A t \in Tickets : tickets[t] = NoTicket
        /\ issuing = NoIssue /\ logins = {} /\ logouts = {}
    BY DEF Init
  <1> QED BY <1>1, <1>2, <1>3, NamesAssumption
          DEF AccessInv, AccessInvariant, SessionShape, TicketShape, IssueShape, RequestShape,
              GrantsAreOwned, RevokedStaysRevoked, Copied

\* The shapes of the tables and of the requests in progress are an invariant.
THEOREM AccessInvariantHolds == Spec => []AccessInv
  BY AccessInit, AccessStep, PTL DEF Spec

\* Every grant in the table has its manager login beside it, ending at the same
\* instant, in whatever order requests interleave (auth.go:183).
THEOREM GrantsStayOwned == Spec => []GrantsAreOwned
  <1>1. AccessInv => GrantsAreOwned
    BY DEF AccessInv, AccessInvariant
  <1> QED BY <1>1, AccessInvariantHolds, PTL

\* No grant and no ticket outlives a logout, a removal or a rotation of its
\* Gateway, although tickets are used without opMu (configuration.go:262).
THEOREM RevocationIsFinal == Spec => []RevokedStaysRevoked
  <1>1. AccessInv => RevokedStaysRevoked
    BY DEF AccessInv, AccessInvariant
  <1> QED BY <1>1, AccessInvariantHolds, PTL

-----------------------------------------------------------------------------
(* What the handlers let through is access as BrowserGrants promises it.   *)

\* The manager logins in force.
Open == {v \in Values : SignedIn(v)}

\* A grant in force is a record of BrowserGrants, under a login in force.
GrantsRecorded ==
    /\ Granted \subseteq Access!Grant
    /\ \A x \in Granted : x.login \in Open \cup {Nobody}
    /\ \A x : x \in Granted <=>
           /\ x.value \in Values /\ x.gateway \in Gateways
           /\ x = [value |-> x.value, login |-> sessions[x.value].owner,
                   gateway |-> sessions[x.value].gateway]
           /\ sessions[x.value].gateway \in Gateways
           /\ sessions[x.value].expires > now
           /\ OwnerValid(sessions[x.value].owner)

\* It is so in every state, whatever the tables hold.
LEMMA GrantedRecords == GrantsRecorded
  <1>1. ASSUME NEW x \in Granted
        PROVE  /\ x \in Access!Grant
               /\ x.login \in Open \cup {Nobody}
               /\ x.value \in Values /\ x.gateway \in Gateways
               /\ x = [value |-> x.value, login |-> sessions[x.value].owner,
                       gateway |-> sessions[x.value].gateway]
               /\ sessions[x.value].gateway \in Gateways
               /\ sessions[x.value].expires > now
               /\ OwnerValid(sessions[x.value].owner)
    <2>1. PICK v \in Values : /\ \E g \in Gateways : Admits(v, g)
                              /\ x = [value |-> v, login |-> sessions[v].owner,
                                      gateway |-> sessions[v].gateway]
      BY DEF Granted
    <2> QED BY <2>1 DEF Admits, OwnerValid, SignedIn, Open, Access!Grant
  <1>2. ASSUME NEW x, x.value \in Values,
               x = [value |-> x.value, login |-> sessions[x.value].owner,
                    gateway |-> sessions[x.value].gateway],
               sessions[x.value].gateway \in Gateways, sessions[x.value].expires > now,
               OwnerValid(sessions[x.value].owner)
        PROVE  x \in Granted
    BY <1>2 DEF Granted, Admits
  <1> QED BY <1>1, <1>2 DEF GrantsRecorded

\* A step that only takes sessions away, or lets time pass, ends logins and
\* grants: none begins, and no grant is left without its login.
LEMMA TrimmedEnds ==
    ASSUME AccessInv, AccessInv', SessionsTrimmed, now' \in {now, now + 1}, past \subseteq past'
    PROVE  Access!Next
  <1>n. NoSession.gateway = Absent
    BY DEF NoSession
  <1>t. /\ now \in Nat /\ \A v \in Values : sessions[v].expires \in Nat
        /\ past' \subseteq Values \cup Tickets
    BY DEF AccessInv, Typed, TypeOK, Session
  <1>r. GrantsRecorded'
    BY GrantedRecords, PTL
  <1>1. ASSUME NEW v \in Values, sessions'[v].gateway # Absent, sessions'[v].expires > now'
        PROVE  sessions'[v] = sessions[v] /\ sessions[v].expires > now
    BY <1>1, <1>n, <1>t DEF SessionsTrimmed
  <1>2. \A v : SignedIn(v)' => SignedIn(v)
    BY <1>1, NamesAssumption DEF SignedIn
  <1>3. Open' \subseteq Open
    BY <1>2 DEF Open
  <1>4. Granted' \subseteq Granted
    <2> SUFFICES ASSUME NEW x \in Granted' PROVE x \in Granted
      OBVIOUS
    <2>1. /\ x.value \in Values /\ x.gateway \in Gateways
          /\ x = [value |-> x.value, login |-> sessions'[x.value].owner,
                  gateway |-> sessions'[x.value].gateway]
          /\ sessions'[x.value].gateway \in Gateways
          /\ sessions'[x.value].expires > now'
          /\ OwnerValid(sessions[x.value].owner)'
      BY <1>r DEF GrantsRecorded
    <2>2. sessions'[x.value] = sessions[x.value] /\ sessions[x.value].expires > now
      BY <1>1, <2>1, NamesAssumption
    <2>3. OwnerValid(sessions[x.value].owner)
      BY <1>2, <2>1, <2>2 DEF OwnerValid
    <2> QED BY <2>1, <2>2, <2>3, GrantedRecords DEF GrantsRecorded
  <1>5. \A x \in Granted' : x.login \in Open' \cup {Nobody}
    BY <1>r DEF GrantsRecorded
  <1> DEFINE gone  == Open \ Open'
             ended == Granted \ Granted'
  <1>6. Granted' = Granted \ (Access!Under(gone) \cup ended)
    BY <1>4, <1>5, NamesAssumption DEF Access!Under, Open
  <1>7. Open' = Open \ gone
    BY <1>3
  <1>8. Access!End(gone, ended)
    BY <1>6, <1>7, <1>t DEF Access!End, Open
  <1> QED BY <1>8 DEF Access!Next, Open

\* A login begins in place of the one it replaces, whose grants go with it; one
\* that took a whole session time to be stored only ends the other.
LEMMA LoginStoredSignsIn ==
    ASSUME AccessInv, AccessInv', NEW l \in logins, LoginStored(l) PROVE Access!Next
  <1> USE NamesAssumption
  <1>n. NoSession.gateway = Absent
    BY DEF NoSession
  <1>i. SessionShape /\ RequestShape /\ GrantsAreOwned
    BY DEF AccessInv, AccessInvariant
  <1>t. now' = now /\ past' = past \cup {l.value} /\ l.value \in Values \ past /\ l.old \in Owners
    BY StoredTable DEF LoginStored
  <1>s. /\ \A v \in Values \ {l.value} : sessions'[v] = sessions[v] \/ sessions'[v] = NoSession
        /\ \A v \in Values \ {l.value} : sessions'[v] # NoSession =>
               sessions[v].expires > now /\ (l.old # Nobody => v # l.old /\ sessions[v].owner # l.old)
        /\ \A v \in Values \ {l.value} :
               sessions[v].expires > now /\ (l.old # Nobody => v # l.old /\ sessions[v].owner # l.old)
                   => sessions'[v] = sessions[v]
        /\ sessions'[l.value] = [gateway |-> Manager, owner |-> Nobody, expires |-> l.expires, era |-> 0]
        /\ sessions[l.value].gateway = Absent /\ l.old # l.value
    BY StoredTable
  <1>r. GrantsRecorded'
    BY GrantedRecords, PTL
  <1> DEFINE replaced == Open \cap {l.old}
  <1>1. \A v \in Values \ {l.value} : SignedIn(v)' <=> SignedIn(v) /\ v # l.old
    <2> SUFFICES ASSUME NEW v \in Values \ {l.value} PROVE SignedIn(v)' <=> SignedIn(v) /\ v # l.old
      OBVIOUS
    <2>1. ASSUME SignedIn(v)' PROVE SignedIn(v) /\ v # l.old
      BY <2>1, <1>s, <1>n, <1>t DEF SignedIn, Owners
    <2>2. ASSUME SignedIn(v), v # l.old PROVE SignedIn(v)'
      <3>1. sessions[v].owner = Nobody
        BY <2>2, <1>i DEF SignedIn, SessionShape
      <3> QED BY <2>2, <3>1, <1>s, <1>t DEF SignedIn
    <2> QED BY <2>1, <2>2
  <1>2. SignedIn(l.value)' <=> l.expires > now
    BY <1>s, <1>t DEF SignedIn
  <1>3. Open' = (Open \ replaced) \cup (IF l.expires > now THEN {l.value} ELSE {})
    <2>1. l.value \notin Open
      BY <1>s DEF Open, SignedIn
    <2> QED BY <2>1, <1>1, <1>2, <1>t DEF Open
  <1>4. \A v \in Values : sessions'[v].gateway \in Gateways =>
            v # l.value /\ sessions'[v] = sessions[v] /\ sessions'[v] # NoSession
    BY <1>s, <1>n
  <1>5. Granted' \subseteq Granted \ Access!Under(replaced)
    <2> SUFFICES ASSUME NEW x \in Granted' PROVE x \in Granted /\ x.login \notin replaced
      BY DEF Access!Under
    <2>1. /\ x.value \in Values /\ x.gateway \in Gateways
          /\ x = [value |-> x.value, login |-> sessions'[x.value].owner,
                  gateway |-> sessions'[x.value].gateway]
          /\ sessions'[x.value].gateway \in Gateways
          /\ OwnerValid(sessions[x.value].owner)'
      BY <1>r DEF GrantsRecorded
    <2>2. /\ x.value # l.value /\ sessions'[x.value] = sessions[x.value]
          /\ sessions[x.value].expires > now
          /\ l.old # Nobody => sessions[x.value].owner # l.old
      BY <2>1, <1>4, <1>s
    <2>3. sessions[x.value].owner # Nobody =>
              sessions[x.value].owner \in Values \ {l.value}
      BY <2>1, <2>2, <1>s, OwnersAreLogins
    <2>4. OwnerValid(sessions[x.value].owner)
      BY <2>1, <2>2, <2>3, <1>1 DEF OwnerValid
    <2>5. x \in Granted
      BY <2>1, <2>2, <2>4, GrantedRecords DEF GrantsRecorded
    <2>6. x.login \notin replaced
      BY <2>1, <2>2 DEF Open
    <2> QED BY <2>5, <2>6
  <1>6. Granted \ Access!Under(replaced) \subseteq Granted'
    <2> SUFFICES ASSUME NEW x \in Granted, x.login \notin replaced PROVE x \in Granted'
      BY DEF Access!Under
    <2>1. /\ x.value \in Values /\ x.gateway \in Gateways
          /\ x = [value |-> x.value, login |-> sessions[x.value].owner,
                  gateway |-> sessions[x.value].gateway]
          /\ sessions[x.value].gateway \in Gateways /\ sessions[x.value].expires > now
          /\ OwnerValid(sessions[x.value].owner)
      BY GrantedRecords DEF GrantsRecorded
    <2>2. x.value # l.value
      BY <2>1, <1>s
    <2>3. l.old # Nobody => x.value # l.old /\ sessions[x.value].owner # l.old
      <3>1. l.old # Nobody => x.value # l.old
        BY <2>1, <1>i DEF RequestShape, OnceLogin
      <3>2. l.old # Nobody /\ sessions[x.value].owner = l.old => l.old \in replaced
        BY <2>1 DEF OwnerValid, SignedIn, Open
      <3>3. x.login = sessions[x.value].owner
        BY <2>1
      <3> QED BY <3>1, <3>2, <3>3
    <2>4. sessions'[x.value] = sessions[x.value]
      BY <2>1, <2>2, <2>3, <1>s
    <2>5. ASSUME sessions[x.value].owner # Nobody PROVE SignedIn(sessions[x.value].owner)'
      <3>1. SignedIn(sessions[x.value].owner) /\ sessions[x.value].owner \in Values \ {l.value}
        BY <2>1, <2>5, <1>s DEF OwnerValid, SignedIn
      <3>2. sessions[x.value].owner # l.old
        BY <2>3, <2>5
      <3>3. ASSUME NEW o, o = sessions[x.value].owner PROVE SignedIn(o)'
        BY <3>1, <3>2, <3>3, <1>1
      <3> QED BY <3>3, <2>4 DEF SignedIn
    <2>6. OwnerValid(sessions[x.value].owner)'
      BY <2>4, <2>5 DEF OwnerValid
    <2> QED BY <2>1, <2>4, <2>6, <1>r, <1>t DEF GrantsRecorded
  <1>7. replaced \in SUBSET Open
    OBVIOUS
  <1> HIDE DEF replaced
  <1>8. Access!SignIn(l.value, replaced) \/ Access!SignInLate(l.value, replaced)
    BY <1>3, <1>5, <1>6, <1>t DEF Access!SignIn, Access!SignInLate, Open
  <1> QED BY <1>7, <1>8, <1>t DEF Access!Next, Open

\* A ticket that is used opens one grant, under a login in force; one that is
\* refused changes nothing but that it is gone.
LEMMA RedeemAdmits ==
    ASSUME AccessInv, AccessInv', NEW t \in Tickets, NEW g \in Gateways, Redeem(t, g)
    PROVE  Access!Next
  <1> USE NamesAssumption
  <1>i. SessionShape /\ TicketShape /\ GrantsAreOwned
    BY DEF AccessInv, AccessInvariant
  <1>t. sessions \in [Values -> Session] /\ now' = now
    BY DEF AccessInv, Typed, TypeOK, Redeem
  <1>r. GrantsRecorded'
    BY GrantedRecords, PTL
  <1>1. CASE past' = past \cup {t} /\ UNCHANGED sessions
    <2>1. SessionsTrimmed
      BY <1>1 DEF SessionsTrimmed
    <2> QED BY <1>1, <1>t, <2>1, TrimmedEnds
  <1>2. ASSUME Redeemable(t, g), NEW v \in Unused,
               sessions' = [sessions EXCEPT ![v] = Opened(t)], past' = past \cup {v, t}
        PROVE  Access!Next
    <2> DEFINE x == [value |-> v, login |-> tickets[t].owner, gateway |-> g]
    <2>v. v \in Values /\ v \notin past /\ t \notin past
      BY <1>i DEF Unused, Redeem, TicketShape
    <2>s. /\ sessions'[v] = [gateway |-> g, owner |-> tickets[t].owner,
                             expires |-> tickets[t].until, era |-> tickets[t].era]
          /\ \A w \in Values \ {v} : sessions'[w] = sessions[w]
          /\ sessions[v].gateway = Absent
          /\ tickets[t].until > now /\ OwnerValid(tickets[t].owner)
      BY <2>v, <1>2, <1>t, <1>i DEF Opened, Redeemable, SessionShape
    <2>1. ASSUME NEW w PROVE SignedIn(w)' <=> SignedIn(w)
      BY <2>s, <1>t DEF SignedIn
    <2>2. Open' = Open
      BY <2>1 DEF Open
    <2>3. x \in Access!Grant /\ x.login \in Open \cup {Nobody}
      BY <2>v, <2>s DEF Access!Grant, OwnerValid, SignedIn, Open
    <2>4. ASSUME NEW y \in Granted' PROVE y \in Granted \cup {x}
      <3>1. /\ y.value \in Values /\ y.gateway \in Gateways
            /\ y = [value |-> y.value, login |-> sessions'[y.value].owner,
                    gateway |-> sessions'[y.value].gateway]
            /\ sessions'[y.value].gateway \in Gateways
            /\ sessions'[y.value].expires > now'
            /\ OwnerValid(sessions[y.value].owner)'
        BY <1>r DEF GrantsRecorded
      <3>2. CASE y.value = v
        BY <3>1, <3>2, <2>s
      <3>3. CASE y.value # v
        <4>1. sessions'[y.value] = sessions[y.value]
          BY <3>1, <3>3, <2>s
        <4>2. OwnerValid(sessions[y.value].owner)
          BY <3>1, <4>1, <2>1 DEF OwnerValid
        <4> QED BY <3>1, <4>1, <4>2, <1>t, GrantedRecords DEF GrantsRecorded
      <3> QED BY <3>2, <3>3
    <2>5. ASSUME NEW y \in Granted PROVE y \in Granted'
      <3>1. /\ y.value \in Values /\ y.gateway \in Gateways
            /\ y = [value |-> y.value, login |-> sessions[y.value].owner,
                    gateway |-> sessions[y.value].gateway]
            /\ sessions[y.value].gateway \in Gateways
            /\ sessions[y.value].expires > now
            /\ OwnerValid(sessions[y.value].owner)
        BY GrantedRecords DEF GrantsRecorded
      <3>2. y.value # v
        BY <3>1, <2>s
      <3>3. sessions'[y.value] = sessions[y.value]
        BY <3>1, <3>2, <2>s
      <3>4. OwnerValid(sessions[y.value].owner)'
        BY <3>1, <3>3, <2>1 DEF OwnerValid
      <3> QED BY <3>1, <3>3, <3>4, <1>r, <1>t DEF GrantsRecorded
    <2>6. x \in Granted'
      <3>1. OwnerValid(sessions[v].owner)'
        <4>1. ASSUME NEW o, o = tickets[t].owner PROVE OwnerValid(o)'
          BY <2>s, <2>1, <4>1 DEF OwnerValid
        <4> QED BY <4>1, <2>s DEF OwnerValid, SignedIn
      <3> QED BY <3>1, <2>v, <2>s, <1>r, <1>t DEF GrantsRecorded
    <2>7. Granted' = Granted \cup {x}
      BY <2>4, <2>5, <2>6
    <2>8. Access!Admit(x, t)
      BY <1>2, <2>v, <2>2, <2>3, <2>7 DEF Access!Admit, Open
    <2> QED BY <2>3, <2>8 DEF Access!Next
  <1> QED BY <1>1, <1>2 DEF Redeem

\* The service implements BrowserGrants: what it admits is always under a login
\* in force, a ticket is used at most once, and what ended never begins again.
THEOREM AccessImplementsGrants == Spec => GrantsAsPromised
  <1>1. Init => Access!Init
    <2> SUFFICES ASSUME Init PROVE Access!Init
      OBVIOUS
    <2>1. \A v \in Values : sessions[v] = NoSession
      BY DEF Init
    <2>2. Open = {} /\ Granted = {}
      BY <2>1, NamesAssumption DEF Open, SignedIn, Granted, Admits, NoSession
    <2> QED BY <2>2 DEF Init, Access!Init, Open
  <1>2. ASSUME AccessInv, AccessInv', [Next]_vars PROVE Access!Next
    <2>1. CASE \E l \in logins : LoginStored(l)
      BY <2>1, <1>2, LoginStoredSignsIn
    <2>2. CASE \E t \in Tickets : \E g \in Gateways : Redeem(t, g)
      BY <2>2, <1>2, RedeemAdmits
    <2>3. ASSUME NEW t \in Tickets, IssueStored(t) PROVE Access!Next
      <3>1. sessions' = FreshSessions /\ now' = now /\ past' = past
        BY <2>3 DEF IssueStored
      <3> QED BY <3>1, <1>2, CleanupTrims, TrimmedEnds
    <2>4. ASSUME Trimmed /\ past \subseteq past', now' = now \/ now' = now + 1 PROVE Access!Next
      BY <2>4, <1>2, TrimmedEnds DEF Trimmed
    <2>5. CASE \/ Tick \/ Browse
               \/ \E v \in Values : \E old \in Owners : LoginChecked(v, old)
               \/ \E v \in Values : LogoutChecked(v)
               \/ \E v \in logouts : LogoutDone(v)
               \/ \E g \in Gateways : \E cookie \in Owners : \E bearer \in BOOLEAN :
                      IssueBegins(g, cookie, bearer)
               \/ IssueOwned
               \/ \E g \in Gateways : GatewayLogout(g)
               \/ \E next \in SUBSET Gateways : \E rotated \in SUBSET (configured \cap next) :
                      Reconfigure(next, rotated)
               \/ NewServer
               \/ UNCHANGED vars
      <3>1. Trimmed /\ past \subseteq past'
        BY <2>5, <1>2, TrimmingSteps
      <3>2. now' = now \/ now' = now + 1
        BY <2>5 DEF Tick, Browse, LoginChecked, LogoutChecked, LogoutDone, IssueBegins, IssueOwned,
                    GatewayLogout, Reconfigure, NewServer, vars
      <3> QED BY <3>1, <3>2, <2>4
    <2> QED BY <1>2, <2>1, <2>2, <2>3, <2>5 DEF Next
  <1>3. AccessInv /\ AccessInv' /\ [Next]_vars =>
            [Access!Next]_<<{v \in Values : SignedIn(v)}, Granted, past>>
    BY <1>2
  <1> QED
    BY <1>1, <1>3, AccessInvariantHolds, PTL DEF Spec, GrantsAsPromised, Access!Spec

=============================================================================
