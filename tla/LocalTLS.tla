------------------------------ MODULE LocalTLS ------------------------------
(***************************************************************************)
(* The certificate authority of an installation and the certificate it     *)
(* issues to the local HTTPS listener: internal/localtls/localtls.go, as   *)
(* used by internal/service/listeners.go.                                  *)
(*                                                                         *)
(* Two files hold it: identity.json, with the keys, and ca.crt, the public *)
(* half that the user imports.  Managers (a second one may be started by   *)
(* mistake, or while the first still shuts down) change them under a file  *)
(* lock; the operator loses, resets and restores them without it.  A call  *)
(* of Open, EnsureHosts or GetCertificate keeps the manager's mu to its    *)
(* end, so that each manager is in one call at most.                       *)
(*                                                                         *)
(* A time unit is far longer than the five minutes by which certificates   *)
(* are back-dated.  Keys are left out: a leaf is signed by the CA beside   *)
(* it.  Host names are those beyond the built-in ones.                     *)
(***************************************************************************)
EXTENDS Naturals

CONSTANTS
    Managers,     \* processes that serve this configuration directory
    Hosts,        \* host names of the configured instances
    None,         \* no file, no certificate, nobody
    LeafLife,     \* 90 days
    RenewBefore,  \* 30 days
    CheckEvery,   \* one hour
    CALife,       \* ten years
    MaxNow,       \* bound: the clock shows 0..MaxNow
    MaxCAs,       \* bound: how many CAs are generated
    MaxTroubles   \* bound: failed writes, lost and restored files, clock set back

ASSUME LivesAssumption ==
    /\ RenewBefore \in Nat /\ CheckEvery \in Nat \ {0} /\ LeafLife \in Nat /\ CALife \in Nat
    /\ CheckEvery <= RenewBefore /\ RenewBefore < LeafLife /\ LeafLife < CALife
ASSUME BoundsAssumption == MaxNow \in Nat /\ MaxCAs \in Nat /\ MaxTroubles \in Nat

VARIABLES
    now,       \* the system clock
    identity,  \* identity.json
    caCrt,     \* ca.crt: the number of the CA in it
    backup,    \* the operator's copy of identity.json
    flock,     \* the manager that holds .lock
    mem,       \* m.certificate and m.ca
    nextCheck, \* m.nextCheck
    hosts,     \* m.hosts
    call,      \* the call each manager is in
    made,      \* how many CAs were generated
    troubles,  \* how many troubles there were
    promised,  \* history: the names each manager accepted
    trusted,   \* history: the CA the user imported, until an explicit reset
    touched    \* history: identity.json was taken away, not by a manager

vars == <<now, identity, caCrt, backup, flock, mem, nextCheck, hosts, call, made,
          troubles, promised, trusted, touched>>
files    == <<identity, caCrt, backup>>
memory   == <<mem, nextCheck, promised>>
operator == <<backup, trusted, touched>>

Time     == 0..MaxNow
CA       == [number: 1..MaxCAs, from: Time]
Identity == [ca: CA, names: SUBSET Hosts, from: Time, until: 0..(MaxNow + LeafLife)]
Call     == [kind: {"none", "open", "ensure", "handshake"}, asked: SUBSET Hosts,
             at: {"none", "lock", "save", "export"}, time: Time, next: Identity \cup {None}]
NoCall   == [kind |-> "none", asked |-> {}, at |-> "none", time |-> 0, next |-> None]

ASSUME NoneAssumption == None \notin Managers \cup Nat \cup Identity

CAEnds(ca) == ca.from + CALife

Init ==
    /\ now = 0
    /\ identity = None /\ caCrt = None /\ backup = None
    /\ flock = None
    /\ mem = [m \in Managers |-> None]
    /\ nextCheck = [m \in Managers |-> 0]
    /\ hosts = [m \in Managers |-> {}]
    /\ call = [m \in Managers |-> NoCall]
    /\ made = 0 /\ troubles = 0
    /\ promised = [m \in Managers |-> {}]
    /\ trusted = None /\ touched = FALSE

-----------------------------------------------------------------------------
(* The calls of a manager, up to the file lock.                            *)

Running(m) == mem[m] # None
Idle(m)    == call[m] = NoCall

Begin(m, kind, asked) ==
    call' = [call EXCEPT ![m] = [NoCall EXCEPT !.kind = kind, !.asked = asked, !.at = "lock"]]

\* startSharedProxyListener opens the certificates for all configured hosts.
Open(m, asked) ==
    /\ ~Running(m) /\ Idle(m)
    /\ hosts' = [hosts EXCEPT ![m] = asked]
    /\ Begin(m, "open", asked)
    /\ UNCHANGED <<now, files, flock, memory, made, troubles, trusted, touched>>

\* A change of the configuration: m.hosts grows even if the refresh fails.
EnsureHosts(m, asked) ==
    /\ Running(m) /\ Idle(m)
    /\ hosts' = [hosts EXCEPT ![m] = @ \cup asked]
    /\ Begin(m, "ensure", asked)
    /\ UNCHANGED <<now, files, flock, memory, made, troubles, trusted, touched>>

\* Fault: only the hourly look, so a clock set back goes unnoticed.
DueHourly(m) == now >= nextCheck[m]

\* GetCertificate refreshes first.
Due(m) == now >= nextCheck[m] \/ now < mem[m].from

\* A handshake that does not refresh changes nothing.
Handshake(m) ==
    /\ Running(m) /\ Idle(m) /\ Due(m)
    /\ Begin(m, "handshake", {})
    /\ UNCHANGED <<now, files, flock, memory, hosts, made, troubles, trusted, touched>>

\* A failed Open leaves no manager; any other failed call leaves the old
\* certificate and its hour, so that the next handshake tries again.
Fail(m) ==
    /\ call' = [call EXCEPT ![m] = NoCall]
    /\ hosts' = IF call[m].kind = "open" THEN [hosts EXCEPT ![m] = {}] ELSE hosts
    /\ flock' = IF flock = m THEN None ELSE flock
    /\ UNCHANGED memory

\* The lock was not free for five seconds.
Busy(m) ==
    /\ call[m].at = "lock" /\ flock # None
    /\ Fail(m)
    /\ UNCHANGED <<now, files, made, troubles, trusted, touched>>

-----------------------------------------------------------------------------
(* refresh, under the lock: what it reads and decides, and its two writes.  *)

\* Fault: a missing identity is replaced whatever else is there.
StartsAnew == identity = None

\* Only a directory without either file gets a new CA.
StartsFresh == identity = None /\ caCrt = None

\* newIdentity: the leaf is issued below, before anything is written.
Fresh == [ca |-> [number |-> made + 1, from |-> now], names |-> {}, from |-> now, until |-> now]

CAUsable(m, ca) ==
    /\ ca.from <= now /\ now < CAEnds(ca)
    /\ Running(m) => mem[m].ca = ca

Renews(m, id) ==
    \/ StartsFresh
    \/ ~(hosts[m] \subseteq id.names)
    \/ now + RenewBefore >= id.until
    \/ now < id.from

\* Fault: the leaf lives as long as a CA.
IssuedForCALife(m, id) == [id EXCEPT !.names = @ \cup hosts[m], !.from = now, !.until = now + CALife]

Issued(m, id) == [id EXCEPT !.names = @ \cup hosts[m], !.from = now, !.until = now + LeafLife]

\* What refresh read, or a new CA.  Bound: MaxCAs.
Found ==
    IF StartsFresh THEN (IF made < MaxCAs THEN {Fresh} ELSE {})
    ELSE {identity} \ {None}

GoOn(m, step, id) ==
    /\ call' = [call EXCEPT ![m].at = step, ![m].time = now, ![m].next = id]
    /\ flock' = m
    /\ UNCHANGED <<hosts, memory>>

Refresh(m) ==
    /\ call[m].at = "lock" /\ flock = None
    /\ \E id \in Found :
         /\ made' = IF StartsFresh THEN made + 1 ELSE made
         /\ IF ~CAUsable(m, id.ca) THEN Fail(m)
            ELSE IF ~Renews(m, id) THEN GoOn(m, "export", id)
            ELSE IF now + LeafLife < CAEnds(id.ca) THEN GoOn(m, "save", Issued(m, id))
            ELSE Fail(m)                                \* the CA is nearing expiry
    /\ UNCHANGED <<now, files, troubles, trusted, touched>>

\* identity.json is missing beside a ca.crt that someone may trust.
Orphaned(m) ==
    /\ call[m].at = "lock" /\ flock = None
    /\ identity = None /\ ~StartsFresh
    /\ Fail(m)
    /\ UNCHANGED <<now, files, made, troubles, trusted, touched>>

\* Fault: the public half is written first.
SavePublicFirst(m) ==
    /\ call[m].at = "save"
    /\ caCrt # call[m].next.ca.number
    /\ caCrt' = call[m].next.ca.number
    /\ UNCHANGED <<now, identity, backup, flock, memory, hosts, call, made, troubles,
                   trusted, touched>>

\* writeAtomic of identity.json: both key pairs at once.
Save(m) ==
    /\ call[m].at = "save"
    /\ identity' = call[m].next /\ touched' = FALSE
    /\ call' = [call EXCEPT ![m].at = "export"]
    /\ UNCHANGED <<now, caCrt, backup, flock, memory, hosts, made, troubles, trusted>>

\* ca.crt is repaired, and the manager uses what it has written.
Export(m) ==
    /\ call[m].at = "export"
    /\ caCrt' = call[m].next.ca.number
    /\ mem' = [mem EXCEPT ![m] = call[m].next]
    /\ nextCheck' = [nextCheck EXCEPT ![m] = call[m].time + CheckEvery]
    /\ promised' = [promised EXCEPT ![m] = @ \cup call[m].asked]
    /\ call' = [call EXCEPT ![m] = NoCall]
    /\ flock' = None
    /\ UNCHANGED <<now, identity, backup, hosts, made, troubles, trusted, touched>>

Trouble == troubles < MaxTroubles /\ troubles' = troubles + 1

\* What an operator does about a lost identity is no further trouble.
Mend == IF identity = None THEN UNCHANGED troubles ELSE Trouble

WriteFails(m) ==
    /\ call[m].at \in {"save", "export"} /\ Trouble
    /\ Fail(m)
    /\ UNCHANGED <<now, files, made, trusted, touched>>

\* The process ends or is killed; the operating system frees its lock.
Crash(m) ==
    /\ Running(m) \/ ~Idle(m)
    /\ mem' = [mem EXCEPT ![m] = None]
    /\ nextCheck' = [nextCheck EXCEPT ![m] = 0]
    /\ hosts' = [hosts EXCEPT ![m] = {}]
    /\ promised' = [promised EXCEPT ![m] = {}]
    /\ call' = [call EXCEPT ![m] = NoCall]
    /\ flock' = IF flock = m THEN None ELSE flock
    /\ UNCHANGED <<now, files, made, troubles, trusted, touched>>

-----------------------------------------------------------------------------
(* The user, the operator and the clock.                                   *)

\* The user imports the CA that Inspect exports from the identity, which here
\* has its public half beside it.
Trust ==
    /\ identity # None /\ caCrt = identity.ca.number
    /\ trusted' = caCrt
    /\ UNCHANGED <<now, files, flock, memory, hosts, call, made, troubles, touched>>

Lose ==
    /\ identity # None /\ Trouble
    /\ identity' = None /\ touched' = TRUE
    /\ UNCHANGED <<now, caCrt, backup, flock, memory, hosts, call, made, trusted>>

\* An explicit reset, perhaps while a manager is at work.
Reset ==
    /\ Mend
    /\ identity' = None /\ caCrt' = None
    /\ touched' = (flock # None) /\ trusted' = None
    /\ UNCHANGED <<now, backup, flock, memory, hosts, call, made>>

\* A copy that no trouble is left to put back is left out.
Backup ==
    /\ backup = None /\ identity # None /\ troubles < MaxTroubles
    /\ backup' = identity
    /\ UNCHANGED <<now, identity, caCrt, flock, memory, hosts, call, made, troubles,
                   trusted, touched>>

\* A backup, put back while no manager is writing; one from before a reset brings
\* back the CA of that time.
Restore ==
    /\ backup # None /\ flock = None /\ Mend
    /\ identity' = backup /\ touched' = FALSE
    /\ caCrt' \in {caCrt, backup.ca.number}
    /\ trusted' = IF trusted = backup.ca.number THEN trusted ELSE None
    /\ UNCHANGED <<now, backup, flock, memory, hosts, call, made>>

TimePasses ==
    /\ now' \in {t \in Time : t > now}
    /\ UNCHANGED <<files, flock, memory, hosts, call, made, troubles, trusted, touched>>

ClockSetBack ==
    /\ Trouble
    /\ now' \in {t \in Time : t < now}
    /\ UNCHANGED <<files, flock, memory, hosts, call, made, trusted, touched>>

-----------------------------------------------------------------------------
Manager(m) ==
    \/ \E asked \in SUBSET Hosts : Open(m, asked) \/ EnsureHosts(m, asked)
    \/ Handshake(m) \/ Busy(m) \/ Orphaned(m) \/ Refresh(m)
    \/ Save(m) \/ Export(m) \/ WriteFails(m) \/ Crash(m)

Next ==
    \/ \E m \in Managers : Manager(m)
    \/ Trust \/ Lose \/ Reset \/ Backup \/ Restore
    \/ TimePasses \/ ClockSetBack

Spec == Init /\ [][Next]_vars

-----------------------------------------------------------------------------
(* Properties.                                                             *)

TypeOK ==
    /\ now \in Time
    /\ identity \in Identity \cup {None}
    /\ caCrt \in 1..MaxCAs \cup {None}
    /\ backup \in Identity \cup {None}
    /\ flock \in Managers \cup {None}
    /\ mem \in [Managers -> Identity \cup {None}]
    /\ nextCheck \in [Managers -> 0..(MaxNow + CheckEvery)]
    /\ hosts \in [Managers -> SUBSET Hosts]
    /\ call \in [Managers -> Call]
    /\ made \in 0..MaxCAs /\ troubles \in 0..MaxTroubles
    /\ promised \in [Managers -> SUBSET Hosts]
    /\ trusted \in 1..MaxCAs \cup {None} /\ touched \in BOOLEAN

\* What a handshake gets without a refresh is a certificate valid at that
\* instant, that does not outlive its CA and lists every name the manager
\* accepted: the hourly look is often enough, a clock set back is noticed, and
\* neither another manager's renewal nor an old backup drops a name
\* (localtls.go:88, 104).
HandshakesServed ==
    \A m \in Managers : Running(m) /\ Idle(m) /\ ~Due(m) =>
        /\ mem[m].from <= now /\ now < mem[m].until
        /\ mem[m].until < CAEnds(mem[m].ca)
        /\ promised[m] \subseteq mem[m].names

\* The CA a user imported is never replaced without an explicit reset, whatever
\* crashes, is lost or starts at the same time (localtls.go:105, 147).
TrustSurvives ==
    trusted # None =>
        /\ identity # None => identity.ca.number = trusted
        /\ caCrt = trusted
        /\ \A m \in Managers : call[m].at = "save" => call[m].next.ca.number = trusted

\* A crash between the two files never leaves the state in which no manager
\* starts any more: only someone else's hand does (localtls.go:149, 219, 228).
CrashLeavesIdentity == identity = None /\ caCrt # None => touched
=============================================================================
