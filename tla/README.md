# IBKR Gateway Manager in TLA+

The manager (Go) runs one or more Java Client Portal Gateways, keeps their
brokerage sessions alive, and gives browsers and programs access to them. This
directory models the parts of it that keep state, checks them with TLC on small
instances and proves with TLAPS, for every value of the constants, all safety
and action properties and both refinements that the runs check. Source references are to the repository's `src/`.

## The system

| component | state | operations | modelled by |
| --- | --- | --- | --- |
| broker session (`gateway/session*.go`, `login_initialization.go`) | intent file, `session`, `loginInit`, `wakeSession` | start, stop, logout, recover, take over, resume; the supervisor's probes | `GatewaySession` |
| lifecycle and supervisor (`gateway.go`, `tickler.go`, `reconfigure.go`) | `ctx`, `cancel`, `monitorsStarted`, `monitorGeneration`, failure count, restart budget, process lock | the above as process operations, upgrade, rollback, reconfigure, restore, shutdown, supervised restart | `GatewayLifecycle`, promised by `InstancePromise` |
| process ownership (`process.go`, `process_group_unix.go`) | `.manager.lock`, `gateway-process.json`, `g.cmd`, the processes | ensureRunning, stopProcess, the goroutine that waits for the wrapper, detach | `ProcessOwnership` |
| program installation (`gateway_install.go`, `installation.go`, `shared_install.go`) | live directory, `.rollback`, stage and swap directories, install lock | install, upgrade, rollback, start | `Installation` |
| browser access (`internal/service/auth.go`) | `sessions`, `tickets` | login, logout, issue and use a ticket, authorize, clean up, revoke | `BrowserAuth`, promised by `BrowserGrants` |
| configuration transaction (`configuration.go`, `listeners.go`, `server.go`) | `config.json`, `s.config`, registry, listeners | PUT of the configuration, token rotation, start and end of the service | `ConfigTransaction` |
| local certificates (`internal/localtls/localtls.go`) | `identity.json`, `ca.crt`, `.lock`; each manager's certificate, names and next look | open, ensure hosts, get certificate, refresh | `LocalTLS` |
| configuration file (`internal/appconfig/config.go`) | `config.json`, the published configuration, what is installed | load, validate, change | `ConfigFile` (where instances live) |

How they interact. An HTTP request of the operator takes the service's `opMu`
and calls one operation of an instance's manager, which takes that manager's
own `opMu`. The supervisor goroutine of an instance waits for the same `opMu`,
probes, and may restart the process. Both publish what they see under `mu`; a
cancelled supervisor leaves under `mu` alone. Instances meet in three places: a
shared program directory (install lock and `lsof`), ports, and the one
configuration transaction. The sign-in page reaches the session only through
`NotifyLoginComplete`, a wake-up. The shared listener asks the certificates for
new names inside the transaction and renews them in handshakes; the transaction
starts from a configuration whose paths `config.go` has filled in.

What is hard: an operation is a sequence of slow calls between which the
daemon, the process or the operator's connection may go away; permissions with
clocks are read before a request and used after it; goroutines outlive the
state that started them; files, processes and memory are changed one after the
other and any of them may fail; PIDs are reused. `PROJECT.json` lists these
hazards by line, with the properties aimed at each.

## The modules

**`GatewaySession`** - One daemon with one instance. `refreshSession` is cut at
every HTTP request: `call.at` says which answer it waits for, and between two
requests the daemon may crash, the context may be cancelled, time may pass or a
wake-up may arrive. The supervisor and the operator hold `opMu` for as long as
the code does. An order is `IssueOrder`, `SaveIntent` (the file), `Apply` (the
memory and what follows), then its request or its launch, and `OrderReturns`.
Times are kept as the time left. Process launches succeed or fail in one step.

**`GatewayLifecycle`** - The same `opMu` seen from the process. Supervisors are
goroutines with a context of their own; a generation is kept as whether it is
the current one. `Then(step)` and `Done` move the operation, `Failure` has the
error return of each step, `Refused` those before the first one (an upgrade or a
rollback then shows an error, a shutdown of the service goes on without the
instance), and the second launch of a failed upgrade, rollback
or configuration change is a kind of operation of its own. A refresh is one
step with its effect on the fields that decide restarts.

**`InstancePromise`** - What an instance promises the operator without locks,
goroutines or steps: `stopped` is shown of an ended process only, a process is
launched for an operator who wants one or to put back what an operation ended,
and a ready session answers to an intent. `GatewayLifecycle` implements it;
the mapping reads the intent, the process, what the console shows, and whether
the operation in progress began with a process.

**`ProcessOwnership`** - The operating system's process table: free PIDs,
wrappers, Java processes (which may be orphans of a killed wrapper) and
unrelated processes. Two managers contend for one state directory. Found,
missed and refused are the three results of `loadOrRecoverOwnedProcess`. A start
that finds a process waits for its answer (`StartFinds`), and then reuses it or
signals its PID without another look (`StartReplaces`, `Replaced`); the PID may
be another process's by then. The reaper's check and its removal are two steps.
`RunJar` says which of the two commands launches the Gateway: Java itself, which
is its own wrapper then, or `bin/run.sh`.

**`Installation`** - Directories hold a copy of the program, whole or torn, with
the YAML files in it. Every rename, copy and removal is a step that may fail,
and `Crash` may come before any of them. The code's ignored errors are choices
that nobody looks at. Upgrade and rollback run through the same start as in the
code, in `phase`s.

**`BrowserAuth`, `BrowserGrants`** - Handlers are cut where they give up
`Server.mu`. `BrowserGrants` says what access means: a login, grants opened
under it by a ticket each, all ended with it, nothing that ended beginning
again. `BrowserAuth` implements it with the logins and grants that an
authorization would let through at that instant, not merely those in the table.

**`ConfigTransaction`** - `applyConfig` in the code's order: listeners, starts
and reconfigurations by name, removals, commit to the file, publication,
retirement of listeners; undo in reverse after any failure. Ports are resources
of which a process has one. An operation of an instance's manager is one step
here, given as the set of what it can come to: its successful end and each error
return, with the process, the port, the intent, the lock and the reported state
as they are left there. What is undone is what `Status` said before (`says`),
which need not be what runs (`runs`): a new manager reports no process, and a
process dies unseen. Between changes the instances are started, stopped,
detached and probed. A listener has an owner (an instance or the shared
listener), an address, a scheme and the certificate with which it was opened.
An address that changes its owner or its scheme is refused; a dedicated listener
whose certificate alone changes stays as it is (listeners.go:273-281), a shared
one is refused. Crashes come anywhere, and a new manager starts from the file.

**`LocalTLS`** - Managers that serve one directory of certificates. A call of
`Open`, `EnsureHosts` or `GetCertificate` is cut at the file lock and at its two
writes, `identity.json` and then `ca.crt`; it may fail or the manager may die at
each. The operator imports the CA, loses the identity, resets it and puts back a
backup, all without the lock; the clock runs, jumps and is set back. A
certificate is its CA, its names and its dates.

**`ConfigFile`** - Where each instance's program, YAML file and state directory
are. The operators are the steps of `Validate` (`SharedDir`, `Inherited`,
`Placed`, `Filled`, and the uniqueness rules in `Accepted`), the actions are a
start from the file, a change through the API with its merge of paths that were
left out, an installation by a first start, and programs that come and go by
hand.

The modules overlap in `opMu` and share no variables. Each keeps the
neighbours' effects as a nondeterministic step: a launch in `GatewaySession` is
the operation of `GatewayLifecycle`, whose process is the one of
`ProcessOwnership`, whose program is that of `Installation`.

Some operators exist only as faulty forms of others and are used in no
specification: they are marked "Fault:" and named under "mutants" in
`PROJECT.json`. Each is a plausible mistake (a dropped guard, a wrong order, a
missing reset), and the property listed with it fails when it takes the place of
the real one.

## The runs

| run | states | instance | shows |
| --- | --- | --- | --- |
| `session_orders` | 661 000 | all orders, all answers, waiting 2, window 4, three attempts | the intent survives, quiet stays quiet, ready only when wanted, take-overs only under permission and in time |
| `session_login` | 61 000 | logins and take-overs, all answers, waiting 1, window 2, two attempts | every login is decided |
| `lifecycle` | 1 290 000 | three supervisors, three contexts, all orders, all failures | one supervisor, it owns the instance, none is lost, an answering process is not restarted; the instance keeps `InstancePromise` |
| `lifecycle_live` | 270 000 | up to two orders to one daemon, of all kinds, all failures, two supervisors, three contexts | operations end, a dead process returns |
| `ownership` | 200 000 | two managers, four PIDs, one of them used twice | one Java, none after a stop, strangers unharmed |
| `installation` | 2 470 000 | two instances, two troubles | a complete copy remains, YAML files are kept, one failure is survived, nothing moves under Java |
| `browser` | 740 000 | three session values, one ticket, two instances | grants are owned; access is as `BrowserGrants` says; what was revoked stays revoked |
| `config_transaction` | 4 430 000 | two instances, one of them operated between changes, three ports, nine configurations, two certificates, two faults, one crash | a failed change is undone as far as `Status` was right, a successful one is complete, file and memory agree, no process is left behind |
| `local_tls` | 3 690 000 | two managers, one host name, two CAs, one trouble | handshakes get a usable certificate; the imported CA stays; no crash locks the managers out |
| `config_file` | 144 000 | two instances, one of them named like the shared directory, two changes | what was saved loads again; an instance stays where it is |
| `ownership_reuse` | - | a noted wrapper's PID is used again | violation, see below |
| `installation_inside` | - | an independent instance | violation, see below |

Bounds, and why they are enough:

- Three attempts with back-off one fit in a window of four; waiting and window
  can each run out before, between and after the attempts. Two of each suffice
  for the liveness run, where every clock must run out.
- Three supervisors are one at work, one waiting for `opMu` and one on its way
  out, each with its context. Only an operation that would make a context while
  two old supervisors are on their way out and the present one has none is cut
  off. Failures before a restart, restarts and their window are one each, two
  failures where the count itself matters (`lifecycle_live`). That run gives at
  most two orders (`MaxOrders`): one to leave the instance in any state that an
  operation and its failures can leave it in, and one to come between a dead
  process and its supervisor. They are of any kinds, except that a
  reconfiguration is the first and only its restore follows it, which keeps the
  run within minutes; `OperationsEnd` asks of each order by itself that it ends.
  One daemon is enough: the beginning of another is an outcome that both
  properties allow, it leaves an initial state, and so what follows it is a
  behaviour of its own. TLC cannot use symmetry for liveness, so
  `MCLifecycleOrders` takes a fixed one of the free goroutines and contexts
  (`Canonical`).
- Four PIDs are a wrapper and a Java twice. One reused PID is enough for a
  record, a noted wrapper or a reaper to name the wrong process, as each of
  them names one PID. `RunJar` is FALSE in `ownership`, as the released program
  has `bin/run.sh`, and TRUE in `ownership_reuse`; the theorems hold for both.
- Two instances share a program; a third adds nothing, because the lock and the
  idle check treat all others alike. Two troubles are a failure and the failure
  of its repair, or a failure and a crash.
- Three session values are a login, the one that replaces it and a grant. One
  ticket is enough, as every handler treats each entry of the table of tickets by
  itself; its value is used again after it has gone. The clock has three
  instants, before, at and after an expiry.
- Nine configurations over two instances move both, hand one's port to the
  other, change a listener's scheme or its certificate in place, remove and add
  again, leave none, and change the instances, the address, the scheme and the
  certificate of a shared listener. One instance (`Used`) is operated between
  changes, so that its report and its process come apart; the other one changes
  by automatic starts and crashes. Two faults fail a change and its undo, or an
  operation and a change.
- Certificates live two units, are renewed one before the end and looked at
  every unit, and a CA lives four: with five instants a certificate runs out
  twice and its CA once. Two managers renew against each other; two CAs are one
  and its replacement. One trouble is a failed write, a loss, a reset, a stale
  backup or a clock set back; mending a loss costs none, so that a loss and
  each of its repairs are there, next to any number of crashes.
- Two IDs, one of them `shared`, whose own directory is the one that instances
  share by default; three directories of the root and one elsewhere. Two turns
  are a change and another one, or a change and a program moved by hand, with
  starts and first installations anywhere between.

Symmetry is used for PIDs, managers, session values, tokens, instances,
supervisors and contexts in runs of safety properties only.
Deadlock is checked everywhere except in `lifecycle_live`, whose one daemon stops
when its orders are given and it has shut down.

### Fairness

`GatewaySession!Fairness` and `GatewayLifecycle!Fairness` assume what the
runtime gives: goroutines run, a Go mutex starves nobody (strong fairness where
a supervisor contends for `opMu`), timers fire, and HTTP requests end after the
client's ten seconds. `lifecycle_live` also assumes that a stop or a launch that
is tried for ever succeeds at some time; without it the code retries for ever,
as it should. No fairness is given to operators, crashes, deaths of Java, or
wake-ups from the sign-in page.

`LoginIsDecided` is stated for behaviours in which, from some time on, the
operator gives no more orders, since every take-over restarts the permission,
and no answer leaves the login where it is (`Undeciding`): the process or IBKR
cannot tell, is still loading, or the user has not signed in. The code waits
through such answers without end, the permission running out only at an attempt
(login_initialization.go:35).

`DeadProcessReturns` ends where an order that stops or launches the process
intervenes (`Interrupted`): if its launch fails, the code reports that and does
not retry. A supervisor's own failed restarts are no excuse. With orders without
end it would be false, and the bound on orders matters there: an operator who
calls `recover` for ever with requests that are cut off resets the failure count
each time and postpones the restart for ever.

### What the properties leave out, and why

- `KeepaliveNotLost` has `~unrestored`: a configuration change whose undo fails
  at the stop leaves an instance shown as running without a supervisor. The
  service answers that change with the error.
- `OneProcess` and `StoppedMeansGone` do not count a Java whose manager was
  killed before Java had its port: nothing was recorded yet, and there is nothing
  to find it by (process.go:142). One that has its port is counted.
- `StrangersUnharmed` leaves out the process that was given the PID of an
  unresponsive Java while a start waited for that Java's answer (`TakenOver`,
  process.go:99-104). The PID is validated before the wait of up to the startup
  timeout and not again before it is signalled; without this exception TLC finds
  the property violated. Nor can a PID be handed out again within the five
  seconds in which `terminateProcess` watches it, and its last signal is taken as
  had at once (process.go:457).
- `FailureRestores` promises each instance the process that it had when the
  change began, or the one that `Status` reported. These differ when a process
  outlived the service, died unseen, or was left running by an operation that
  failed: an undo stops a process that nobody reported and
  starts nothing (reconfigure.go:29), and starts one that was reported and had
  gone. It also assumes that no crash had left a process on a port that is not
  its instance's (`Settled`), and that no undo failed by itself (`broken`).
- `SuccessApplies` and `FileIsMemory` say of a dedicated listener its owner,
  address and scheme and not its certificate (`Carries`): a change of
  `proxy_tls_cert_file` or `proxy_tls_key_file` succeeds and has no effect on a
  listener that stays, until a restart (listeners.go:273-281).
- Both have `broken`: after an undo that failed,
  a manager may keep other settings than the configuration, and a later change
  compares configurations only (configuration.go:229).
- `SomeCompleteCopy` assumes that no removal left a copy that only looks
  installed: `gatewayInstalled` checks two files.
- `OnlyRegisteredRun` has `crashes = 0`: after a crash before the commit, the
  process of an instance that was being added belongs to nobody.
- `TrustSurvives` is about trust given while both files are there, and a backup
  is put back while no manager is in `refresh`: the lock does not bind the
  operator.
- `HandshakesServed` is about handshakes that do not refresh; one that does may
  fail, at a CA's end for good, and the code reports it.
- `StaysPut` begins with the first file the manager writes, see below.

## Findings

1. **`ownership_reuse`** (process.go:238). When a start fails after the wrapper
   was launched, `g.cmd` keeps naming it although it was waited for. A later
   stop that finds no Gateway signals the process group of that PID, if any
   process has it by then. The comment at process.go:226 promises to terminate
   only the group this manager created.
2. **`installation_inside`** (installation.go:20). An independent instance has
   its state directory in its program directory. The first start creates it,
   and activation then renames the staged program onto an existing directory,
   which Go's `os.Rename` refuses. The console says that an empty directory gets
   the complete program at the first start (manager.html:51).

Other things the models show, at which no document says otherwise: the undo of a
failed configuration change stops a Java that outlived the service and leaves it
stopped, as the new manager's `Status` says stopped (gateway.go:90-103, 324); the
undo of a change to a detached instance launches a process in order to detach
from it, even if there was none any more; a changed certificate of a dedicated listener waits
for a restart, without a word to the operator; a start that replaces an
unresponsive Java may signal whatever has its PID by then. An upgrade
whose download fails restarts a detached process although the intent is
stopped (`ran` in `InstancePromise` allows it); an instance that takes over the port
of one removed in the same change cannot start, as removals come last; a
manager killed between the two renames of an activation leaves the live
directory missing, and the next start installs anew without the operator's own
YAML files. A file written by hand without `shared_gateway_dir` is not saved at
the first start (except with local TLS), so the directories it leaves out are
worked out again at each start until the first change, and an instance may find
itself elsewhere after a program was installed or an ID removed by hand; the
comment at config.go:634 speaks of the chosen directory as persisted. An
instance switched to independent through the API without a directory keeps the
shared one and is refused.

## What is proved

Each `<Module>_proofs` extends its module. It defines an inductive invariant as
a conjunction of named shapes, proves that `Init` and every action keep it (one
lemma per action or group of actions), and derives the properties. The bounds
(`MaxNow`, `MaxFaults`, `MaxTroubles`, `MaxLives`, ...) are constants like the
others: the theorems hold for each value of them, and for any sets of
instances, managers, supervisors, PIDs, values, configurations and answers.

| module | theorem | property |
| --- | --- | --- |
| `GatewaySession` | `TypesCorrect` | `TypeOK` |
| | `QuietHolds` | `QuietStaysQuiet` |
| | `IntentDurable` | `IntentIsDurable` |
| | `ReadyWanted` | `ReadyIsWanted` |
| | `TakeoverPermitted` | `TakeoverNeedsPermission` |
| | `TakeoverTimely` | `TakeoverInTime` |
| `GatewayLifecycle` | `InstanceTyped` | `TypeOK` |
| | `OneSupervisor` | `SingleSupervisor` |
| | `SupervisorsOwn` | `SupervisorOwnsInstance` |
| | `KeepaliveStays` | `KeepaliveNotLost` |
| | `AnsweringProcessStays` | `AnsweringProcessKept` (action property) |
| | `InstanceKeepsPromise` | `KeepsPromise` (implements `InstancePromise`) |
| `BrowserAuth` | `AccessTyped` | `TypeOK` |
| | `GrantsStayOwned` | `GrantsAreOwned` |
| | `RevocationIsFinal` | `RevokedStaysRevoked` |
| | `AccessImplementsGrants` | `GrantsAsPromised` (implements `BrowserGrants`) |
| `ProcessOwnership` | `OwnershipTyped` | `TypeOK` |
| | `OneJava` | `OneProcess` |
| | `StopLeavesNone` | `StoppedMeansGone` |
| | `StrangersAreSafe` | `StrangersUnharmed` (action property), if `~StaleReuse` |
| `Installation` | `InstallationTyped` | `TypeOK` |
| | `ConfigurationsKept` | `ConfigsKept` |
| | `FailureSurvived` | `OneFailureIsSurvived` |
| | `NotMovedUnderJava` | `NotUnderJava` (action property) |
| | `CompleteCopyStays` | `SomeCompleteCopy`, if `~StateInside` |
| `ConfigTransaction` | `TransactionTyped` | `TypeOK` |
| | `ConfigurationInForce` | `FileIsMemory` |
| | `NoProcessLeftBehind` | `OnlyRegisteredRun` |
| | `FailureIsUndone` | `FailureRestores` |
| | `SuccessIsComplete` | `SuccessApplies` |
| `LocalTLS` | `CertificatesTyped` | `TypeOK` |
| | `EveryHandshakeServed` | `HandshakesServed` |
| | `TrustedCASurvives` | `TrustSurvives` |
| | `NoOrphanByCrash` | `CrashLeavesIdentity` |
| `ConfigFile` | `PlacesTyped` | `TypeOK` |
| | `SavedFileLoads` | `SavedLoads` |
| | `InstancesStayPut` | `StaysPut` |

The assumptions are those of the modules: constants that stand for "none" are
no names, times and bounds are numbers, `MaxFailures`, `MaxRestarts` and the
session's timers positive; in `LocalTLS` a certificate is looked at before it
is due for renewal, which is before its end, which is before the CA's; in
`ConfigTransaction` the configurations are ones that `Validate` accepts; in
`ConfigFile` the names of directories include the instances' own. Two theorems
have a hypothesis more. `StrangersAreSafe` needs that the PID of a dead wrapper
is not used again while it is noted: without it the property is false, which is
finding 1. `CompleteCopyStays` needs a state directory outside of the program:
inside, a first start makes a directory that is there and is no program
(finding 2).

Why the invariants are what they are:

- **`GatewaySession`** has two. `IntentInvariant` says who holds `opMu` and at
  which step (`OrderShape`), that a refresh is in progress only under `opMu` and
  with a connected intent (`CallShape`), that file and memory agree except
  between the two halves of `setIntent` (`IntentShape`), and what quiet and
  ready imply. A refresh that ran without `opMu` could see an intent change
  under it, so nothing is inductive without `OrderShape`. `GrantInvariant`
  relates the permission the code keeps to the one the operator gave: a pending
  permission has counted at least as many attempts as were sent (`GrantShape`),
  and its time left plus the age of the grant stays within the limits
  (`TimeShape`).
- **`GatewayLifecycle`**: supervisors outlive the operations that cancel them.
  `LoopShape` tells the one that counts from the others: its context is the
  instance's, the only one not cancelled, and its generation the current one.
  `OpShape` says which steps belong to which operation, `OwnShape` that a
  context means the lock, `ServedShape` who supervises while an operation is
  half done, and `PromiseShape` what the operation may still do to the process;
  the refinement rests on it.
- **`BrowserAuth`**: a handler writes what it read before it gave up `mu`. A
  value is drawn once and names one login for ever, so a copied expiry is that
  of the login as long as there is one (`Copied`, `RequestShape`). For the
  refinement, each handler's writing step is a step of `BrowserGrants` or
  changes nothing it sees.
- **`ProcessOwnership`**: a Java that counts is in the group its manager waits
  for, or has the port, where `findGatewayListener` sees it, and no record
  hides it: there is none or it names this process with its start time
  (`JavaShape`). So a late reaper may remove any record (process.go:399)
  without a second Java or one that a stop does not find. While a start waits,
  the start time of what it found tells whether the PID is still that process's
  (`Awaited`), which is all that separates the exception of `StrangersUnharmed`
  from a violation. A noted wrapper's PID is no stranger's under `~StaleReuse`
  only (`NotedShape`).
- **`Installation`**: only the holder of the lock is in an operation, so the
  invariant says per step where the copies are (`CopyShape`), where the YAML
  files that were there are (`YamlShape`), and which copy is complete after one
  failure (`SurvivalShape`). Java runs from an installed program only
  (`RunsInstalled`).
- **`ConfigTransaction`**: during a transaction all is compared with `before`.
  The undo stack names each instance that differs from it once, with what
  `Status` said of it and its old settings (`UndoShape`, `UntouchedShape`); what
  was launched took no port that a later undo gives back (`FreeShape`), so that
  every undo finds its port free although ports are handed from one instance to
  another; and a manager that was touched without holding its lock has launched
  nothing, so that an undo that stops nothing leaves nothing new (`LockShape`).
  The listeners before and after
  have one address each and serve what is wanted (`Carries`).
- **`LocalTLS`**: what is about to be written is of the CA in the file, unless
  the operator took the file away in between (`CAShape`), and serves all hosts
  beyond the next look (`NextShape`, `MemShape`).
- **`ConfigFile`**: `Validate` settles a configuration. What it made once it
  makes again whatever is installed by then (`NormalKeeps`), because an entry
  that inherits is afterwards recognised by its YAML path and not by the disk
  (`SettledEntry`). So a saved file is loaded as it is, and a client that sends
  an instance back, with or without its paths, changes nothing.

Each invariant was checked with TLC on the instances of the runs before it was
proved.

Only model-checked: `LoginIsDecided`, `OperationsEnd` and `DeadProcessReturns`,
as fairness and ENABLED are outside of TLAPS. That a step of a module is
possible at all is shown by the runs alone.

## What is not modelled

HTTP rewriting in the reverse proxy, the audit log, copying and unzipping, the
web console, packaging, and the Windows build; `PROJECT.json` gives the reason
for each. Of the configuration: the rules about ports, host names and origins,
which look at one record, and the deprecated form of a single gateway. Within
modelled components: the login rate limit, a program directory that is a
symbolic link, a record left with another port, dispatch by host name in the
shared listener, and the embedder calls `EnsureAuthenticated`, `EnsureRunning`,
`EnsureInstalled` and `StartHealthMonitor` on their own.

## Plan

Written: the session first, as the reason the program exists; then the
lifecycle that drives it, the process under it, the program under that, the
browser's access, the transaction over all instances, the abstract instance,
the local certificates, and the directories of the configuration file.

All properties that the runs check are proved, but for liveness.

Next:

1. `ProcessOwnership` with the port and the directory in the record, and
   `Installation` with a program directory that is a symbolic link (two paths of
   the lock), with their invariants extended.
2. `ConfigTransaction` with deaths and probes within a change, and with the two
   critical sections of its publication (configuration.go:257-280) beside the
   requests of `BrowserAuth`.
3. What the runs leave to a hypothesis: how far `FileIsMemory` and
   `SuccessApplies` can be stated after an undo that failed.

## Running

    tlc -workers 2 -config SessionOrders.cfg MCGatewaySession
    tlapm GatewaySession_proofs.tla

The other runs are listed with their modules in `PROJECT.json`; each ends within
four minutes on two cores. From nothing, the proofs take about nine minutes for
`Installation_proofs` and up to three for each of the others.
