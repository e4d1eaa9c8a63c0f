-------------------------- MODULE InstancePromise ---------------------------
(***************************************************************************)
(* What an instance promises to the operator, independent of its locks,    *)
(* goroutines and steps: how the intent, the process and what the console  *)
(* shows of them belong together.                                          *)
(*                                                                         *)
(* "stopped" is shown of an ended process only.  A process is launched     *)
(* while the operator wants one, or to put back one that an operation      *)
(* ended.  A session is ready on an answer of the process to an operator   *)
(* who wants it, and is never shown as ready after that has changed.       *)
(***************************************************************************)
VARIABLES
    wanted,   \* the intent: connected, logged_out or stopped
    process,  \* there is a process that answers on the port
    shown,    \* the state shown
    seen,     \* the process is shown as online
    ready,    \* the session is shown as ready
    ran       \* the operation in progress began with a process

Intents == {"connected", "logged_out", "stopped"}
Shown   == {"stopped", "detached", "serving", "other"}

Init ==
    /\ wanted \in Intents /\ process \in BOOLEAN
    /\ shown = "stopped" /\ seen = FALSE /\ ready = FALSE /\ ran = FALSE

\* What is shown may change in any step, for a reason.
Shows ==
    /\ shown' \in Shown /\ seen' \in BOOLEAN /\ ready' \in BOOLEAN
    /\ shown' = "stopped" => shown = "stopped" \/ ~process'
    /\ seen' => seen \/ process'
    /\ ready' => shown' = "serving" /\ wanted' = "connected" /\ (ready \/ process)

\* An operation remembers what ran until it is over.
Remembers == ran' => ran \/ process \/ seen \/ shown = "detached"

\* An order, or the intent put back with the old configuration.
Order(intent) == wanted' = intent /\ UNCHANGED process /\ Shows /\ Remembers

Works == UNCHANGED <<wanted, process>> /\ Shows /\ Remembers

Launch ==
    /\ wanted # "stopped" \/ ran
    /\ ~process /\ process' = TRUE /\ ready' = FALSE
    /\ UNCHANGED wanted /\ Shows /\ Remembers

\* The process is stopped or dies.
Ends == process' = FALSE /\ UNCHANGED wanted /\ Shows /\ Remembers

\* Another manager begins, and has not looked yet.
NewManager ==
    /\ shown' = "stopped" /\ seen' = FALSE /\ ready' = FALSE /\ ran' = FALSE
    /\ UNCHANGED <<wanted, process>>

Next == (\E intent \in Intents : Order(intent)) \/ Works \/ Launch \/ Ends \/ NewManager

Spec == Init /\ [][Next]_<<wanted, process, shown, seen, ready, ran>>
=============================================================================
