---------------------------- MODULE DaemonLock ----------------------------
(***************************************************************************)
(* What the daemon promises about its lock, with every goroutine, prompt   *)
(* and file left out.  A locked daemon holds no usable Proton session; an  *)
(* unlocked one has its tool handlers bound to exactly one usable session, *)
(* and each unlock brings a session that was never used before.            *)
(*                                                                         *)
(* RuntimeLock refines this specification; ToolCall composes it with the   *)
(* tool-call pipeline.                                                     *)
(***************************************************************************)
EXTENDS Naturals

VARIABLES
    locked,     \* Runtime.locked
    session,    \* the generation of Runtime.Session
    bound,      \* the generation the registered tool handlers captured
    open        \* Session has not been Closed

dlVars == <<locked, session, bound, open>>

DLTypeOK ==
    /\ locked \in BOOLEAN
    /\ session \in Nat
    /\ bound \in Nat
    /\ open \in BOOLEAN

(* Setup acquires generation 1 and registers the tools with it. *)
DLInit ==
    /\ locked = FALSE
    /\ session = 1
    /\ bound = 1
    /\ open = TRUE

DLLock ==
    /\ ~locked
    /\ locked' = TRUE
    /\ open' = FALSE
    /\ UNCHANGED <<session, bound>>

DLUnlock ==
    /\ locked
    /\ locked' = FALSE
    /\ session' \in Nat
    /\ session' > session
    /\ bound' = session'
    /\ open' = TRUE

DLNext == DLLock \/ DLUnlock

DLSpec == DLInit /\ [][DLNext]_dlVars
=============================================================================
