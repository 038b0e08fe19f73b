---------------------------- MODULE RuntimeLock ----------------------------
(***************************************************************************)
(* Locking and unlocking the daemon: Runtime.Lock and Runtime.Unlock of    *)
(* internal/serve/runtime.go, the goroutines that call them, and the part  *)
(* of a tool call that meets a locked daemon (runTool's lock check and     *)
(* resolveLock with its unlockGate, internal/mcp).                         *)
(*                                                                         *)
(* Goroutines:                                                             *)
(*   - one per in-flight tool call (Calls);                                *)
(*   - the SIGUSR1 / SIGUSR2 goroutine (Sig), which serves its channel one *)
(*     signal at a time, so it is itself an unlocker and a locker;         *)
(*   - the idle tracker and the lockwatch reader, which only lock.         *)
(*                                                                         *)
(* A session is a generation number: 1 is the one Setup acquired, and each *)
(* approved unlock prompt acquires the next.  live holds those that are    *)
(* not Closed.                                                             *)
(***************************************************************************)
EXTENDS Naturals, Sequences, FiniteSets

CONSTANTS
    Calls,        \* tool-call goroutines
    Sig,          \* the signal goroutine
    NoOne,        \* unlockMu is free
    Cooldown,     \* unlockGate.cooldown, in clock ticks
    IdleAfter,    \* idle_lock_minutes, in clock ticks; 0 disables it
    SigCap,       \* capacity of usrCh
    MaxTime,      \* bound: the clock stops here
    MaxSession    \* bound: no prompt is approved after this many sessions

Unlockers == Calls \cup {Sig}

ASSUME ConstantsAssumption ==
    /\ Sig \notin Calls
    /\ NoOne \notin Unlockers
    /\ Cooldown \in Nat
    /\ IdleAfter \in Nat
    /\ SigCap \in Nat
    /\ MaxTime \in Nat
    /\ MaxSession \in Nat

VARIABLES
    clock,
    locked,        \* Runtime.locked
    session,       \* Runtime.Session, by generation
    bound,         \* generation captured by the registered tools
    live,          \* generations that are open
    acquired,      \* generations handed out so far
    unlockMu,      \* the unlocker that holds Runtime.unlockMu
    unlock,        \* where each unlocker is inside Runtime.Unlock
    pending,       \* the session an unlocker acquired and has not installed
    failed,        \* the error (yes or no) of a call's last Unlock
    inFlight,      \* unlockGate.inFlight
    nextOK,        \* unlockGate.nextOK
    call,          \* where each tool call is
    tool,          \* generation captured by the Tool value a call holds
    lastActivity,  \* idleTracker.lastActivity
    idle,          \* where the idle tracker goroutine is
    watch,         \* where the lockwatch reader goroutine is
    sig,           \* where the signal goroutine is
    usrCh,         \* signals waiting for that goroutine
    lockFile       \* the flag in lockstate.json

gateVars   == <<inFlight, nextOK>>
callVars   == <<failed, gateVars, call, tool, lastActivity>>
unlockVars == <<unlockMu, unlock, pending>>
stateVars  == <<locked, session, bound, live, acquired>>
vars == <<clock, stateVars, unlockVars, callVars, idle, watch, sig, usrCh,
          lockFile>>

----------------------------------------------------------------------------
Signals == {"lock", "unlock"}                      \* SIGUSR1, SIGUSR2
UnlockSteps == {"none", "want", "prompt", "swap", "publish"}
CallSteps == {"idle", "check", "ask", "unlocking", "end", "recheck", "lookup",
              "admitted", "run"}
LockerSteps == {"wait", "lock", "publish"}
SigSteps == LockerSteps \cup {"unlock"}

(* Every variable has its type; the cooldown's end is a point in time. *)
TypeOK ==
    /\ clock \in Nat
    /\ locked \in BOOLEAN
    /\ session \in Nat /\ bound \in Nat /\ acquired \in Nat
    /\ live \in SUBSET Nat
    /\ unlockMu \in Unlockers \cup {NoOne}
    /\ unlock \in [Unlockers -> UnlockSteps]
    /\ pending \in [Unlockers -> Nat]
    /\ failed \in [Calls -> BOOLEAN]
    /\ inFlight \in BOOLEAN
    /\ nextOK \in Nat
    /\ call \in [Calls -> CallSteps]
    /\ tool \in [Calls -> Nat]
    /\ lastActivity \in Nat
    /\ idle \in LockerSteps
    /\ watch \in LockerSteps
    /\ sig \in SigSteps
    /\ usrCh \in Seq(Signals)
    /\ lockFile \in BOOLEAN

Init ==
    /\ clock = 0
    /\ locked = FALSE
    /\ session = 1 /\ bound = 1 /\ acquired = 1
    /\ live = {1}
    /\ unlockMu = NoOne
    /\ unlock = [p \in Unlockers |-> "none"]
    /\ pending = [p \in Unlockers |-> 0]
    /\ failed = [c \in Calls |-> FALSE]
    /\ inFlight = FALSE
    /\ nextOK = 0
    /\ call = [c \in Calls |-> "idle"]
    /\ tool = [c \in Calls |-> 0]
    /\ lastActivity = 0
    /\ idle = "wait"
    /\ watch = "wait"
    /\ sig = "wait"
    /\ usrCh = <<>>
    /\ lockFile = FALSE                \* Setup publishes "unlocked" last

Tick ==
    /\ clock < MaxTime
    /\ clock' = clock + 1
    /\ UNCHANGED <<stateVars, unlockVars, callVars, idle, watch, sig, usrCh,
                   lockFile>>

----------------------------------------------------------------------------
(* Runtime.Lock, the part under r.mu.  A locked daemon is left alone.      *)
(* Otherwise the session is Closed; the caller still has to publish.       *)
Fault_FlagOnlyLock == {}

ClosedByLock == IF locked THEN {} ELSE {session}

LockNow ==
    /\ locked' = TRUE
    /\ live' = live \ ClosedByLock
    /\ UNCHANGED <<session, bound, acquired>>

AfterLock == IF locked THEN "wait" ELSE "publish"

(* The idle tracker reads lastActivity, and only later calls Lock. *)
IdleTick ==
    /\ idle = "wait"
    /\ IdleAfter > 0
    /\ clock >= lastActivity + IdleAfter
    /\ idle' = "lock"
    /\ UNCHANGED <<clock, stateVars, unlockVars, callVars, watch, sig, usrCh,
                   lockFile>>

IdleLock ==
    /\ idle = "lock"
    /\ LockNow
    /\ idle' = AfterLock
    /\ UNCHANGED <<clock, unlockVars, callVars, watch, sig, usrCh, lockFile>>

IdlePublish ==
    /\ idle = "publish"
    /\ lockFile' = TRUE
    /\ idle' = "wait"
    /\ UNCHANGED <<clock, stateVars, unlockVars, callVars, watch, sig, usrCh>>

(* The helper prints screen_locked or sleep; the reader calls Lock.  Its   *)
(* other lines change nothing.                                             *)
WatchLine ==
    /\ watch = "wait"
    /\ watch' = "lock"
    /\ UNCHANGED <<clock, stateVars, unlockVars, callVars, idle, sig, usrCh,
                   lockFile>>

WatchLock ==
    /\ watch = "lock"
    /\ LockNow
    /\ watch' = AfterLock
    /\ UNCHANGED <<clock, unlockVars, callVars, idle, sig, usrCh, lockFile>>

WatchPublish ==
    /\ watch = "publish"
    /\ lockFile' = TRUE
    /\ watch' = "wait"
    /\ UNCHANGED <<clock, stateVars, unlockVars, callVars, idle, sig, usrCh>>

----------------------------------------------------------------------------
(* The signal goroutine.  signal.Notify drops a signal that finds usrCh    *)
(* full; the goroutine takes the next one only when it is done with the    *)
(* previous, prompt included.                                              *)
Notify(s) ==
    /\ usrCh' = IF Len(usrCh) < SigCap THEN Append(usrCh, s) ELSE usrCh
    /\ UNCHANGED <<clock, stateVars, unlockVars, callVars, idle, watch, sig,
                   lockFile>>

SigTakeLock ==
    /\ sig = "wait" /\ usrCh # <<>>
    /\ Head(usrCh) = "lock"
    /\ usrCh' = Tail(usrCh)
    /\ sig' = "lock"
    /\ UNCHANGED <<clock, stateVars, unlockVars, callVars, idle, watch,
                   lockFile>>

SigTakeUnlock ==
    /\ sig = "wait" /\ usrCh # <<>>
    /\ Head(usrCh) = "unlock"
    /\ usrCh' = Tail(usrCh)
    /\ sig' = "unlock"
    /\ unlock' = [unlock EXCEPT ![Sig] = "want"]
    /\ UNCHANGED <<clock, stateVars, unlockMu, pending, callVars, idle, watch,
                   lockFile>>

SigLock ==
    /\ sig = "lock"
    /\ LockNow
    /\ sig' = AfterLock
    /\ UNCHANGED <<clock, unlockVars, callVars, idle, watch, usrCh, lockFile>>

SigPublish ==
    /\ sig = "publish"
    /\ lockFile' = TRUE
    /\ sig' = "wait"
    /\ UNCHANGED <<clock, stateVars, unlockVars, callVars, idle, watch, usrCh>>

----------------------------------------------------------------------------
(* Runtime.Unlock(ctx) returns to its caller p with an error or without:   *)
(* unlockMu is released by the deferred Unlock.                            *)
Fault_MutexKeptOnError(err) == IF err THEN unlockMu ELSE NoOne
MutexAfterUnlock(err) == NoOne

(* A failed unlock is logged and the signal goroutine goes on. *)
Fault_SignalLoopEnds(err) == IF err THEN "unlock" ELSE "wait"
SigAfterUnlock(err) == "wait"

UnlockReturns(p, err) ==
    /\ unlockMu' = MutexAfterUnlock(err)
    /\ unlock' = [unlock EXCEPT ![p] = "none"]
    /\ IF p = Sig
       THEN /\ sig' = SigAfterUnlock(err)
            /\ UNCHANGED <<failed, call>>
       ELSE /\ failed' = [failed EXCEPT ![p] = err]
            /\ call' = [call EXCEPT ![p] = "end"]
            /\ UNCHANGED sig
    /\ UNCHANGED <<gateVars, tool, lastActivity>>

(* Take unlockMu and read the flag.  An already unlocked daemon returns    *)
(* nil at once; a locked one raises the Touch ID prompt.                   *)
MutexFree == unlockMu = NoOne

UnlockBegin(p) ==
    /\ unlock[p] = "want"
    /\ MutexFree
    /\ IF locked
       THEN /\ unlockMu' = p
            /\ unlock' = [unlock EXCEPT ![p] = "prompt"]
            /\ UNCHANGED <<callVars, sig>>
       ELSE UnlockReturns(p, FALSE)
    /\ UNCHANGED <<clock, stateVars, pending, idle, watch, usrCh, lockFile>>

(* The prompt is declined or times out, or the resume behind it fails. *)
PromptFails(p) ==
    /\ unlock[p] = "prompt"
    /\ UnlockReturns(p, TRUE)
    /\ UNCHANGED <<clock, stateVars, pending, idle, watch, usrCh, lockFile>>

(* The prompt is approved and the stored login resumed: a new session is   *)
(* open, held by p alone until the swap.                                   *)
PromptApproved(p) ==
    /\ unlock[p] = "prompt"
    /\ acquired < MaxSession
    /\ acquired' = acquired + 1
    /\ live' = live \cup {acquired + 1}
    /\ pending' = [pending EXCEPT ![p] = acquired + 1]
    /\ unlock' = [unlock EXCEPT ![p] = "swap"]
    /\ UNCHANGED <<clock, locked, session, bound, unlockMu, callVars, idle,
                   watch, sig, usrCh, lockFile>>

(* The critical section under r.mu: install the session, rebind the tools, *)
(* bump the idle clock, clear the flag.  A daemon found unlocked discards  *)
(* the new session instead.                                                *)
Fault_ToolsNotRebound(p) == bound
ReboundTo(p) == pending[p]

Swap(p) ==
    /\ unlock[p] = "swap"
    /\ IF locked
       THEN /\ session' = pending[p]
            /\ bound' = ReboundTo(p)
            /\ lastActivity' = clock
            /\ locked' = FALSE
            /\ unlock' = [unlock EXCEPT ![p] = "publish"]
            /\ UNCHANGED <<live, acquired, unlockMu, failed, gateVars, call, tool,
                           sig>>
       ELSE /\ live' = live \ {pending[p]}
            /\ UnlockReturns(p, FALSE)
            /\ UNCHANGED <<locked, session, bound, acquired>>
    /\ pending' = [pending EXCEPT ![p] = 0]
    /\ UNCHANGED <<clock, idle, watch, usrCh, lockFile>>

UnlockPublish(p) ==
    /\ unlock[p] = "publish"
    /\ lockFile' = FALSE
    /\ UnlockReturns(p, FALSE)
    /\ UNCHANGED <<clock, stateVars, pending, idle, watch, usrCh>>

----------------------------------------------------------------------------
(* A tool call.  handleToolsCall looks the tool up before runTool checks   *)
(* the lock.                                                               *)
Dispatch(c) ==
    /\ call[c] = "idle"
    /\ call' = [call EXCEPT ![c] = "check"]
    /\ tool' = [tool EXCEPT ![c] = bound]
    /\ UNCHANGED <<clock, stateVars, unlockVars, failed, gateVars, lastActivity,
                   idle, watch, sig, usrCh, lockFile>>

(* The lock check.  It is a read: the daemon may lock right after it. *)
CheckLock(c) ==
    /\ call[c] = "check"
    /\ call' = [call EXCEPT ![c] = IF locked THEN "ask" ELSE "admitted"]
    /\ UNCHANGED <<clock, stateVars, unlockVars, failed, gateVars, tool,
                   lastActivity, idle, watch, sig, usrCh, lockFile>>

(* A call that got past the lock bumps the idle clock. *)
Admit(c) ==
    /\ call[c] = "admitted"
    /\ lastActivity' = clock
    /\ call' = [call EXCEPT ![c] = "run"]
    /\ UNCHANGED <<clock, stateVars, unlockVars, failed, gateVars, tool, idle,
                   watch, sig, usrCh, lockFile>>

(* runTool returns: the call is over and its Tool value is gone. *)
CallOver(c) ==
    /\ call' = [call EXCEPT ![c] = "idle"]
    /\ tool' = [tool EXCEPT ![c] = 0]

(* unlockGate.begin: one prompt in flight, none during the cooldown. *)
Fault_GateWithoutCooldown == ~inFlight
GateOpen == ~inFlight /\ clock >= nextOK

AskGate(c) ==
    /\ call[c] = "ask"
    /\ IF GateOpen
       THEN /\ inFlight' = TRUE
            /\ call' = [call EXCEPT ![c] = "unlocking"]
            /\ unlock' = [unlock EXCEPT ![c] = "want"]
            /\ UNCHANGED tool
       ELSE /\ CallOver(c)
            /\ UNCHANGED <<inFlight, unlock>>
    /\ UNCHANGED <<clock, stateVars, unlockMu, pending, failed, nextOK,
                   lastActivity, idle, watch, sig, usrCh, lockFile>>

(* unlockGate.end, after Unlock returned. *)
ReservedAfter(err) == FALSE

Fault_CooldownBackwards == clock - Cooldown
CooldownEnd == clock + Cooldown

GateEnd(c) ==
    /\ call[c] = "end"
    /\ inFlight' = ReservedAfter(failed[c])
    /\ nextOK' = IF failed[c] THEN CooldownEnd ELSE 0
    /\ failed' = [failed EXCEPT ![c] = FALSE]
    /\ IF failed[c]
       THEN CallOver(c)
       ELSE /\ call' = [call EXCEPT ![c] = "recheck"]
            /\ UNCHANGED tool
    /\ UNCHANGED <<clock, stateVars, unlockVars, lastActivity, idle, watch,
                   sig, usrCh, lockFile>>

(* resolveLock reads the flag again. *)
Recheck(c) ==
    /\ call[c] = "recheck"
    /\ IF locked
       THEN CallOver(c)
       ELSE /\ call' = [call EXCEPT ![c] = "lookup"]
            /\ UNCHANGED tool
    /\ UNCHANGED <<clock, stateVars, unlockVars, failed, gateVars, lastActivity,
                   idle, watch, sig, usrCh, lockFile>>

(* runTool looks its tool up afresh. *)
Fault_DispatchedTool(c) == tool[c]
ResumedTool(c) == bound

LookupTool(c) ==
    /\ call[c] = "lookup"
    /\ tool' = [tool EXCEPT ![c] = ResumedTool(c)]
    /\ call' = [call EXCEPT ![c] = "admitted"]
    /\ UNCHANGED <<clock, stateVars, unlockVars, failed, gateVars, lastActivity,
                   idle, watch, sig, usrCh, lockFile>>

(* The rest of the pipeline (ToolCall models it) ends. *)
Finish(c) ==
    /\ call[c] = "run"
    /\ CallOver(c)
    /\ UNCHANGED <<clock, stateVars, unlockVars, failed, gateVars, lastActivity,
                   idle, watch, sig, usrCh, lockFile>>

----------------------------------------------------------------------------
CallStep(c) ==
    \/ Dispatch(c) \/ CheckLock(c) \/ Admit(c) \/ AskGate(c) \/ GateEnd(c)
    \/ Recheck(c) \/ LookupTool(c) \/ Finish(c)

UnlockStep(p) ==
    \/ UnlockBegin(p) \/ PromptFails(p) \/ PromptApproved(p)
    \/ Swap(p) \/ UnlockPublish(p)

IdleStep  == IdleTick \/ IdleLock \/ IdlePublish
WatchStep == WatchLine \/ WatchLock \/ WatchPublish
SigStep   == SigTakeLock \/ SigTakeUnlock \/ SigLock \/ SigPublish

Next ==
    \/ Tick
    \/ IdleStep \/ WatchStep \/ SigStep
    \/ \E s \in Signals : Notify(s)
    \/ \E c \in Calls : CallStep(c)
    \/ \E p \in Unlockers : UnlockStep(p)

Spec == Init /\ [][Next]_vars

(* Fairness.  Every goroutine that can run does.  A prompt ends: the       *)
(* helper is killed after 60s.  sync.Mutex hands itself to a waiter that   *)
(* has starved for a millisecond, hence SF on taking unlockMu.  Nothing    *)
(* makes the user, the screen or a client act.                             *)
Fairness ==
    /\ \A c \in Calls :
        WF_vars(CheckLock(c) \/ Admit(c) \/ AskGate(c) \/ GateEnd(c)
                \/ Recheck(c) \/ LookupTool(c) \/ Finish(c))
    /\ \A p \in Unlockers :
        /\ SF_vars(UnlockBegin(p))
        /\ WF_vars(PromptFails(p) \/ PromptApproved(p))
        /\ WF_vars(Swap(p) \/ UnlockPublish(p))
    /\ WF_vars(IdleLock \/ IdlePublish)
    /\ WF_vars(WatchLock \/ WatchPublish)
    /\ WF_vars(SigStep)

FairSpec == Spec /\ Fairness

----------------------------------------------------------------------------
(* Properties. *)

(* An unlocked daemon can serve mail: its session is open and the          *)
(* registered tools are bound to that very session, however locks and      *)
(* unlocks interleave (Runtime.Lock, Runtime.Unlock, ReplaceTools).        *)
UnlockedIsUsable == ~locked => session \in live /\ bound = session

(* Locking leaves no key material behind: the only open sessions are the   *)
(* installed one of an unlocked daemon and the one an approved prompt has  *)
(* just acquired and is about to install.                                  *)
NoSpareSession ==
    \A g \in live :
        \/ ~locked /\ g = session
        \/ \E p \in Unlockers : unlock[p] = "swap" /\ g = pending[p]

(* unlockMu's purpose: two unlocks never prompt at once, and one that has  *)
(* been approved still finds the daemon locked, so no approved session is  *)
(* thrown away (the "lost a race" branch of Unlock is never taken).        *)
Prompting == {p \in Unlockers : unlock[p] \in {"prompt", "swap"}}

UnlockSerialized ==
    /\ \A p, q \in Prompting : p = q
    /\ Prompting # {} => locked

(* The unlock gate is reserved exactly while one tool call is inside       *)
(* Unlock: a reservation is never leaked, which would refuse every later   *)
(* locked call, and never shared.                                          *)
GateOwner == {c \in Calls : call[c] \in {"unlocking", "end"}}

GateReserved ==
    /\ inFlight <=> GateOwner # {}
    /\ \A c, d \in GateOwner : c = d

(* A call that waited out an unlock goes on with a tool bound to an open   *)
(* session, not with the copy it was dispatched with (PROTO-132), unless   *)
(* the daemon was locked again while the call looked its tool up.          *)
ResumedCallIsFresh ==
    [][\A c \in Calls : call[c] = "lookup" /\ call'[c] = "admitted"
        => locked \/ tool'[c] \in live]_vars

(* Every tool call that reached the lock check gets an answer: it is       *)
(* refused or goes on, whoever holds the unlock prompt.                    *)
CallReturns == \A c \in Calls : call[c] # "idle" ~> call[c] = "idle"

(* Every SIGUSR1 that usrCh accepted reaches Lock in the end, also from    *)
(* behind a SIGUSR2 whose prompt is pending or waits for another unlock.   *)
LockSignalServed ==
    (\E i \in 1..Len(usrCh) : usrCh[i] = "lock") ~> sig = "lock"

(* RuntimeLock implements DaemonLock: an unlock takes effect at the swap,  *)
(* and the sessions still in an unlocker's hands are invisible.            *)
DL == INSTANCE DaemonLock WITH open <- session \in live
Refinement == DL!DLSpec
=============================================================================
