------------------------- MODULE RuntimeLockProofs -------------------------
(***************************************************************************)
(* Proofs about RuntimeLock, and about the declined prompts MCRuntimeLock   *)
(* records, for any number of tool calls and any bounds.                   *)
(***************************************************************************)
EXTENDS MCRuntimeLock, TLAPS

USE DEF Unlockers, Signals, UnlockSteps, CallSteps, LockerSteps, SigSteps

----------------------------------------------------------------------------
(* Typing, one lemma per kind of goroutine. *)

LEMMA InitTypes == Init => TypeOK
<1> SUFFICES ASSUME Init PROVE TypeOK
  OBVIOUS
<1>1. /\ unlock \in [Unlockers -> UnlockSteps]
      /\ pending \in [Unlockers -> Nat]
      /\ failed \in [Calls -> BOOLEAN]
      /\ call \in [Calls -> CallSteps]
      /\ tool \in [Calls -> Nat]
      /\ usrCh \in Seq(Signals)
  BY DEF Init
<1>2. locked \in BOOLEAN /\ inFlight \in BOOLEAN /\ lockFile \in BOOLEAN
  BY DEF Init
<1> QED
  BY <1>1, <1>2 DEF Init, TypeOK

LEMMA LockerTypes ==
  ASSUME TypeOK, IdleStep \/ WatchStep PROVE TypeOK'
<1> USE DEF LockNow, AfterLock, ClosedByLock, stateVars, unlockVars, callVars,
            gateVars, TypeOK
<1>1. CASE IdleStep
  BY <1>1 DEF IdleStep, IdleTick, IdleLock, IdlePublish
<1>2. CASE WatchStep
  BY <1>2 DEF WatchStep, WatchLine, WatchLock, WatchPublish
<1> QED
  BY <1>1, <1>2

LEMMA SigTypes ==
  ASSUME TypeOK, SigStep \/ \E s \in Signals : Notify(s) PROVE TypeOK'
<1> USE DEF TypeOK, stateVars, unlockVars, callVars, gateVars
<1>1. CASE SigTakeLock
  BY <1>1 DEF SigTakeLock
<1>2. CASE SigTakeUnlock
  BY <1>2 DEF SigTakeUnlock
<1>3. CASE SigLock \/ SigPublish
  BY <1>3 DEF SigLock, SigPublish, LockNow, AfterLock, ClosedByLock
<1>4. CASE \E s \in Signals : Notify(s)
  BY <1>4 DEF Notify
<1> QED
  BY <1>1, <1>2, <1>3, <1>4 DEF SigStep

LEMMA CallOverTypes ==
  ASSUME TypeOK, NEW c \in Calls, CallOver(c)
  PROVE  call' \in [Calls -> CallSteps] /\ tool' \in [Calls -> Nat]
  BY DEF TypeOK, CallOver

LEMMA CallTypes ==
  ASSUME TypeOK, NEW c \in Calls, CallStep(c) PROVE TypeOK'
<1> USE DEF TypeOK, stateVars, unlockVars, gateVars
<1>1. CASE Dispatch(c)
  BY <1>1 DEF Dispatch
<1>2. CASE CheckLock(c)
  BY <1>2 DEF CheckLock
<1>3. CASE AskGate(c)
  <2>1. inFlight' \in BOOLEAN
    BY <1>3 DEF AskGate
  <2>2. CASE GateOpen
    BY <1>3, <2>1, <2>2 DEF AskGate
  <2>3. CASE ~GateOpen
    BY <1>3, <2>1, <2>3, CallOverTypes DEF AskGate
  <2> QED
    BY <2>2, <2>3
<1>4. CASE GateEnd(c)
  <2>1. inFlight' \in BOOLEAN /\ failed' \in [Calls -> BOOLEAN]
    BY <1>4 DEF GateEnd, ReservedAfter
  <2>2. CASE failed[c]
    <3>1. CallOver(c) /\ nextOK' = clock + Cooldown
      BY <1>4, <2>2 DEF GateEnd, CooldownEnd
    <3>2. nextOK' \in Nat
      BY <3>1, ConstantsAssumption
    <3> QED
      BY <1>4, <2>1, <2>2, <3>1, <3>2, CallOverTypes DEF GateEnd
  <2>3. CASE ~failed[c]
    BY <1>4, <2>1, <2>3 DEF GateEnd
  <2> QED
    BY <2>2, <2>3
<1>5. CASE Recheck(c)
  <2>1. CASE locked
    BY <1>5, <2>1, CallOverTypes DEF Recheck
  <2>2. CASE ~locked
    BY <1>5, <2>2 DEF Recheck
  <2> QED
    BY <2>1, <2>2
<1>6. CASE Finish(c)
  BY <1>6 DEF Finish, CallOver
<1>7. CASE Admit(c)
  BY <1>7 DEF Admit
<1>8. CASE LookupTool(c)
  BY <1>8 DEF LookupTool, ResumedTool
<1> QED
  BY <1>1, <1>2, <1>3, <1>4, <1>5, <1>6, <1>7, <1>8 DEF CallStep

LEMMA UnlockTypes ==
  ASSUME TypeOK, NEW p \in Unlockers, UnlockStep(p) PROVE TypeOK'
<1> USE DEF TypeOK, stateVars, callVars, gateVars, UnlockReturns,
            MutexAfterUnlock, SigAfterUnlock
<1>1. CASE UnlockBegin(p)
  BY <1>1 DEF UnlockBegin
<1>2. CASE PromptFails(p)
  BY <1>2 DEF PromptFails
<1>3. CASE PromptApproved(p)
  BY <1>3 DEF PromptApproved
<1>4. CASE Swap(p)
  <2>1. CASE locked
    <3>1. locked' = FALSE /\ session' \in Nat /\ bound' \in Nat
      BY <1>4, <2>1 DEF Swap, ReboundTo
    <3> QED
      BY <1>4, <2>1, <3>1 DEF Swap
  <2>2. CASE ~locked
    BY <1>4, <2>2 DEF Swap
  <2> QED
    BY <2>1, <2>2
<1>5. CASE UnlockPublish(p)
  BY <1>5 DEF UnlockPublish
<1> QED
  BY <1>1, <1>2, <1>3, <1>4, <1>5 DEF UnlockStep

LEMMA NextTypes == TypeOK /\ [Next]_vars => TypeOK'
<1> SUFFICES ASSUME TypeOK, [Next]_vars PROVE TypeOK'
  OBVIOUS
<1>1. CASE Tick
  BY <1>1 DEF Tick, TypeOK, stateVars, unlockVars, callVars, gateVars
<1>2. CASE UNCHANGED vars
  BY <1>2 DEF vars, TypeOK, stateVars, unlockVars, callVars, gateVars
<1> QED
  BY <1>1, <1>2, LockerTypes, SigTypes, CallTypes, UnlockTypes DEF Next

(* Every reachable state is well typed. *)
THEOREM TypeCorrect == Spec => []TypeOK
  BY InitTypes, NextTypes, PTL DEF Spec

----------------------------------------------------------------------------
(* The inductive invariant.  Beside the safety properties it says who      *)
(* holds unlockMu, that a caller and its Unlock agree on where they are,   *)
(* and that generations only grow.                                         *)

MutexOwner ==
    \A p \in Unlockers :
        unlock[p] \in {"prompt", "swap", "publish"} <=> unlockMu = p

CallerInUnlock ==
    /\ \A c \in Calls : unlock[c] # "none" <=> call[c] = "unlocking"
    /\ unlock[Sig] # "none" <=> sig = "unlock"

GenerationsGrow ==
    /\ session <= acquired
    /\ \A g \in live : g <= acquired
    /\ \A p \in Unlockers : unlock[p] = "swap" =>
          pending[p] = acquired /\ session < acquired /\ acquired \in live

LockInv ==
    /\ TypeOK
    /\ MutexOwner
    /\ CallerInUnlock
    /\ GenerationsGrow
    /\ UnlockSerialized
    /\ UnlockedIsUsable
    /\ NoSpareSession
    /\ GateReserved

LEMMA InitInv == Init => LockInv
<1> SUFFICES ASSUME Init PROVE LockInv
  OBVIOUS
<1>1. MutexOwner /\ CallerInUnlock
  BY ConstantsAssumption DEF Init, MutexOwner, CallerInUnlock
<1>2. GenerationsGrow /\ UnlockedIsUsable /\ NoSpareSession
  BY DEF Init, GenerationsGrow, UnlockedIsUsable, NoSpareSession
<1>3. UnlockSerialized /\ GateReserved
  BY DEF Init, UnlockSerialized, Prompting, GateReserved, GateOwner
<1> QED
  BY InitTypes, <1>1, <1>2, <1>3 DEF LockInv

(* Steps that touch neither the sessions nor an Unlock nor the gate. *)
LEMMA OtherStepsKeepInv ==
  ASSUME LockInv, TypeOK', UNCHANGED <<stateVars, unlockVars, inFlight>>,
         \A c \in Calls :
            /\ call'[c] = "unlocking" <=> call[c] = "unlocking"
            /\ call'[c] = "end" <=> call[c] = "end",
         sig' = "unlock" <=> sig = "unlock"
  PROVE  LockInv'
<1> USE DEF LockInv, stateVars, unlockVars
<1>1. MutexOwner' /\ CallerInUnlock'
  BY DEF MutexOwner, CallerInUnlock
<1>2. GenerationsGrow' /\ UnlockedIsUsable' /\ NoSpareSession'
  BY DEF GenerationsGrow, UnlockedIsUsable, NoSpareSession
<1>3. UnlockSerialized'
  BY DEF UnlockSerialized, Prompting
<1>4. GateReserved'
  BY DEF GateReserved, GateOwner
<1> QED
  BY <1>1, <1>2, <1>3, <1>4

LEMMA LockNowKeepsInv ==
  ASSUME LockInv, TypeOK', LockNow, UNCHANGED <<unlockVars, inFlight, call>>,
         sig' = "unlock" <=> sig = "unlock"
  PROVE  LockInv'
<1> USE DEF LockInv, LockNow, ClosedByLock, unlockVars
<1>1. MutexOwner' /\ CallerInUnlock'
  BY DEF MutexOwner, CallerInUnlock
<1>2. UnlockSerialized' /\ UnlockedIsUsable'
  BY DEF UnlockSerialized, Prompting, UnlockedIsUsable
<1>3. GenerationsGrow'
  <2>1. ASSUME NEW p \in Unlockers, unlock[p] = "swap"
        PROVE  acquired \in live /\ acquired # session
    BY <2>1 DEF GenerationsGrow, TypeOK
  <2> QED
    BY <2>1 DEF GenerationsGrow
<1>4. NoSpareSession'
  BY DEF NoSpareSession
<1>5. GateReserved'
  BY DEF GateReserved, GateOwner
<1> QED
  BY <1>1, <1>2, <1>3, <1>4, <1>5

LEMMA LockerKeepsInv ==
  ASSUME LockInv, IdleStep \/ WatchStep PROVE LockInv'
<1> USE DEF stateVars, unlockVars, callVars, gateVars
<1>1. TypeOK'
  BY LockerTypes DEF LockInv
<1>2. CASE IdleTick \/ IdlePublish \/ WatchLine \/ WatchPublish
  BY <1>1, <1>2, OtherStepsKeepInv
     DEF IdleTick, IdlePublish, WatchLine, WatchPublish
<1>3. CASE IdleLock \/ WatchLock
  BY <1>1, <1>3, LockNowKeepsInv DEF IdleLock, WatchLock
<1> QED
  BY <1>2, <1>3 DEF IdleStep, WatchStep

LEMMA SigKeepsInv ==
  ASSUME LockInv, SigStep \/ \E s \in Signals : Notify(s) PROVE LockInv'
<1> USE DEF stateVars, unlockVars, callVars, gateVars
<1>1. TypeOK'
  BY SigTypes DEF LockInv
<1>2. CASE SigTakeLock \/ SigPublish \/ \E s \in Signals : Notify(s)
  BY <1>1, <1>2, OtherStepsKeepInv DEF SigTakeLock, SigPublish, Notify
<1>3. CASE SigLock
  BY <1>1, <1>3, LockNowKeepsInv DEF SigLock, AfterLock
<1>4. CASE SigTakeUnlock
  <2> USE <1>4 DEF SigTakeUnlock, LockInv
  <2>1. unlock[Sig] = "none" /\ unlock' = [unlock EXCEPT ![Sig] = "want"]
    BY DEF CallerInUnlock, TypeOK
  <2>2. MutexOwner'
    BY <2>1 DEF MutexOwner, TypeOK
  <2>3. CallerInUnlock'
    BY <2>1, ConstantsAssumption DEF CallerInUnlock, TypeOK
  <2>4. GenerationsGrow' /\ UnlockedIsUsable'
    BY <2>1 DEF GenerationsGrow, UnlockedIsUsable, TypeOK
  <2>5. NoSpareSession'
    BY <2>1 DEF NoSpareSession, TypeOK
  <2>6. UnlockSerialized' /\ GateReserved'
    BY <2>1 DEF UnlockSerialized, Prompting, GateReserved, GateOwner, TypeOK
  <2> QED
    BY <1>1, <2>2, <2>3, <2>4, <2>5, <2>6
<1> QED
  BY <1>2, <1>3, <1>4 DEF SigStep

LEMMA CallKeepsInv ==
  ASSUME LockInv, NEW c \in Calls, CallStep(c) PROVE LockInv'
<1> USE DEF stateVars, unlockVars, gateVars
<1>1. TypeOK'
  BY CallTypes DEF LockInv
<1>2. CASE \/ Dispatch(c) \/ CheckLock(c) \/ Admit(c) \/ Recheck(c)
           \/ LookupTool(c) \/ Finish(c)
  <2>1. /\ UNCHANGED <<stateVars, unlockVars, inFlight, sig>>
        /\ call[c] \notin {"unlocking", "end"}
        /\ \E s \in {"idle", "check", "ask", "lookup", "admitted", "run"} :
              call' = [call EXCEPT ![c] = s]
    BY <1>2 DEF Dispatch, CheckLock, Admit, Recheck, LookupTool, Finish, CallOver
  <2>2. call \in [Calls -> CallSteps]
    BY DEF LockInv, TypeOK
  <2> QED
    BY <1>1, <2>1, <2>2, OtherStepsKeepInv
<1>3. CASE AskGate(c) /\ ~GateOpen
  <2>1. /\ UNCHANGED <<stateVars, unlockVars, inFlight, sig>>
        /\ call[c] = "ask"
        /\ call' = [call EXCEPT ![c] = "idle"]
    BY <1>3 DEF AskGate, CallOver
  <2>2. call \in [Calls -> CallSteps]
    BY DEF LockInv, TypeOK
  <2> QED
    BY <1>1, <2>1, <2>2, OtherStepsKeepInv
<1>4. CASE AskGate(c) /\ GateOpen
  <2> USE DEF LockInv
  <2>1. /\ UNCHANGED <<stateVars, unlockMu, pending, sig>>
        /\ call[c] = "ask" /\ call' = [call EXCEPT ![c] = "unlocking"]
        /\ unlock' = [unlock EXCEPT ![c] = "want"]
        /\ ~inFlight /\ inFlight'
    BY <1>4 DEF AskGate, GateOpen
  <2>2. unlock[c] = "none"
    BY <2>1 DEF CallerInUnlock, TypeOK
  <2>3. MutexOwner'
    BY <2>1, <2>2 DEF MutexOwner, TypeOK
  <2>4. CallerInUnlock'
    BY <2>1, <2>2, ConstantsAssumption DEF CallerInUnlock, TypeOK
  <2>5. GenerationsGrow' /\ UnlockedIsUsable'
    BY <2>1, <2>2 DEF GenerationsGrow, UnlockedIsUsable, TypeOK
  <2>6. NoSpareSession'
    BY <2>1, <2>2 DEF NoSpareSession, TypeOK
  <2>7. UnlockSerialized'
    BY <2>1, <2>2 DEF UnlockSerialized, Prompting, TypeOK
  <2>8. GateReserved'
    BY <2>1 DEF GateReserved, GateOwner, TypeOK
  <2> QED
    BY <1>1, <2>3, <2>4, <2>5, <2>6, <2>7, <2>8
<1>5. CASE GateEnd(c)
  <2> USE DEF LockInv
  <2>1. /\ UNCHANGED <<stateVars, unlockVars, sig>>
        /\ call[c] = "end"
        /\ \E s \in {"idle", "recheck"} : call' = [call EXCEPT ![c] = s]
        /\ ~inFlight'
    BY <1>5 DEF GateEnd, ReservedAfter, CallOver
  <2>2. MutexOwner' /\ GenerationsGrow' /\ UnlockedIsUsable' /\ NoSpareSession'
    BY <2>1 DEF MutexOwner, GenerationsGrow, UnlockedIsUsable, NoSpareSession
  <2>3. CallerInUnlock' /\ UnlockSerialized'
    BY <2>1 DEF CallerInUnlock, UnlockSerialized, Prompting, TypeOK
  <2>4. GateOwner' = {}
    BY <2>1 DEF GateReserved, GateOwner, TypeOK
  <2>5. GateReserved'
    BY <2>1, <2>4 DEF GateReserved
  <2> QED
    BY <1>1, <2>2, <2>3, <2>5
<1> QED
  BY <1>2, <1>3, <1>4, <1>5 DEF CallStep

(* A return from Unlock, in the state where p holds the mutex or found it  *)
(* free.                                                                   *)
LEMMA ReturnKeepsInv ==
  ASSUME LockInv, TypeOK', NEW p \in Unlockers, NEW err, UnlockReturns(p, err),
         UNCHANGED <<stateVars, pending>>,
         unlock[p] # "none", unlock[p] # "swap",
         unlockMu \in {p, NoOne}
  PROVE  LockInv'
<1> USE DEF LockInv, stateVars
<1>1. /\ unlock' = [unlock EXCEPT ![p] = "none"]
      /\ unlockMu' = NoOne
      /\ UNCHANGED inFlight
  BY DEF UnlockReturns, MutexAfterUnlock, gateVars
<1>2. MutexOwner'
  BY <1>1, ConstantsAssumption DEF MutexOwner, TypeOK
<1>3. CallerInUnlock'
  <2>1. CASE p = Sig
    BY <1>1, <2>1, ConstantsAssumption
       DEF UnlockReturns, SigAfterUnlock, CallerInUnlock, TypeOK
  <2>2. CASE p # Sig
    BY <1>1, <2>2, ConstantsAssumption
       DEF UnlockReturns, CallerInUnlock, TypeOK
  <2> QED
    BY <2>1, <2>2
<1>4. GenerationsGrow' /\ UnlockedIsUsable'
  BY <1>1 DEF GenerationsGrow, UnlockedIsUsable, TypeOK
<1>5. NoSpareSession'
  BY <1>1 DEF NoSpareSession, TypeOK
<1>6. UnlockSerialized'
  BY <1>1 DEF UnlockSerialized, Prompting, TypeOK
<1>7. GateReserved'
  <2>1. CASE p = Sig
    BY <1>1, <2>1 DEF UnlockReturns, GateReserved, GateOwner, TypeOK
  <2>2. CASE p # Sig
    <3>1. p \in GateOwner /\ call' = [call EXCEPT ![p] = "end"]
      BY <2>2 DEF UnlockReturns, CallerInUnlock, GateOwner
    <3>2. GateOwner' = GateOwner
      BY <2>2, <3>1 DEF GateOwner, TypeOK
    <3> QED
      BY <1>1, <3>2 DEF GateReserved
  <2> QED
    BY <2>1, <2>2
<1> QED
  BY <1>2, <1>3, <1>4, <1>5, <1>6, <1>7

LEMMA UnlockKeepsInv ==
  ASSUME LockInv, NEW p \in Unlockers, UnlockStep(p) PROVE LockInv'
<1> USE DEF stateVars, callVars, gateVars
<1>1. TypeOK'
  BY UnlockTypes DEF LockInv
<1>2. CASE UnlockBegin(p) /\ ~locked
  BY <1>1, <1>2, ReturnKeepsInv DEF UnlockBegin, MutexFree
<1>3. CASE UnlockBegin(p) /\ locked
  <2> USE DEF LockInv
  <2>1. /\ UNCHANGED <<stateVars, pending, sig, call, inFlight>>
        /\ unlock[p] = "want" /\ unlock' = [unlock EXCEPT ![p] = "prompt"]
        /\ unlockMu = NoOne /\ unlockMu' = p
        /\ locked
    BY <1>3 DEF UnlockBegin, MutexFree
  <2>2. MutexOwner' /\ \A q \in Unlockers : unlock[q] \notin {"prompt", "swap"}
    BY <2>1, ConstantsAssumption DEF MutexOwner, TypeOK
  <2>3. CallerInUnlock'
    BY <2>1 DEF CallerInUnlock, TypeOK
  <2>4. GenerationsGrow' /\ UnlockedIsUsable'
    BY <2>1 DEF GenerationsGrow, UnlockedIsUsable, TypeOK
  <2>5. NoSpareSession'
    BY <2>1 DEF NoSpareSession, TypeOK
  <2>6. UnlockSerialized'
    BY <2>1, <2>2 DEF UnlockSerialized, Prompting, TypeOK
  <2>7. GateReserved'
    BY <2>1 DEF GateReserved, GateOwner
  <2> QED
    BY <1>1, <2>2, <2>3, <2>4, <2>5, <2>6, <2>7
<1>4. CASE PromptFails(p)
  <2>1. unlockMu = p
    BY <1>4 DEF PromptFails, LockInv, MutexOwner
  <2> QED
    BY <1>1, <1>4, <2>1, ReturnKeepsInv DEF PromptFails
<1>5. CASE PromptApproved(p)
  <2> USE DEF LockInv
  <2>1. /\ UNCHANGED <<locked, session, bound, unlockMu, sig, call, inFlight>>
        /\ unlock[p] = "prompt" /\ unlock' = [unlock EXCEPT ![p] = "swap"]
        /\ acquired' = acquired + 1 /\ live' = live \cup {acquired + 1}
        /\ pending' = [pending EXCEPT ![p] = acquired + 1]
    BY <1>5 DEF PromptApproved
  <2>2. MutexOwner' /\ CallerInUnlock'
    BY <2>1 DEF MutexOwner, CallerInUnlock, TypeOK
  <2>3. \A q \in Unlockers : unlock'[q] = "swap" => q = p
    BY <2>1 DEF UnlockSerialized, Prompting, TypeOK
  <2>4. locked
    BY <2>1 DEF UnlockSerialized, Prompting
  <2>5. GenerationsGrow' /\ UnlockedIsUsable'
    BY <2>1, <2>3, <2>4 DEF GenerationsGrow, UnlockedIsUsable, TypeOK
  <2>6. live = {}
    BY <2>1, <2>3, <2>4 DEF NoSpareSession, TypeOK, UnlockSerialized, Prompting
  <2>7. NoSpareSession'
    BY <2>1, <2>6 DEF NoSpareSession, TypeOK
  <2>8. UnlockSerialized'
    BY <2>1, <2>4 DEF UnlockSerialized, Prompting, TypeOK
  <2>9. GateReserved'
    BY <2>1 DEF GateReserved, GateOwner
  <2> QED
    BY <1>1, <2>2, <2>5, <2>7, <2>8, <2>9
<1>6. CASE Swap(p)
  <2> USE DEF LockInv
  <2>1. locked /\ unlock[p] = "swap"
    BY <1>6 DEF Swap, UnlockSerialized, Prompting
  <2>2. /\ UNCHANGED <<live, acquired, unlockMu, sig, call, inFlight>>
        /\ session' = pending[p] /\ bound' = pending[p] /\ ~locked'
        /\ unlock' = [unlock EXCEPT ![p] = "publish"]
        /\ pending' = [pending EXCEPT ![p] = 0]
    BY <1>6, <2>1 DEF Swap, ReboundTo
  <2>3. \A q \in Unlockers : unlock[q] \in {"prompt", "swap"} => q = p
    BY <2>1 DEF UnlockSerialized, Prompting
  <2>4. MutexOwner' /\ CallerInUnlock'
    BY <2>1, <2>2 DEF MutexOwner, CallerInUnlock, TypeOK
  <2>5. GenerationsGrow'
    BY <2>1, <2>2, <2>3 DEF GenerationsGrow, TypeOK
  <2>6. UnlockedIsUsable'
    BY <2>1, <2>2 DEF GenerationsGrow, UnlockedIsUsable, TypeOK
  <2>7. NoSpareSession'
    BY <2>1, <2>2, <2>3 DEF NoSpareSession, TypeOK
  <2>8. UnlockSerialized'
    BY <2>1, <2>2, <2>3 DEF UnlockSerialized, Prompting, TypeOK
  <2>9. GateReserved'
    BY <2>2 DEF GateReserved, GateOwner
  <2> QED
    BY <1>1, <2>4, <2>5, <2>6, <2>7, <2>8, <2>9
<1>7. CASE UnlockPublish(p)
  <2>1. unlockMu = p
    BY <1>7 DEF UnlockPublish, LockInv, MutexOwner
  <2> QED
    BY <1>1, <1>7, <2>1, ReturnKeepsInv DEF UnlockPublish
<1> QED
  BY <1>2, <1>3, <1>4, <1>5, <1>6, <1>7 DEF UnlockStep

LEMMA NextKeepsInv == LockInv /\ [Next]_vars => LockInv'
<1> SUFFICES ASSUME LockInv, [Next]_vars PROVE LockInv'
  OBVIOUS
<1>1. TypeOK'
  BY NextTypes DEF LockInv
<1>2. CASE Tick \/ UNCHANGED vars
  BY <1>1, <1>2, OtherStepsKeepInv
     DEF Tick, vars, stateVars, unlockVars, callVars, gateVars
<1> QED
  BY <1>2, LockerKeepsInv, SigKeepsInv, CallKeepsInv, UnlockKeepsInv DEF Next

(* The inductive invariant holds in every reachable state.                 *)
THEOREM LockInvariant == Spec => []LockInv
  BY InitInv, NextKeepsInv, PTL DEF Spec

(* Locking and unlocking never leave an unlocked daemon whose tools hold a *)
(* closed or replaced session (Runtime.Lock, Runtime.Unlock).              *)
THEOREM UnlockedIsAlwaysUsable == Spec => []UnlockedIsUsable
<1>1. LockInv => UnlockedIsUsable
  BY DEF LockInv
<1> QED
  BY <1>1, LockInvariant, PTL

(* A locked daemon holds no open session but the one an approved prompt is *)
(* about to install.                                                       *)
THEOREM LockedHoldsNoSession == Spec => []NoSpareSession
<1>1. LockInv => NoSpareSession
  BY DEF LockInv
<1> QED
  BY <1>1, LockInvariant, PTL

(* unlockMu keeps any number of unlockers from prompting at once, and an   *)
(* approved unlock always finds the daemon still locked.                   *)
THEOREM UnlocksSerialized == Spec => []UnlockSerialized
<1>1. LockInv => UnlockSerialized
  BY DEF LockInv
<1> QED
  BY <1>1, LockInvariant, PTL

(* The unlock gate is reserved exactly while one call is inside Unlock.    *)
THEOREM GateNeverLeaks == Spec => []GateReserved
<1>1. LockInv => GateReserved
  BY DEF LockInv
<1> QED
  BY <1>1, LockInvariant, PTL

(* A call that waited out an unlock goes on with a tool bound to an open   *)
(* session, unless the daemon was locked again meanwhile (PROTO-132).      *)
THEOREM ResumedCallsAreFresh == Spec => ResumedCallIsFresh
<1>1. ASSUME LockInv, [Next]_vars
      PROVE  [\A c \in Calls : call[c] = "lookup" /\ call'[c] = "admitted"
                => locked \/ tool'[c] \in live]_vars
  <2> SUFFICES ASSUME Next, NEW c \in Calls, call[c] = "lookup",
                      call'[c] = "admitted"
               PROVE  locked \/ tool'[c] \in live
    BY <1>1
  <2>1. LookupTool(c)
    <3>1. ASSUME NEW d \in Calls, CallStep(d) PROVE LookupTool(c)
      <4>1. call \in [Calls -> CallSteps]
        BY <1>1 DEF LockInv, TypeOK
      <4>2. d = c
        BY <3>1, <4>1 DEF CallStep, Dispatch, CheckLock, Admit, AskGate,
           GateEnd, Recheck, LookupTool, Finish, CallOver
      <4> QED
        BY <3>1, <4>1, <4>2 DEF CallStep, Dispatch, CheckLock, Admit, AskGate,
           GateEnd, Recheck, Finish
    <3>2. ASSUME NEW p \in Unlockers, UnlockStep(p) PROVE FALSE
      BY <3>2, <1>1 DEF UnlockStep, UnlockBegin, PromptFails, PromptApproved,
         Swap, UnlockPublish, UnlockReturns, callVars, LockInv, TypeOK
    <3>3. ~(Tick \/ IdleStep \/ WatchStep \/ SigStep
            \/ \E s \in Signals : Notify(s))
      BY DEF Tick, IdleStep, IdleTick, IdleLock, IdlePublish, WatchStep,
         WatchLine, WatchLock, WatchPublish, SigStep, SigTakeLock,
         SigTakeUnlock, SigLock, SigPublish, Notify, callVars
    <3> QED
      BY <3>1, <3>2, <3>3 DEF Next
  <2>2. tool'[c] = bound
    BY <1>1, <2>1 DEF LookupTool, ResumedTool, LockInv, TypeOK
  <2> QED
    BY <1>1, <2>2 DEF LockInv, UnlockedIsUsable
<1> QED
  BY <1>1, LockInvariant, PTL DEF Spec, ResumedCallIsFresh

----------------------------------------------------------------------------
(* The cooldown.  Settled: the last decline is a cooldown ago, or there is *)
(* none.  A call passes the gate only in a settled state, and no other     *)
(* call can unsettle it while it holds the reservation.  Between a decline *)
(* and the gate's end, the reservation itself keeps the others out.        *)

Settled == declinedAt = Never \/ clock >= declinedAt + Cooldown

Refusing(c) == call[c] = "end" /\ failed[c]

CooldownInv ==
    /\ declinedAt \in Nat
    /\ declinedAt = Never \/ declinedAt <= clock
    /\ \A c \in GateOwner : Settled \/ Refusing(c)
    /\ GateOwner = {} => Settled \/ nextOK >= declinedAt + Cooldown

LEMMA NeverIsTime == Never \in Nat
  BY ConstantsAssumption DEF Never

LEMMA InitCooldown == HInit => LockInv /\ CooldownInv
  BY InitInv, NeverIsTime DEF HInit, Init, CooldownInv, Settled, GateOwner

(* Nothing is declined or approved, and no call enters or leaves the gate. *)
LEMMA GateStepsAside ==
  ASSUME LockInv, TypeOK', CooldownInv, clock' \in Nat, clock' >= clock,
         declinedAt' = declinedAt \/ declinedAt' = Never,
         UNCHANGED nextOK,
         GateOwner' = GateOwner,
         \A c \in GateOwner : Refusing(c) => Refusing(c)'
  PROVE  CooldownInv'
<1>1. ASSUME Settled PROVE Settled'
  <2>1. clock \in Nat /\ Cooldown \in Nat /\ declinedAt \in Nat
    BY ConstantsAssumption DEF LockInv, TypeOK, CooldownInv
  <2> QED
    BY <1>1, <2>1 DEF Settled, Never
<1>2. declinedAt' \in Nat /\ (declinedAt' = Never \/ declinedAt' <= clock')
  BY NeverIsTime DEF CooldownInv, LockInv, TypeOK, Never
<1>3. ASSUME nextOK >= declinedAt + Cooldown
      PROVE  Settled' \/ nextOK' >= declinedAt' + Cooldown
  BY <1>3 DEF Settled, Never
<1> QED
  BY <1>1, <1>2, <1>3 DEF CooldownInv

(* A step after which every call's Unlock is where it was, or has just     *)
(* begun, neither declines nor approves anything.                          *)
LEMMA NothingDeclined ==
  ASSUME Record,
         \A c \in Calls : unlock[c] = "prompt" => unlock'[c] = "prompt"
  PROVE  declinedAt' = declinedAt
  BY DEF Record, Declined, Approved

LEMMA LockersKeepCooldown ==
  ASSUME LockInv, TypeOK', CooldownInv, Record,
         \/ Tick \/ IdleStep \/ WatchStep \/ SigStep
         \/ \E s \in Signals : Notify(s)
  PROVE  CooldownInv'
<1> USE DEF stateVars, unlockVars, callVars, gateVars
<1>1. UNCHANGED <<nextOK, call, failed>> /\ (clock' = clock \/ clock' = clock + 1)
  BY DEF Tick, IdleStep, IdleTick, IdleLock, IdlePublish, WatchStep, WatchLine,
         WatchLock, WatchPublish, SigStep, SigTakeLock, SigTakeUnlock, SigLock,
         SigPublish, Notify
<1>2. unlock' = unlock \/ unlock' = [unlock EXCEPT ![Sig] = "want"]
  BY DEF Tick, IdleStep, IdleTick, IdleLock, IdlePublish, WatchStep, WatchLine,
         WatchLock, WatchPublish, SigStep, SigTakeLock, SigTakeUnlock, SigLock,
         SigPublish, Notify
<1>3. declinedAt' = declinedAt
  BY <1>2, NothingDeclined, ConstantsAssumption DEF LockInv, TypeOK
<1>4. clock \in Nat /\ clock' \in Nat /\ clock' >= clock
  BY <1>1 DEF LockInv, TypeOK
<1>5. GateOwner' = GateOwner /\ \A c \in Calls : Refusing(c) => Refusing(c)'
  BY <1>1 DEF GateOwner, Refusing
<1>6. \A c \in GateOwner : Refusing(c) => Refusing(c)'
  BY <1>5 DEF GateOwner
<1> QED
  BY <1>1, <1>3, <1>4, <1>5, <1>6, GateStepsAside

(* The gate.  Who passes it finds no cooldown running. *)
LEMMA CallKeepsCooldown ==
  ASSUME LockInv, TypeOK', CooldownInv, Record, NEW c \in Calls, CallStep(c)
  PROVE  CooldownInv'
<1> USE DEF stateVars, unlockVars, callVars, gateVars
<1>0. /\ call \in [Calls -> CallSteps] /\ failed \in [Calls -> BOOLEAN]
      /\ clock \in Nat /\ Cooldown \in Nat /\ nextOK \in Nat
      /\ clock' = clock
  BY ConstantsAssumption DEF LockInv, TypeOK, CallStep, Dispatch, CheckLock,
     Admit, AskGate, GateEnd, Recheck, LookupTool, Finish
<1>1. unlock' = unlock \/ (unlock' = [unlock EXCEPT ![c] = "want"] /\ call[c] = "ask")
  BY DEF CallStep, Dispatch, CheckLock, Admit, AskGate, GateEnd, Recheck,
         LookupTool, Finish
<1>2. declinedAt' = declinedAt
  <2>1. call[c] = "ask" => unlock[c] = "none"
    BY DEF LockInv, CallerInUnlock
  <2> QED
    BY <1>1, <2>1, NothingDeclined DEF LockInv, TypeOK
<1>3. CASE \/ Dispatch(c) \/ CheckLock(c) \/ Admit(c) \/ Recheck(c)
           \/ LookupTool(c) \/ Finish(c) \/ (AskGate(c) /\ ~GateOpen)
  <2>1. /\ UNCHANGED <<failed, nextOK>>
        /\ call[c] \notin {"unlocking", "end"}
        /\ \E s \in {"idle", "check", "ask", "lookup", "admitted", "run"} :
              call' = [call EXCEPT ![c] = s]
    BY <1>3 DEF Dispatch, CheckLock, Admit, Recheck, LookupTool, Finish,
       AskGate, CallOver
  <2>2. GateOwner' = GateOwner /\ \A d \in GateOwner : Refusing(d) => Refusing(d)'
    BY <1>0, <2>1 DEF GateOwner, Refusing
  <2> QED
    BY <1>0, <1>2, <2>1, <2>2, GateStepsAside
<1>4. CASE AskGate(c) /\ GateOpen
  <2>1. /\ ~inFlight /\ clock >= nextOK
        /\ call' = [call EXCEPT ![c] = "unlocking"] /\ nextOK' = nextOK
    BY <1>4 DEF AskGate, GateOpen
  <2>2. GateOwner = {}
    BY <2>1 DEF LockInv, GateReserved
  <2>3. Settled
    BY <1>0, <2>1, <2>2 DEF CooldownInv, Settled
  <2>4. Settled' /\ declinedAt' \in Nat
        /\ (declinedAt' = Never \/ declinedAt' <= clock')
    BY <1>0, <1>2, <2>3 DEF Settled, CooldownInv, Never
  <2> QED
    BY <2>4 DEF CooldownInv
<1>5. CASE GateEnd(c)
  <2>1. /\ call[c] = "end" /\ call'[c] \in {"idle", "recheck"}
        /\ \A d \in Calls : d # c => call'[d] = call[d]
        /\ nextOK' = IF failed[c] THEN clock + Cooldown ELSE 0
    BY <1>0, <1>5 DEF GateEnd, CallOver, CooldownEnd
  <2>2. c \in GateOwner /\ GateOwner' = {}
    BY <2>1 DEF LockInv, GateReserved, GateOwner
  <2>3. declinedAt \in Nat /\ (declinedAt = Never \/ declinedAt <= clock)
    BY DEF CooldownInv
  <2>4. CASE failed[c]
    <3>1. Settled' \/ nextOK' >= declinedAt' + Cooldown
      BY <1>0, <1>2, <2>1, <2>3, <2>4 DEF Settled, Never
    <3> QED
      BY <1>0, <1>2, <2>2, <2>3, <3>1 DEF CooldownInv, Never
  <2>5. CASE ~failed[c]
    <3>1. Settled
      BY <2>2, <2>5 DEF CooldownInv, Refusing
    <3>2. Settled'
      BY <1>0, <1>2, <3>1 DEF Settled, Never
    <3> QED
      BY <1>0, <1>2, <2>2, <2>3, <3>2 DEF CooldownInv, Never
  <2> QED
    BY <2>4, <2>5
<1> QED
  BY <1>3, <1>4, <1>5 DEF CallStep

(* Inside Unlock.  A call is there alone, and only its own decline ends    *)
(* the settled state it passed the gate in.                                *)
LEMMA UnlockKeepsCooldown ==
  ASSUME LockInv, TypeOK', CooldownInv, Record, NEW p \in Unlockers, UnlockStep(p)
  PROVE  CooldownInv'
<1> USE DEF stateVars, callVars, gateVars
<1>0. /\ call \in [Calls -> CallSteps] /\ failed \in [Calls -> BOOLEAN]
      /\ unlock \in [Unlockers -> UnlockSteps]
      /\ clock \in Nat /\ clock' = clock /\ nextOK' = nextOK
  BY DEF LockInv, TypeOK, UnlockStep, UnlockBegin, PromptFails,
     PromptApproved, Swap, UnlockPublish, UnlockReturns
<1>1. \E s \in UnlockSteps : unlock' = [unlock EXCEPT ![p] = s]
  BY DEF UnlockStep, UnlockBegin, PromptFails, PromptApproved, Swap,
     UnlockPublish, UnlockReturns
<1>2. CASE p = Sig
  <2>1. UNCHANGED <<call, failed>>
    BY <1>2 DEF UnlockStep, UnlockBegin, PromptFails, PromptApproved, Swap,
       UnlockPublish, UnlockReturns
  <2>2. declinedAt' = declinedAt
    BY <1>0, <1>1, <1>2, NothingDeclined, ConstantsAssumption
  <2>3. GateOwner' = GateOwner /\ \A c \in GateOwner : Refusing(c) => Refusing(c)'
    BY <2>1 DEF GateOwner, Refusing
  <2> QED
    BY <1>0, <2>2, <2>3, GateStepsAside
<1>3. CASE p # Sig
  <2>1. p \in Calls /\ unlock[p] # "none"
    BY <1>3 DEF UnlockStep, UnlockBegin, PromptFails, PromptApproved, Swap,
       UnlockPublish
  <2>2. call[p] = "unlocking"
    BY <2>1 DEF LockInv, CallerInUnlock
  <2>3. p \in GateOwner /\ \A c \in GateOwner : c = p
    BY <2>1, <2>2 DEF LockInv, GateReserved, GateOwner
  <2>4. call' = call \/ call' = [call EXCEPT ![p] = "end"]
    BY <1>3 DEF UnlockStep, UnlockBegin, PromptFails, PromptApproved, Swap,
       UnlockPublish, UnlockReturns
  <2>5. GateOwner' = GateOwner
    BY <1>0, <2>1, <2>2, <2>4 DEF GateOwner
  <2>6. CASE PromptFails(p)
    <3>1. /\ unlock[p] = "prompt" /\ unlock'[p] = "none"
          /\ call'[p] = "end" /\ failed'[p] = TRUE
      BY <1>0, <1>3, <2>1, <2>6 DEF PromptFails, UnlockReturns
    <3>2. declinedAt' = clock
      BY <2>1, <3>1 DEF Record, Declined
    <3>3. Refusing(p)'
      BY <3>1 DEF Refusing
    <3> QED
      BY <1>0, <2>3, <2>5, <3>2, <3>3 DEF CooldownInv
  <2>7. CASE ~PromptFails(p)
    <3>1. unlock[p] = "prompt" => unlock'[p] = "swap"
      BY <1>0, <2>7 DEF UnlockStep, UnlockBegin, PromptApproved, Swap, UnlockPublish
    <3>2. \A c \in Calls : ~Declined(c)
      BY <1>0, <1>1, <3>1 DEF Declined
    <3>3. declinedAt' = declinedAt \/ declinedAt' = Never
      BY <3>2 DEF Record
    <3>4. \A c \in GateOwner : ~Refusing(c)
      BY <2>2, <2>3 DEF Refusing
    <3> QED
      BY <1>0, <2>5, <3>3, <3>4, GateStepsAside
  <2> QED
    BY <2>6, <2>7
<1> QED
  BY <1>2, <1>3

LEMMA NextKeepsCooldown ==
  LockInv /\ CooldownInv /\ [HNext]_hvars => LockInv' /\ CooldownInv'
<1> SUFFICES ASSUME LockInv, CooldownInv, [HNext]_hvars
             PROVE  LockInv' /\ CooldownInv'
  OBVIOUS
<1>1. LockInv' /\ TypeOK'
  BY NextKeepsInv DEF HNext, hvars, LockInv
<1>2. CASE HNext
  BY <1>1, <1>2, LockersKeepCooldown, CallKeepsCooldown, UnlockKeepsCooldown
     DEF HNext, Next
<1>3. CASE UNCHANGED hvars
  <2>1. UNCHANGED <<clock, call, failed, nextOK, declinedAt>>
    BY <1>3 DEF hvars, vars, callVars, gateVars
  <2>2. GateOwner' = GateOwner /\ \A c \in GateOwner : Refusing(c) => Refusing(c)'
    BY <2>1 DEF GateOwner, Refusing
  <2>3. clock' \in Nat /\ clock' >= clock
    BY <2>1 DEF LockInv, TypeOK
  <2> QED
    BY <1>1, <2>1, <2>2, <2>3, GateStepsAside
<1> QED
  BY <1>1, <1>2, <1>3

(* A tool call's prompt that the user turned down keeps every tool call    *)
(* from raising another for the whole cooldown, however many calls meet    *)
(* the locked daemon and whatever the other goroutines do (unlockGate).    *)
THEOREM CooldownIsKept == HSpec => NoNagging
<1>1. ASSUME LockInv, CooldownInv, [HNext]_hvars
      PROVE  [\A c \in Calls : Raised(c) =>
                declinedAt = Never \/ clock >= declinedAt + Cooldown]_hvars
  <2> SUFFICES ASSUME NEW c \in Calls, Raised(c) PROVE Settled
    BY DEF Settled
  <2>1. call[c] = "unlocking"
    BY <1>1 DEF LockInv, CallerInUnlock, Raised
  <2>2. c \in GateOwner /\ ~Refusing(c)
    BY <2>1 DEF GateOwner, Refusing
  <2> QED
    BY <1>1, <2>2 DEF CooldownInv
<1> QED
  BY <1>1, InitCooldown, NextKeepsCooldown, PTL DEF HSpec, NoNagging

----------------------------------------------------------------------------
(* RuntimeLock implements DaemonLock. *)

LEMMA LockNowRefines ==
  ASSUME LockInv, LockNow PROVE DL!DLLock \/ UNCHANGED DL!dlVars
<1>1. CASE locked
  BY <1>1 DEF LockNow, ClosedByLock, DL!dlVars
<1>2. CASE ~locked
  <2>1. locked' = TRUE /\ session' = session /\ bound' = bound
        /\ session' \notin live'
    BY <1>2 DEF LockNow, ClosedByLock
  <2> QED
    BY <1>2, <2>1 DEF DL!DLLock
<1> QED
  BY <1>1, <1>2

LEMMA SwapRefines ==
  ASSUME LockInv, NEW p \in Unlockers, Swap(p) PROVE DL!DLUnlock
<1> USE DEF LockInv
<1>1. locked /\ unlock[p] = "swap"
  BY DEF Swap, UnlockSerialized, Prompting
<1>2. /\ locked' = FALSE /\ live' = live
      /\ session' = pending[p] /\ bound' = pending[p]
  BY <1>1 DEF Swap, ReboundTo
<1>3. /\ pending[p] \in Nat /\ pending[p] > session
      /\ pending[p] \in live
  BY <1>1 DEF GenerationsGrow, TypeOK
<1>4. (session' \in live') = TRUE
  BY <1>2, <1>3
<1> QED
  BY <1>1, <1>2, <1>3, <1>4 DEF DL!DLUnlock

LEMMA ApprovalIsInvisible ==
  ASSUME LockInv, NEW p \in Unlockers, PromptApproved(p)
  PROVE  UNCHANGED DL!dlVars
<1>1. /\ UNCHANGED <<locked, session, bound>>
      /\ live' = live \cup {acquired + 1}
  BY DEF PromptApproved
<1>2. session # acquired + 1
  BY DEF LockInv, GenerationsGrow, TypeOK
<1> QED
  BY <1>1, <1>2 DEF DL!dlVars

LEMMA StepRefines ==
  LockInv /\ [Next]_vars => [DL!DLNext]_(DL!dlVars)
<1> SUFFICES ASSUME LockInv, [Next]_vars
             PROVE  DL!DLNext \/ UNCHANGED DL!dlVars
  OBVIOUS
<1>1. ASSUME UNCHANGED stateVars PROVE UNCHANGED DL!dlVars
  BY <1>1 DEF stateVars, DL!dlVars
<1>2. CASE Tick \/ UNCHANGED vars
  BY <1>1, <1>2 DEF Tick, vars
<1>3. CASE IdleStep
  BY <1>1, <1>3, LockNowRefines
     DEF IdleStep, IdleTick, IdleLock, IdlePublish, DL!DLNext
<1>4. CASE WatchStep
  BY <1>1, <1>4, LockNowRefines
     DEF WatchStep, WatchLine, WatchLock, WatchPublish, DL!DLNext
<1>5. CASE SigStep \/ \E s \in Signals : Notify(s)
  BY <1>1, <1>5, LockNowRefines
     DEF SigStep, SigTakeLock, SigTakeUnlock, SigLock, SigPublish, Notify,
         DL!DLNext
<1>6. ASSUME NEW c \in Calls, CallStep(c) PROVE UNCHANGED DL!dlVars
  BY <1>1, <1>6 DEF CallStep, Dispatch, CheckLock, Admit, AskGate, GateEnd,
     Recheck, LookupTool, Finish
<1>7. ASSUME NEW p \in Unlockers, UnlockStep(p)
      PROVE  DL!DLNext \/ UNCHANGED DL!dlVars
  <2>1. CASE UnlockBegin(p) \/ PromptFails(p) \/ UnlockPublish(p)
    BY <1>1, <2>1 DEF UnlockBegin, PromptFails, UnlockPublish
  <2>2. CASE PromptApproved(p)
    BY <2>2, ApprovalIsInvisible
  <2>3. CASE Swap(p)
    BY <2>3, SwapRefines DEF DL!DLNext
  <2> QED
    BY <1>7, <2>1, <2>2, <2>3 DEF UnlockStep
<1> QED
  BY <1>2, <1>3, <1>4, <1>5, <1>6, <1>7 DEF Next

(* The detailed lock, with its mutexes, prompts and goroutines, does only  *)
(* what DaemonLock allows.                                                 *)
THEOREM Implements == Spec => Refinement
<1>1. Init => DL!DLInit
  <2> SUFFICES ASSUME Init PROVE DL!DLInit
    OBVIOUS
  <2>1. (session \in live) = TRUE
    BY DEF Init
  <2> QED
    BY <2>1 DEF Init, DL!DLInit
<1> QED
  BY <1>1, StepRefines, LockInvariant, PTL DEF Spec, Refinement, DL!DLSpec
=============================================================================
