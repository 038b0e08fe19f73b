--------------------------- MODULE MCRuntimeLock ---------------------------
(***************************************************************************)
(* RuntimeLock with history variables, for TLC.  They record what the      *)
(* daemon itself does not keep: which pending prompt saw the screen lock,  *)
(* and when a tool call's prompt was last turned down.                     *)
(***************************************************************************)
EXTENDS RuntimeLock, TLC

VARIABLES
    relocked,      \* unlockers whose pending prompt saw the screen lock
    declinedAt     \* end of the last unapproved prompt of a tool call, if any

CallSymmetry == Permutations(Calls)

hvars == <<vars, relocked, declinedAt>>

Never == MaxTime + Cooldown + 1

ScreenLocks == watch = "lock" /\ watch' # "lock"

Declined(c) == unlock[c] = "prompt" /\ unlock'[c] = "none"
Approved(c) == unlock[c] = "prompt" /\ unlock'[c] = "swap"
Raised(c) == unlock[c] = "want" /\ unlock'[c] = "prompt"

Record ==
    /\ relocked' = {p \in Unlockers : /\ unlock'[p] \in {"prompt", "swap"}
                                      /\ ScreenLocks \/ p \in relocked}
    /\ declinedAt' = IF \E c \in Calls : Declined(c) THEN clock
                     ELSE IF \E c \in Calls : Approved(c) THEN Never
                     ELSE declinedAt

HInit == Init /\ relocked = {} /\ declinedAt = Never
HNext == Next /\ Record
HSpec == HInit /\ [][HNext]_hvars
HFairSpec == HSpec /\ Fairness

(* After the user turns a tool call's unlock prompt down, no tool call     *)
(* raises another one for the cooldown (unlockGate): a loop of locked      *)
(* calls cannot nag.                                                       *)
NoNagging ==
    [][\A c \in Calls :
        Raised(c) => declinedAt = Never \/ clock >= declinedAt + Cooldown]_hvars

(* resolveLock's comment: "A concurrent lock (the screen re-locking        *)
(* mid-prompt) lands here", that is, a tool call whose unlock prompt was   *)
(* pending when the screen locked again does not unlock the daemon.        *)
RelockNotOverridden ==
    [][\A c \in Calls :
        unlock[c] = "swap" /\ unlock'[c] = "publish" => c \notin relocked]_hvars
=============================================================================
