---------------------------- MODULE SessionTokens ----------------------------
(***************************************************************************)
(* The login: a session at Proton, its one copy in the Keychain, and the   *)
(* processes that use it.                                                  *)
(*                                                                         *)
(* A refresh token is good for one use: a refresh gives a new pair and     *)
(* makes the old one worthless, so whoever refreshes must store the pair   *)
(* before anybody else resumes from the Keychain.  The daemon resumes and  *)
(* closes (unlock, lock) while the user runs commands, and both write the  *)
(* same Keychain item.                                                     *)
(*                                                                         *)
(* Failures covered: an outage at any call, a 4xx that is no verdict on    *)
(* the session, a Keychain that refuses, a crash at any step, a session    *)
(* ended at Proton, a Close beside a refresh.  Not covered: the cookies,   *)
(* which travel with the tokens; a login answer lost on its way.           *)
(***************************************************************************)
EXTENDS Naturals

CONSTANTS
    MaxUid,     \* bound: sessions Proton creates
    MaxGen,     \* bound: refreshes of one session
    MaxActs,    \* bound: commands given, unlocks of the daemon
    MaxFaults   \* bound: outages, odd answers, Keychain errors, crashes

ASSUME ConstantsAssumption ==
    /\ MaxUid \in Nat \ {0}
    /\ MaxGen \in Nat
    /\ MaxActs \in Nat
    /\ MaxFaults \in Nat

Uid == 1 .. MaxUid
NoUid == 0
Gen == 0 .. MaxGen
Proc == {"daemon", "cli"}
MaxHVAttempts == 3

VARIABLES
    srv,        \* srv[u]: what Proton knows of session u
    slot,       \* the Keychain item
    proc,       \* proc[p]: a process and the session it builds or uses
    stale,      \* ghost: sessions whose stored pair a mishap left behind
    orphans,    \* ghost: sessions given up alive for a reason in the code
    acts, faults    \* what has been used of the bounds

vars == <<srv, slot, proc, stale, orphans, acts, faults>>
ghosts == <<stale, orphans>>

NoBlob == [uid |-> NoUid, gen |-> 0, pass |-> "none"]
Idle == [verb |-> "none", pc |-> "idle", uid |-> NoUid, gen |-> 0,
         pass |-> "none", wired |-> FALSE, save |-> FALSE, hv |-> 0]

Verbs == {"none", "resume", "acquire", "login", "logout"}
Pcs == {"idle", "load", "user", "addrs", "unlock", "wipe", "persist", "live",
        "closed", "drop", "srp", "second", "luser", "laddrs", "lsalts",
        "lunlock", "revoke", "erase"}

TypeOK ==
    /\ srv \in [Uid -> [state : {"none", "live", "ended", "deleted"},
                        gen : Gen, fresh : BOOLEAN]]
    /\ slot \in [uid : Uid \cup {NoUid}, gen : Gen,
                 pass : {"none", "zero", "whole"}]
    /\ proc \in [Proc -> [verb : Verbs, pc : Pcs, uid : Uid \cup {NoUid},
                          gen : Gen, pass : {"none", "zero", "whole"},
                          wired : BOOLEAN, save : BOOLEAN,
                          hv : 0 .. MaxHVAttempts]]
    /\ stale \subseteq Uid
    /\ orphans \subseteq Uid
    /\ acts \in 0 .. MaxActs
    /\ faults \in 0 .. MaxFaults

\* A login was made, and nothing runs.
Init ==
    /\ srv = [u \in Uid |-> [state |-> IF u = 1 THEN "live" ELSE "none",
                             gen |-> 0, fresh |-> TRUE]]
    /\ slot = [uid |-> 1, gen |-> 0, pass |-> "whole"]
    /\ proc = [p \in Proc |-> Idle]
    /\ stale = {} /\ orphans = {}
    /\ acts = 0 /\ faults = 0

----------------------------------------------------------------------------
(* Proton *)

Live(u) == u \in Uid /\ srv[u].state = "live"

\* The pair p holds is the latest of a session that lives.
Usable(p) == Live(proc[p].uid) /\ proc[p].gen = srv[proc[p].uid].gen

Fault == faults < MaxFaults /\ faults' = faults + 1

Goto(p, pc) == [proc EXCEPT ![p].pc = pc]

\* The access token runs out.
Expire(u) ==
    /\ Live(u) /\ srv[u].fresh /\ srv[u].gen < MaxGen
    /\ srv' = [srv EXCEPT ![u].fresh = FALSE]
    /\ UNCHANGED <<slot, proc, ghosts, acts, faults>>

\* The user, or Proton, ends the session.
EndSession(u) ==
    /\ Live(u)
    /\ acts < MaxActs /\ acts' = acts + 1
    /\ srv' = [srv EXCEPT ![u].state = "ended"]
    /\ UNCHANGED <<slot, proc, ghosts, faults>>

\* A call that succeeds: at once, or after the refresh the SDK makes on a 401.
\* AuthHandler keeps the new pair; the hook, once wired, is about to store it.
AuthHandler(r) == [r EXCEPT !.gen = @ + 1, !.save = r.wired]

Answered(p, next) ==
    LET u == proc[p].uid
        r == [proc[p] EXCEPT !.pc = next]
    IN  /\ Usable(p)
        /\ IF srv[u].fresh
           THEN proc' = [proc EXCEPT ![p] = r] /\ UNCHANGED srv
           ELSE /\ proc' = [proc EXCEPT ![p] = AuthHandler(r)]
                /\ srv' = [srv EXCEPT ![u].gen = @ + 1, ![u].fresh = TRUE]

\* AuthDelete, best effort: with a pair that is no good it changes nothing.
\* A session that stays is given up alive, and so is a pair that was not saved.
AuthDelete(p) ==
    LET u == proc[p].uid
    IN  IF Usable(p)
        THEN \/ /\ srv' = [srv EXCEPT ![u].state = "deleted"]
                /\ UNCHANGED <<ghosts, faults>>
             \/ /\ Fault
                /\ stale' = stale \cup {u}
                /\ orphans' = orphans \cup {u}
                /\ UNCHANGED srv
        ELSE UNCHANGED <<srv, ghosts, faults>>

----------------------------------------------------------------------------
(* keystore *)

\* Save's refusals: a pass that is empty, or all zero bytes.
Fault_Validate(r) == r.uid # NoUid

Validate(r) == r.pass = "whole"

\* An item another session is in is given up with it.
Replaced(uid) == IF slot.uid # uid /\ Live(slot.uid) THEN {slot.uid} ELSE {}

Save(p) ==
    LET r == proc[p]
    IN  /\ Validate(r)
        /\ slot' = [uid |-> r.uid, gen |-> r.gen, pass |-> r.pass]
        /\ orphans' = orphans \cup Replaced(r.uid)
        /\ UNCHANGED <<stale, faults>>

\* The Keychain refuses.
SaveFails(p) ==
    /\ Fault
    /\ stale' = stale \cup {proc[p].uid}
    /\ orphans' = orphans \cup {proc[p].uid}
    /\ UNCHANGED slot

\* Validate refuses: after a Close that is how it is meant to be.
SaveRefused(p) ==
    /\ ~Validate(proc[p])
    /\ stale' = IF proc[p].pass = "none" THEN stale \cup {proc[p].uid} ELSE stale
    /\ UNCHANGED <<slot, orphans, faults>>

Delete ==
    /\ slot' = NoBlob
    /\ orphans' = orphans \cup Replaced(NoUid)
    /\ UNCHANGED <<stale, faults>>

----------------------------------------------------------------------------
(* Commands *)

Begin(p, verb, pc) ==
    /\ proc[p].pc = "idle"
    /\ acts < MaxActs /\ acts' = acts + 1
    /\ proc' = [proc EXCEPT ![p] = [Idle EXCEPT !.verb = verb, !.pc = pc]]
    /\ UNCHANGED <<srv, slot, ghosts, faults>>

\* A daemon's start or unlock; serve-stdio's start.
AcquireResumeOnly == Begin("daemon", "resume", "load")
\* acquireSession: whoami, sync, backfill, read.
AcquireSession == Begin("cli", "acquire", "load")
RunLogin == Begin("cli", "login", "drop")
RunLogout == Begin("cli", "logout", "load")

\* What is left of a command that failed.
Ended(p) == [proc EXCEPT ![p] = Idle]

\* acquireSession goes on to the login; logout to the Keychain item.
GiveUpResume(p) ==
    CASE proc[p].verb = "acquire" ->
            [proc EXCEPT ![p] = [Idle EXCEPT !.verb = "acquire", !.pc = "srp"]]
      [] proc[p].verb = "logout" -> Goto(p, "erase")
      [] OTHER -> Ended(p)

----------------------------------------------------------------------------
(* TryResume; logout's Resume *)

\* A session two processes hold may be refreshed by both.
Shared(p, u) == {v \in {u} : \E q \in Proc \ {p} : proc[q].uid = v}

\* The session keeps a pass of its own: TryResume zeroes the one it loaded.
Fault_Clone(pass) == "zero"

Clone(pass) == pass

Load(p) ==
    /\ proc[p].pc = "load"
    /\ IF slot = NoBlob
       THEN proc' = GiveUpResume(p) /\ UNCHANGED ghosts
       ELSE /\ proc' = [proc EXCEPT ![p].pc = "user", ![p].uid = slot.uid,
                                    ![p].gen = slot.gen, ![p].pass = slot.pass]
            /\ stale' = stale \cup Shared(p, slot.uid)
            /\ UNCHANGED orphans
    /\ UNCHANGED <<srv, slot, acts, faults>>

\* Load fails: a Keychain error, a blob it cannot read.
LoadFails(p) ==
    /\ proc[p].pc = "load"
    /\ Fault
    /\ proc' = GiveUpResume(p)
    /\ UNCHANGED <<srv, slot, ghosts, acts>>

GetUser(p) ==
    /\ proc[p].pc = "user"
    /\ Answered(p, "addrs")
    /\ UNCHANGED <<slot, ghosts, acts, faults>>

GetAddresses(p) ==
    /\ proc[p].pc = "addrs"
    /\ Answered(p, "unlock")
    /\ UNCHANGED <<slot, ghosts, acts, faults>>

\* isAuthExpired: any 4xx.  TryResume wipes the item, in a step of its own.
Expired(p) ==
    /\ proc[p].pc \in {"user", "addrs"}
    /\ ~Usable(p)
    /\ proc' = IF proc[p].verb = "logout" THEN GiveUpResume(p)
               ELSE Goto(p, "wipe")
    /\ UNCHANGED <<srv, slot, ghosts, acts, faults>>

\* A 4xx for another reason: the revoke goes through.
Throttled(p) ==
    /\ proc[p].pc \in {"user", "addrs"}
    /\ Usable(p)
    /\ Fault
    /\ srv' = [srv EXCEPT ![proc[p].uid].state = "deleted"]
    /\ proc' = IF proc[p].verb = "logout" THEN GiveUpResume(p)
               ELSE Goto(p, "wipe")
    /\ UNCHANGED <<slot, ghosts, acts>>

Wipe(p) ==
    /\ proc[p].pc = "wipe"
    /\ Delete
    /\ proc' = GiveUpResume(p)
    /\ UNCHANGED <<srv, acts>>

\* A network error, a 5xx, a context that ran out: closeAndWrap revokes here
\* too, and the item stays.
Outage(p) ==
    /\ proc[p].pc \in {"user", "addrs"}
    /\ faults < MaxFaults
    /\ AuthDelete(p)
    /\ proc' = GiveUpResume(p)
    /\ UNCHANGED <<slot, acts>>

UnlockKeys(p) ==
    /\ proc[p].pc = "unlock"
    /\ proc[p].pass = "whole"
    /\ proc' = Goto(p, IF proc[p].verb = "logout" THEN "revoke" ELSE "persist")
    /\ UNCHANGED <<srv, slot, ghosts, acts, faults>>

\* Persist and WireKeystoreSync; a Save that fails is only logged.
PersistResumed(p) ==
    /\ proc[p].pc = "persist" /\ proc[p].verb # "login"
    /\ Save(p) \/ SaveFails(p) \/ SaveRefused(p)
    /\ proc' = [proc EXCEPT ![p].pc = "live", ![p].wired = TRUE,
                            ![p].pass = Clone(@)]
    /\ UNCHANGED <<srv, acts>>

----------------------------------------------------------------------------
(* A live session *)

Use(p) ==
    /\ proc[p].pc = "live"
    /\ ~proc[p].save
    /\ ~srv[proc[p].uid].fresh
    /\ Answered(p, "live")
    /\ UNCHANGED <<slot, ghosts, acts, faults>>

\* OnAuthUpdate, with the pass Close may have zeroed in the meantime.
OnAuthUpdate(p) ==
    /\ proc[p].save
    /\ Save(p) \/ SaveFails(p) \/ SaveRefused(p)
    /\ proc' = [proc EXCEPT ![p].save = FALSE]
    /\ UNCHANGED <<srv, acts>>

\* Close: the pass is zeroed first, then the client waits for a refresh.
Close(p) ==
    /\ proc[p].pc = "live"
    /\ proc' = [proc EXCEPT ![p].pc = "closed", ![p].pass = "none"]
    /\ UNCHANGED <<srv, slot, ghosts, acts, faults>>

Closed(p) ==
    /\ proc[p].pc = "closed"
    /\ ~proc[p].save
    /\ proc' = Ended(p)
    /\ UNCHANGED <<srv, slot, ghosts, acts, faults>>

----------------------------------------------------------------------------
(* Login *)

\* runLogin drops the item first, so that a failure leaves a clean slate.
DropStored(p) ==
    /\ proc[p].pc = "drop"
    /\ \/ Delete /\ proc' = Goto(p, "srp")
       \/ Fault /\ proc' = Ended(p) /\ UNCHANGED <<slot, ghosts>>
    /\ UNCHANGED <<srv, acts>>

\* NewClientWithLogin, after the credentials.
SrpLogin(p) ==
    /\ proc[p].pc = "srp"
    /\ \E u \in Uid :
          /\ srv[u].state = "none"
          /\ \A v \in Uid : srv[v].state = "none" => u <= v
          /\ srv' = [srv EXCEPT ![u] = [state |-> "live", gen |-> 0,
                                        fresh |-> TRUE]]
          /\ proc' = [proc EXCEPT ![p].pc = "second", ![p].uid = u]
    /\ UNCHANGED <<slot, ghosts, acts, faults>>

\* No credentials, or the wrong ones.
SrpFails(p) ==
    /\ proc[p].pc = "srp"
    /\ proc' = Ended(p)
    /\ UNCHANGED <<srv, slot, ghosts, acts, faults>>

\* doTOTP, then the mailbox password of a two-password account.
SecondFactor(p) ==
    /\ proc[p].pc = "second"
    /\ Answered(p, "luser")
    /\ UNCHANGED <<slot, ghosts, acts, faults>>

\* tryWithHV: Proton asks for a human up to MaxHVAttempts times.
HumanVerification(p) ==
    /\ proc[p].pc = "luser"
    /\ proc[p].hv < MaxHVAttempts
    /\ proc' = [proc EXCEPT ![p].hv = @ + 1]
    /\ UNCHANGED <<srv, slot, ghosts, acts, faults>>

LoginCall(p, pc, next) ==
    /\ proc[p].pc = pc
    /\ Answered(p, next)
    /\ UNCHANGED <<slot, ghosts, acts, faults>>

LoginUnlock(p) ==
    /\ proc[p].pc = "lunlock"
    /\ proc' = [proc EXCEPT ![p].pc = "persist", ![p].pass = "whole"]
    /\ UNCHANGED <<srv, slot, ghosts, acts, faults>>

\* Every failure between the SRP login and the keyring revokes, on a context
\* of its own: a wrong code, a method that is not supported, a prompt that is
\* cancelled, the fourth 9001, an outage, a wrong mailbox password.
LoginPcs == {"second", "luser", "laddrs", "lsalts", "lunlock"}

Fault_LoginFails(p) ==
    /\ proc[p].pc \in LoginPcs
    /\ IF proc[p].pc = "second" THEN UNCHANGED <<srv, ghosts, faults>>
       ELSE AuthDelete(p)
    /\ proc' = Ended(p)
    /\ UNCHANGED <<slot, acts>>

LoginFails(p) ==
    /\ proc[p].pc \in LoginPcs
    /\ AuthDelete(p)
    /\ proc' = Ended(p)
    /\ UNCHANGED <<slot, acts>>

\* login stops when it cannot store the session; it has no hook to wire.
PersistLogin(p) ==
    /\ proc[p].pc = "persist" /\ proc[p].verb = "login"
    /\ \/ Save(p) \/ SaveFails(p)
    /\ proc' = [proc EXCEPT ![p].pc = "closed", ![p].pass = "none"]
    /\ UNCHANGED <<srv, acts>>

----------------------------------------------------------------------------
(* Logout *)

\* CloseAndRevoke.
Revoke(p) ==
    /\ proc[p].pc = "revoke"
    /\ AuthDelete(p)
    /\ proc' = Goto(p, "erase")
    /\ UNCHANGED <<slot, acts>>

Erase(p) ==
    /\ proc[p].pc = "erase"
    /\ \/ Delete
       \/ Fault /\ UNCHANGED <<slot, ghosts>>
    /\ proc' = Ended(p)
    /\ UNCHANGED <<srv, acts>>

\* A crash, or Ctrl-C at a prompt that does not return.
Crash(p) ==
    /\ proc[p].pc # "idle"
    /\ Fault
    /\ stale' = IF proc[p].uid = NoUid THEN stale ELSE stale \cup {proc[p].uid}
    /\ orphans' = IF proc[p].uid = NoUid THEN orphans
                  ELSE orphans \cup {proc[p].uid}
    /\ proc' = Ended(p)
    /\ UNCHANGED <<srv, slot, acts>>

----------------------------------------------------------------------------
(* Specification *)

ResumeStep(p) ==
    \/ Load(p) \/ LoadFails(p) \/ GetUser(p) \/ GetAddresses(p) \/ Expired(p)
    \/ Throttled(p) \/ Wipe(p) \/ Outage(p) \/ UnlockKeys(p)
    \/ PersistResumed(p)

LiveStep(p) == Use(p) \/ OnAuthUpdate(p) \/ Close(p) \/ Closed(p)

LoginStep(p) ==
    \/ DropStored(p) \/ SrpLogin(p) \/ SrpFails(p) \/ SecondFactor(p)
    \/ HumanVerification(p) \/ LoginCall(p, "luser", "laddrs")
    \/ LoginCall(p, "laddrs", "lsalts") \/ LoginCall(p, "lsalts", "lunlock")
    \/ LoginUnlock(p) \/ LoginFails(p) \/ PersistLogin(p)

LogoutStep(p) == Revoke(p) \/ Erase(p)

Step(p) ==
    \/ ResumeStep(p) \/ LiveStep(p) \/ LoginStep(p) \/ LogoutStep(p)
    \/ Crash(p)

Next ==
    \/ AcquireResumeOnly \/ AcquireSession \/ RunLogin \/ RunLogout
    \/ \E u \in Uid : Expire(u) \/ EndSession(u)
    \/ \E p \in Proc : Step(p)

Spec == Init /\ [][Next]_vars

----------------------------------------------------------------------------
(* Properties *)

\* D16, #123: whatever Close, a refresh and TryResume's own wipe do at the
\* same time, the stored item carries a salted pass that opens the keys.
StoredPassIsWhole == slot # NoBlob => slot.pass = "whole"

\* The pair p holds is the latest, and p is on its way to store it.
WillStore(p, u) ==
    /\ proc[p].uid = u
    /\ proc[p].gen = srv[u].gen
    /\ proc[p].save \/ proc[p].pc \in {"addrs", "unlock", "persist", "wipe"}
       \/ proc[p].verb = "logout"

\* The stored refresh token is the one Proton still accepts, or the process
\* that used it up is about to store the new one.  A session two processes
\* held, a crash, a Keychain error, a Close beside the refresh and a failed
\* revoke are the exceptions, and there are no others.
StoredPairIsCurrent ==
    \A u \in Uid :
        slot.uid = u /\ Live(u) /\ slot.gen # srv[u].gen
            => u \in stale \/ \E p \in Proc : WillStore(p, u)

\* H-3: no session stays alive at Proton that nobody can use: it is stored, or
\* a process works with it, or it was given up by a failed revoke, a Keychain
\* error, a crash, or a login that replaced it.
AbandonedIsRevoked ==
    \A u \in Uid :
        Live(u) => slot.uid = u \/ u \in orphans
                   \/ \E p \in Proc : proc[p].uid = u

\* resume.go: only a 4xx costs the stored login, an outage does not: an item
\* that no command is about to remove is not that of a session we deleted.
OutageKeepsLogin ==
    slot # NoBlob /\ (\A p \in Proc : proc[p].pc \notin {"wipe", "erase"})
        => srv[slot.uid].state # "deleted"
=============================================================================
