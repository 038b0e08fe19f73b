------------------------- MODULE SessionTokensProofs -------------------------
(***************************************************************************)
(* Proofs about SessionTokens, for any number of sessions, refreshes,      *)
(* commands and failures.                                                  *)
(***************************************************************************)
EXTENDS SessionTokens, TLAPS

ServerSession == [state : {"none", "live", "ended", "deleted"}, gen : Gen, fresh : BOOLEAN]
Process == [verb : Verbs, pc : Pcs, uid : Uid \cup {NoUid}, gen : Gen,
            pass : {"none", "zero", "whole"}, wired : BOOLEAN, save : BOOLEAN,
            hv : 0 .. MaxHVAttempts]
Blob == [uid : Uid \cup {NoUid}, gen : Gen, pass : {"none", "zero", "whole"}]

(* What a process may be in the middle of, whatever Proton knows.          *)
Sound(r) ==
    /\ r.uid = NoUid => r.gen = 0
    /\ r.pc \in {"idle", "load", "drop", "srp"} => r.uid = NoUid
    /\ r.pc \notin {"idle", "load", "drop", "srp", "erase"} => r.uid \in Uid
    /\ r.pass # "zero"
    /\ r.pc = "persist" => r.pass = "whole"
    /\ r.pc = "live" => r.wired
    /\ r.wired => r.pc \in {"live", "closed"}
    /\ r.save => r.pc \in {"live", "closed"}
    /\ r.verb = "logout" => r.pc \in {"load", "user", "addrs", "unlock", "revoke", "erase"}

SlotSound == slot = NoBlob \/ (slot.uid \in Uid /\ slot.pass = "whole")

(* A session in use was created; one that can run out can be refreshed.    *)
SessionKnown ==
    \A u \in Uid :
        /\ (slot.uid = u \/ \E p \in Proc : proc[p].uid = u) => srv[u].state # "none"
        /\ ~srv[u].fresh => srv[u].gen < MaxGen

(* A login under way is nobody else's, and holds the latest pair.          *)
LoginIsAlone ==
    \A p \in Proc : proc[p].pc \in LoginPcs =>
        /\ slot.uid # proc[p].uid
        /\ \A q \in Proc : q # p => proc[q].uid # proc[p].uid
        /\ Live(proc[p].uid) => proc[p].gen = srv[proc[p].uid].gen

(* Two processes with one session are on record; otherwise a process holds *)
(* the latest pair.                                                        *)
HoldersAreCurrent ==
    \A p \in Proc : proc[p].uid \in Uid =>
        /\ \A q \in Proc : q # p /\ proc[q].uid = proc[p].uid => proc[p].uid \in stale
        /\ Live(proc[p].uid) => \/ proc[p].uid \in stale
                                \/ proc[p].gen = srv[proc[p].uid].gen
        /\ proc[p].pc = "erase" => ~Live(proc[p].uid) \/ proc[p].uid \in stale

(* A session that is not stored is a login's, on its way to be.            *)
Storing(r) == r.pc \in LoginPcs \cup {"persist"}
NoneAbandoned ==
    \A u \in Uid :
        Live(u) => slot.uid = u \/ u \in orphans
                   \/ \E p \in Proc : proc[p].uid = u /\ Storing(proc[p])

TokenInv ==
    /\ TypeOK
    /\ \A p \in Proc : Sound(proc[p])
    /\ SlotSound /\ SessionKnown /\ LoginIsAlone /\ HoldersAreCurrent
    /\ NoneAbandoned /\ StoredPairIsCurrent

(* The types of a state, by its variables.                                 *)
LEMMA Types ==
  ASSUME TypeOK
  PROVE  /\ srv \in [Uid -> ServerSession] /\ slot \in Blob /\ proc \in [Proc -> Process]
         /\ stale \subseteq Uid /\ orphans \subseteq Uid
         /\ acts \in 0 .. MaxActs /\ faults \in 0 .. MaxFaults
  BY DEF TypeOK, ServerSession, Blob, Process

LEMMA Numbers ==
  /\ MaxUid \in Nat \ {0} /\ MaxGen \in Nat /\ MaxActs \in Nat /\ MaxFaults \in Nat
  /\ 0 \in Gen /\ NoUid \notin Uid /\ 1 \in Uid
  BY ConstantsAssumption DEF Gen, Uid, NoUid

LEMMA TokenInit == Init => TokenInv
<1> SUFFICES ASSUME Init PROVE TokenInv
  OBVIOUS
<1>1. TypeOK
  BY Numbers DEF Init, TypeOK, Idle, Verbs, Pcs, MaxHVAttempts
<1>2. \A p \in Proc : proc[p] = Idle
  BY DEF Init
<1>3. \A p \in Proc : Sound(proc[p])
  BY <1>2 DEF Sound, Idle
<1>4. SlotSound /\ SessionKnown
  BY <1>2, Numbers DEF Init, SlotSound, SessionKnown, Idle
<1>5. LoginIsAlone /\ HoldersAreCurrent
  BY <1>2, Numbers DEF LoginIsAlone, HoldersAreCurrent, Idle, LoginPcs
<1>6. NoneAbandoned /\ StoredPairIsCurrent
  BY Numbers DEF Init, NoneAbandoned, StoredPairIsCurrent, Live
<1> QED
  BY <1>1, <1>3, <1>4, <1>5, <1>6 DEF TokenInv

----------------------------------------------------------------------------
(* A step of process p that takes up no session it did not have.  What it  *)
(* may do to the session, to the item, and to what p owes.                 *)

(* After the step p is about to store the latest pair of u.                *)
StoresLater(p, u) ==
    LET r == proc'[p] IN
    /\ r.uid = u /\ r.gen = srv'[u].gen
    /\ r.save \/ r.pc \in {"addrs", "unlock", "persist", "wipe"} \/ r.verb = "logout"

Refreshes(p) ==
    LET u == proc[p].uid IN
    /\ Usable(p) /\ proc'[p].uid = u
    /\ srv'[u].state = "live" /\ srv'[u].fresh
    /\ srv'[u].gen = srv[u].gen + 1 /\ proc'[p].gen = proc[p].gen + 1
    /\ proc[p].pc \in LoginPcs \/ StoresLater(p, u)

OnServer(p) ==
    LET u == proc[p].uid IN
    /\ \A v \in Uid : v # u => srv'[v] = srv[v]
    /\ u \in Uid =>
         \/ srv'[u] = srv[u] /\ (proc'[p].uid = u => proc'[p].gen = proc[p].gen)
         \/ srv'[u].state = "deleted" /\ (srv'[u].fresh <=> srv[u].fresh)
            /\ srv'[u].gen = srv[u].gen
         \/ Refreshes(p)

OnSlot(p) ==
    \/ slot' = slot
    \/ /\ slot' = NoBlob
       /\ Replaced(NoUid) \subseteq orphans'
    \/ /\ slot' = [uid |-> proc[p].uid, gen |-> proc[p].gen, pass |-> "whole"]
       /\ Replaced(proc[p].uid) \subseteq orphans'
       /\ srv' = srv /\ proc[p].uid \in Uid /\ proc[p].pc \notin LoginPcs

Owes(p) ==
    LET u == proc[p].uid
        r == proc'[p]
    IN  /\ r.uid \in {u, NoUid}
        /\ r.pc \in LoginPcs => proc[p].pc \in LoginPcs /\ r.uid = u
        /\ r.pc = "erase" /\ r.uid \in Uid =>
             proc[p].pc = "erase" \/ srv'[u].state # "live" \/ u \in stale'
        /\ WillStore(p, u) /\ slot'.uid = u /\ u \in Uid =>
             \/ u \in stale' \/ srv'[u].state # "live" \/ slot'.gen = srv'[u].gen
             \/ StoresLater(p, u)
        /\ Storing(proc[p]) =>
             \/ u \in orphans' \/ srv'[u].state # "live" \/ slot'.uid = u
             \/ r.uid = u /\ Storing(r)

StepOf(p) ==
    /\ \A q \in Proc : q # p => proc'[q] = proc[q]
    /\ Sound(proc'[p])
    /\ stale \subseteq stale' /\ orphans \subseteq orphans'
    /\ OnServer(p) /\ OnSlot(p) /\ Owes(p)

LEMMA StepKeeps ==
  ASSUME TokenInv, NEW p \in Proc, StepOf(p), TypeOK'
  PROVE  TokenInv'
<1> DEFINE u == proc[p].uid
<1>0. /\ srv \in [Uid -> ServerSession] /\ slot \in Blob /\ proc \in [Proc -> Process]
      /\ \A q \in Proc : Sound(proc[q])
      /\ SlotSound /\ SessionKnown /\ LoginIsAlone /\ HoldersAreCurrent
      /\ NoneAbandoned /\ StoredPairIsCurrent
  BY Types DEF TokenInv
<1>1. /\ srv' \in [Uid -> ServerSession] /\ slot' \in Blob /\ proc' \in [Proc -> Process]
  BY Types DEF TypeOK, ServerSession, Blob, Process
<1>2. \A q \in Proc : Sound(proc'[q])
  BY <1>0 DEF StepOf
<1>3. SlotSound'
  BY <1>0 DEF StepOf, OnSlot, SlotSound
<1>4. \A v \in Uid :
        /\ srv'[v].state = "live" => srv[v].state = "live"
        /\ srv[v].state # "none" => srv'[v].state # "none"
        /\ srv[v].state = "none" => srv'[v] = srv[v] \/ srv'[v].state = "deleted"
  BY <1>0 DEF StepOf, OnServer, Refreshes, Usable, Live
<1>5. SessionKnown'
  <2> SUFFICES ASSUME NEW v \in Uid
               PROVE  /\ (slot'.uid = v \/ \E q \in Proc : proc'[q].uid = v) => srv'[v].state # "none"
                      /\ ~srv'[v].fresh => srv'[v].gen < MaxGen
    BY DEF SessionKnown
  <2>1. slot'.uid = v => slot.uid = v \/ proc[p].uid = v
    BY Numbers DEF StepOf, OnSlot, NoBlob
  <2>2. \A q \in Proc : proc'[q].uid = v => proc[q].uid = v
    BY Numbers DEF StepOf, Owes
  <2>3. ~srv'[v].fresh => srv'[v].gen < MaxGen
    BY <1>0 DEF StepOf, OnServer, Refreshes, SessionKnown
  <2> QED
    BY <1>0, <1>4, <2>1, <2>2, <2>3 DEF SessionKnown
<1>6. LoginIsAlone'
  <2> SUFFICES ASSUME NEW q \in Proc, proc'[q].pc \in LoginPcs
               PROVE  /\ slot'.uid # proc'[q].uid
                      /\ \A q2 \in Proc : q2 # q => proc'[q2].uid # proc'[q].uid
                      /\ srv'[proc'[q].uid].state = "live" => proc'[q].gen = srv'[proc'[q].uid].gen
    BY DEF LoginIsAlone, Live
  <2>1. /\ proc[q].pc \in LoginPcs /\ proc'[q].uid = proc[q].uid /\ proc[q].uid \in Uid
    BY <1>0 DEF StepOf, Owes, Sound, LoginPcs
  <2>2. /\ slot.uid # proc[q].uid
        /\ \A q2 \in Proc : q2 # q => proc[q2].uid # proc[q].uid
        /\ Live(proc[q].uid) => proc[q].gen = srv[proc[q].uid].gen
    BY <1>0, <2>1 DEF LoginIsAlone
  <2>3. slot'.uid # proc'[q].uid
    BY <2>1, <2>2, Numbers DEF StepOf, OnSlot, NoBlob
  <2>4. \A q2 \in Proc : q2 # q => proc'[q2].uid # proc'[q].uid
    BY <2>1, <2>2, Numbers DEF StepOf, Owes
  <2>5. srv'[proc'[q].uid].state = "live" => proc'[q].gen = srv'[proc'[q].uid].gen
    <3>1. CASE q = p
      BY <1>4, <2>1, <2>2, <3>1 DEF StepOf, OnServer, Refreshes, Usable, Live
    <3>2. CASE q # p
      BY <1>4, <2>1, <2>2, <3>2 DEF StepOf, OnServer, Live
    <3> QED
      BY <3>1, <3>2
  <2> QED
    BY <2>3, <2>4, <2>5
<1>7. HoldersAreCurrent'
  <2> SUFFICES ASSUME NEW q \in Proc, proc'[q].uid \in Uid
               PROVE  /\ \A q2 \in Proc : q2 # q /\ proc'[q2].uid = proc'[q].uid =>
                           proc'[q].uid \in stale'
                      /\ srv'[proc'[q].uid].state = "live" => \/ proc'[q].uid \in stale'
                                                \/ proc'[q].gen = srv'[proc'[q].uid].gen
                      /\ proc'[q].pc = "erase" => srv'[proc'[q].uid].state # "live" \/ proc'[q].uid \in stale'
    BY DEF HoldersAreCurrent, Live
  <2>1. proc'[q].uid = proc[q].uid /\ \A q2 \in Proc : proc'[q2].uid = proc[q].uid => proc[q2].uid = proc[q].uid
    BY Numbers DEF StepOf, Owes
  <2>2. /\ \A q2 \in Proc : q2 # q /\ proc[q2].uid = proc[q].uid => proc[q].uid \in stale
        /\ Live(proc[q].uid) => \/ proc[q].uid \in stale
                                \/ proc[q].gen = srv[proc[q].uid].gen
        /\ proc[q].pc = "erase" => ~Live(proc[q].uid) \/ proc[q].uid \in stale
    BY <1>0, <2>1 DEF HoldersAreCurrent
  <2>3. CASE q = p
    BY <1>4, <2>1, <2>2, <2>3 DEF StepOf, OnServer, Owes, Refreshes, Usable, Live
  <2>4. CASE q # p
    BY <1>4, <2>1, <2>2, <2>4 DEF StepOf, OnServer, Live
  <2> QED
    BY <2>3, <2>4
<1>8. NoneAbandoned'
  <2> SUFFICES ASSUME NEW v \in Uid, srv'[v].state = "live"
               PROVE  slot'.uid = v \/ v \in orphans'
                      \/ \E q \in Proc : proc'[q].uid = v /\ Storing(proc'[q])
    BY DEF NoneAbandoned, Live
  <2>1. slot.uid = v \/ v \in orphans \/ \E q \in Proc : proc[q].uid = v /\ Storing(proc[q])
    BY <1>0, <1>4 DEF NoneAbandoned, Live
  <2>2. CASE slot.uid = v
    BY <1>4, <2>2, Numbers DEF StepOf, OnSlot, Replaced, Live
  <2>3. CASE v \in orphans
    BY <2>3 DEF StepOf
  <2>4. CASE \E q \in Proc : proc[q].uid = v /\ Storing(proc[q])
    BY <2>4 DEF StepOf, Owes
  <2> QED
    BY <2>1, <2>2, <2>3, <2>4
<1>9. StoredPairIsCurrent'
  <2> SUFFICES ASSUME NEW v \in Uid, slot'.uid = v, srv'[v].state = "live",
                      slot'.gen # srv'[v].gen, v \notin stale'
               PROVE  \E q \in Proc : WillStore(q, v)'
    BY DEF StoredPairIsCurrent, Live
  <2>0. v \notin stale /\ srv[v].state = "live"
    BY <1>4 DEF StepOf
  <2>1. CASE slot' # slot
    BY <1>0, <2>0, <2>1, Numbers DEF StepOf, OnSlot, NoBlob, HoldersAreCurrent, Live
  <2>2. CASE slot' = slot /\ srv'[v] = srv[v]
    <3>1. PICK q \in Proc : WillStore(q, v)
      BY <1>0, <2>0, <2>2 DEF StoredPairIsCurrent, Live
    <3>2. CASE q # p
      BY <2>2, <3>1, <3>2 DEF StepOf, WillStore
    <3>3. CASE q = p
      <4>1. WillStore(p, u) /\ slot'.uid = u /\ u \in Uid /\ u = v
        BY <3>1, <3>3 DEF WillStore
      <4>2. StoresLater(p, v)
        BY <2>2, <4>1 DEF StepOf, Owes
      <4> QED
        BY <4>2 DEF StoresLater, WillStore
    <3> QED
      BY <3>2, <3>3
  <2>3. CASE slot' = slot /\ srv'[v] # srv[v]
    <3>1. v = u /\ Refreshes(p)
      BY <2>3 DEF StepOf, OnServer
    <3>2. proc[p].pc \notin LoginPcs
      BY <1>0, <2>3, <3>1 DEF LoginIsAlone
    <3>3. StoresLater(p, v)
      BY <3>1, <3>2 DEF Refreshes
    <3> QED
      BY <3>3 DEF StoresLater, WillStore
  <2> QED
    BY <2>1, <2>2, <2>3
<1> QED
  BY <1>2, <1>3, <1>5, <1>6, <1>7, <1>8, <1>9 DEF TokenInv

----------------------------------------------------------------------------
(* Each action is such a step. *)

LEMMA AnsweredIs ==
  ASSUME TokenInv, NEW p \in Proc, NEW next \in Pcs, Answered(p, next)
  PROVE  LET u == proc[p].uid
             r == proc'[p]
         IN  /\ proc' \in [Proc -> Process] /\ srv' \in [Uid -> ServerSession]
             /\ \A q \in Proc : q # p => proc'[q] = proc[q]
             /\ r.pc = next /\ r.verb = proc[p].verb /\ r.uid = u /\ u \in Uid
             /\ r.pass = proc[p].pass /\ r.wired = proc[p].wired
             /\ \/ srv' = srv /\ r.gen = proc[p].gen /\ r.save = proc[p].save
                \/ /\ \A v \in Uid : v # u => srv'[v] = srv[v]
                   /\ Usable(p) /\ srv'[u].state = "live" /\ srv'[u].fresh
                   /\ srv'[u].gen = srv[u].gen + 1 /\ r.gen = proc[p].gen + 1
                   /\ r.gen = srv'[u].gen
                   /\ r.save = proc[p].wired
<1> DEFINE u == proc[p].uid
           r == [proc[p] EXCEPT !.pc = next]
<1>0. srv \in [Uid -> ServerSession] /\ proc \in [Proc -> Process] /\ SessionKnown
  BY Types DEF TokenInv
<1>1. /\ Usable(p) /\ u \in Uid /\ srv[u].state = "live" /\ proc[p].gen = srv[u].gen
      /\ r \in Process
  BY <1>0 DEF Answered, Usable, Live, Process
<1>2. CASE srv[u].fresh
  <2>1. proc' = [proc EXCEPT ![p] = r] /\ srv' = srv
    BY <1>2 DEF Answered
  <2>2. r.pc = next /\ r.verb = proc[p].verb /\ r.uid = u /\ r.pass = proc[p].pass
        /\ r.wired = proc[p].wired /\ r.gen = proc[p].gen /\ r.save = proc[p].save
    BY <1>0 DEF Process
  <2> HIDE DEF r
  <2> QED
    BY <1>0, <1>1, <2>1, <2>2
<1>3. CASE ~srv[u].fresh
  <2> DEFINE r2 == [[r EXCEPT !.gen = @ + 1] EXCEPT !.save = r.wired]
             s2 == [[srv[u] EXCEPT !.gen = @ + 1] EXCEPT !.fresh = TRUE]
  <2>1. proc' = [proc EXCEPT ![p] = r2] /\ srv' = [srv EXCEPT ![u] = s2]
    <3>1. /\ proc' = [proc EXCEPT ![p] = AuthHandler(r)]
          /\ srv' = [srv EXCEPT ![u].gen = @ + 1, ![u].fresh = TRUE]
      BY <1>3 DEF Answered
    <3>2. AuthHandler(r) = r2
      BY <1>0 DEF AuthHandler, Process
    <3> QED
      BY <1>0, <1>1, <3>1, <3>2
  <2>2. srv[u].gen + 1 \in Gen
    BY <1>0, <1>1, <1>3, Numbers DEF SessionKnown, ServerSession, Gen
  <2>3. /\ r2 \in Process /\ r2.pc = next /\ r2.verb = proc[p].verb /\ r2.uid = u
        /\ r2.pass = proc[p].pass /\ r2.wired = proc[p].wired
        /\ r2.gen = proc[p].gen + 1 /\ r2.save = proc[p].wired
    BY <1>0, <1>1, <2>2 DEF Process
  <2>4. s2 \in ServerSession /\ s2.state = "live" /\ s2.fresh /\ s2.gen = srv[u].gen + 1
    BY <1>0, <1>1, <2>2 DEF ServerSession
  <2> HIDE DEF r2, s2
  <2>5. /\ proc' \in [Proc -> Process] /\ srv' \in [Uid -> ServerSession]
        /\ proc'[p] = r2 /\ srv'[u] = s2
        /\ \A q \in Proc : q # p => proc'[q] = proc[q]
        /\ \A v \in Uid : v # u => srv'[v] = srv[v]
    BY <1>0, <1>1, <2>1, <2>3, <2>4
  <2> QED
    BY <1>1, <2>3, <2>4, <2>5
<1> QED
  BY <1>2, <1>3

(* Every call that is answered leaves p about to store what it was given.  *)
LEMMA CallKeeps ==
  ASSUME TokenInv, NEW p \in Proc,
         GetUser(p) \/ GetAddresses(p) \/ Use(p) \/ SecondFactor(p)
         \/ LoginCall(p, "luser", "laddrs") \/ LoginCall(p, "laddrs", "lsalts")
         \/ LoginCall(p, "lsalts", "lunlock")
  PROVE  TokenInv'
<1>1. PICK next \in Pcs :
        /\ Answered(p, next)
        /\ UNCHANGED <<slot, stale, orphans, acts, faults>>
        /\ \/ next \in {"addrs", "unlock"} /\ proc[p].pc \in {"user", "addrs"}
           \/ next = "live" /\ proc[p].pc = "live" /\ ~proc[p].save
              /\ ~srv[proc[p].uid].fresh
           \/ next \in LoginPcs /\ proc[p].pc \in LoginPcs
  BY DEF GetUser, GetAddresses, Use, SecondFactor, LoginCall, LoginPcs, Pcs, ghosts
<1>2. Sound(proc[p]) /\ proc[p] \in Process
  BY Types DEF TokenInv
<1>3. TypeOK'
  BY <1>1, AnsweredIs DEF TokenInv, TypeOK, ServerSession, Process
<1>4. Sound(proc'[p])
  BY <1>1, <1>2, AnsweredIs, Numbers DEF Sound, LoginPcs
<1>5. OnServer(p)
  BY <1>1, <1>2, AnsweredIs DEF OnServer, Refreshes, StoresLater, Sound
<1>6. Owes(p)
  BY <1>1, <1>2, AnsweredIs DEF Owes, WillStore, StoresLater, Storing, Sound, LoginPcs
<1>7. StepOf(p)
  BY <1>1, <1>4, <1>5, <1>6, AnsweredIs DEF StepOf, OnSlot
<1> QED
  BY <1>3, <1>7, StepKeeps

(* A fault that is used up is still within its bound.                      *)
LEMMA FaultIs ==
  ASSUME TokenInv, Fault PROVE faults' \in 0 .. MaxFaults
  BY Types, Numbers DEF TokenInv, Fault

LEMMA ReplacedIs ==
  ASSUME NEW x PROVE Replaced(x) \subseteq Uid
  BY DEF Replaced, Live

(* What a Save leaves: the pair in the item, or its session on record.     *)
LEMMA SavedIs ==
  ASSUME TokenInv, NEW p \in Proc, proc[p].uid \in Uid, proc[p].pc \notin LoginPcs,
         Save(p) \/ SaveFails(p) \/ SaveRefused(p), srv' = srv
  PROVE  /\ slot' \in Blob /\ stale' \subseteq Uid /\ orphans' \subseteq Uid
         /\ faults' \in 0 .. MaxFaults
         /\ stale \subseteq stale' /\ orphans \subseteq orphans'
         /\ OnSlot(p)
         /\ \/ slot'.uid = proc[p].uid /\ slot'.gen = proc[p].gen
            \/ proc[p].uid \in stale' /\ (proc[p].pass = "whole" => proc[p].uid \in orphans')
<1>0. /\ slot \in Blob /\ stale \subseteq Uid /\ orphans \subseteq Uid /\ faults \in 0 .. MaxFaults
      /\ proc[p] \in Process /\ Sound(proc[p])
  BY Types DEF TokenInv
<1>1. CASE Save(p)
  <2>1. /\ slot' = [uid |-> proc[p].uid, gen |-> proc[p].gen, pass |-> "whole"]
        /\ orphans' = orphans \cup Replaced(proc[p].uid)
        /\ stale' = stale /\ faults' = faults
    BY <1>1 DEF Save, Validate
  <2>2. slot' \in Blob
    BY <1>0, <2>1 DEF Blob, Process
  <2> QED
    BY <1>0, <2>1, <2>2, ReplacedIs DEF OnSlot
<1>2. CASE SaveFails(p)
  BY <1>0, <1>2, FaultIs DEF SaveFails, OnSlot
<1>3. CASE SaveRefused(p)
  BY <1>0, <1>3 DEF SaveRefused, Validate, OnSlot, Sound, Process
<1> QED
  BY <1>1, <1>2, <1>3

LEMMA DeletedIs ==
  ASSUME TokenInv, NEW p \in Proc, Delete
  PROVE  /\ slot' = NoBlob /\ slot' \in Blob /\ orphans' \subseteq Uid /\ orphans \subseteq orphans'
         /\ stale' = stale /\ faults' = faults /\ OnSlot(p)
<1>1. NoBlob \in Blob
  BY Numbers DEF NoBlob, Blob
<1> QED
  BY <1>1, Types, ReplacedIs DEF TokenInv, Delete, OnSlot

(* A revoke ends the session, or leaves it on record.                      *)
LEMMA AuthDeleteIs ==
  ASSUME TokenInv, NEW p \in Proc, proc[p].uid \in Uid, AuthDelete(p)
  PROVE  LET u == proc[p].uid IN
         /\ srv' \in [Uid -> ServerSession] /\ stale' \subseteq Uid /\ orphans' \subseteq Uid
         /\ faults' \in 0 .. MaxFaults
         /\ stale \subseteq stale' /\ orphans \subseteq orphans'
         /\ \A v \in Uid : v # u => srv'[v] = srv[v]
         /\ \/ srv' = srv
            \/ srv'[u].state = "deleted" /\ (srv'[u].fresh <=> srv[u].fresh)
               /\ srv'[u].gen = srv[u].gen
         /\ srv'[u].state # "live" \/ u \in stale'
         /\ proc[p].pc \in LoginPcs => srv'[u].state # "live" \/ u \in orphans'
<1> DEFINE u == proc[p].uid
<1>0. /\ srv \in [Uid -> ServerSession] /\ stale \subseteq Uid /\ orphans \subseteq Uid
      /\ faults \in 0 .. MaxFaults /\ HoldersAreCurrent /\ LoginIsAlone
  BY Types DEF TokenInv
<1>1. CASE Usable(p) /\ srv' = [srv EXCEPT ![u].state = "deleted"] /\ UNCHANGED <<ghosts, faults>>
  BY <1>0, <1>1 DEF ghosts, ServerSession
<1>2. CASE Usable(p) /\ Fault /\ stale' = stale \cup {u} /\ orphans' = orphans \cup {u} /\ srv' = srv
  BY <1>0, <1>2, FaultIs
<1>3. CASE ~Usable(p) /\ UNCHANGED <<srv, ghosts, faults>>
  BY <1>0, <1>3 DEF ghosts, Usable, Live, HoldersAreCurrent, LoginIsAlone
<1> QED
  BY <1>1, <1>2, <1>3 DEF AuthDelete

(* A command that ends, and a resume that is given up, let the session go. *)
LEMMA IdleIs ==
  /\ Idle \in Process /\ Sound(Idle) /\ Idle.uid = NoUid /\ Idle.pc = "idle" /\ ~Idle.save
  /\ Idle.verb = "none" /\ Idle.gen = 0
  BY Numbers DEF Idle, Process, Verbs, Pcs, MaxHVAttempts, Sound

LEMMA EndedIs ==
  ASSUME TokenInv, NEW p \in Proc, proc' = Ended(p)
  PROVE  /\ proc' \in [Proc -> Process] /\ \A q \in Proc : q # p => proc'[q] = proc[q]
         /\ proc'[p].uid = NoUid /\ proc'[p].pc = "idle" /\ Sound(proc'[p])
  BY IdleIs, Types DEF TokenInv, Ended

LEMMA GiveUpIs ==
  ASSUME TokenInv, NEW p \in Proc, proc' = GiveUpResume(p),
         proc[p].pc \in {"load", "user", "addrs", "wipe"},
         proc[p].verb = "logout" => proc[p].pc # "wipe"
  PROVE  /\ proc' \in [Proc -> Process] /\ \A q \in Proc : q # p => proc'[q] = proc[q]
         /\ Sound(proc'[p])
         /\ \/ proc'[p].uid = NoUid /\ proc'[p].pc \in {"idle", "srp"}
            \/ /\ proc'[p].pc = "erase" /\ proc'[p].uid = proc[p].uid
               /\ proc'[p].gen = proc[p].gen
               /\ proc[p].verb = "logout" /\ proc'[p].verb = "logout"
<1>0. proc \in [Proc -> Process] /\ Sound(proc[p]) /\ proc[p] \in Process
  BY Types DEF TokenInv
<1>1. CASE proc[p].verb = "acquire"
  <2> DEFINE r == [Idle EXCEPT !.verb = "acquire", !.pc = "srp"]
  <2>1. proc' = [proc EXCEPT ![p] = r]
    BY <1>1 DEF GiveUpResume
  <2>2. r \in Process /\ r.uid = NoUid /\ r.pc = "srp" /\ Sound(r)
    BY IdleIs DEF Process, Verbs, Pcs, Sound
  <2> HIDE DEF r
  <2> QED
    BY <1>0, <2>1, <2>2
<1>2. CASE proc[p].verb = "logout"
  <2> DEFINE r == [proc[p] EXCEPT !.pc = "erase"]
  <2>1. proc' = [proc EXCEPT ![p] = r]
    BY <1>2 DEF GiveUpResume, Goto
  <2>2. r \in Process /\ r.uid = proc[p].uid /\ r.gen = proc[p].gen /\ r.pc = "erase"
        /\ r.verb = "logout" /\ Sound(r)
    BY <1>0, <1>2 DEF Process, Pcs, Sound
  <2> HIDE DEF r
  <2> QED
    BY <1>0, <1>2, <2>1, <2>2
<1>3. CASE proc[p].verb \notin {"acquire", "logout"}
  <2>1. proc' = Ended(p)
    BY <1>3 DEF GiveUpResume
  <2> QED
    BY <2>1, EndedIs
<1> QED
  BY <1>1, <1>2, <1>3

----------------------------------------------------------------------------
(* TryResume and the live session. *)

LEMMA BeginKeeps ==
  ASSUME TokenInv, AcquireResumeOnly \/ AcquireSession \/ RunLogin \/ RunLogout
  PROVE  TokenInv'
<1>1. PICK p \in Proc, verb \in Verbs, pc \in {"load", "drop"} :
        Begin(p, verb, pc) /\ (verb = "logout" => pc = "load")
  BY DEF AcquireResumeOnly, AcquireSession, RunLogin, RunLogout, Proc, Verbs
<1> DEFINE r == [Idle EXCEPT !.verb = verb, !.pc = pc]
<1>2. /\ proc' = [proc EXCEPT ![p] = r]
      /\ acts < MaxActs /\ acts' = acts + 1
      /\ UNCHANGED <<srv, slot, stale, orphans, faults>>
      /\ proc[p].pc = "idle"
  BY <1>1 DEF Begin, ghosts
<1>3. r \in Process /\ r.uid = NoUid /\ r.gen = 0 /\ r.pc \in {"load", "drop"} /\ Sound(r)
  BY IdleIs, <1>1 DEF Process, Pcs, Sound
<1> HIDE DEF r
<1>4. /\ proc' \in [Proc -> Process] /\ proc'[p] = r
      /\ \A q \in Proc : q # p => proc'[q] = proc[q]
  BY <1>2, <1>3, Types DEF TokenInv
<1>5. acts' \in 0 .. MaxActs
  BY <1>2, Types, Numbers DEF TokenInv
<1>6. TypeOK'
  BY <1>2, <1>4, <1>5 DEF TokenInv, TypeOK, Process
<1>7. proc[p].uid = NoUid /\ NoUid \notin Uid /\ Sound(proc[p])
  BY <1>2, Numbers DEF TokenInv, Sound
<1>8. StepOf(p)
  BY <1>2, <1>3, <1>4, <1>7 DEF StepOf, OnServer, OnSlot, Owes, LoginPcs, WillStore, Storing
<1> QED
  BY <1>6, <1>8, StepKeeps

LEMMA LoadKeeps ==
  ASSUME TokenInv, NEW p \in Proc, Load(p) PROVE TokenInv'
<1>0. /\ srv \in [Uid -> ServerSession] /\ slot \in Blob /\ proc \in [Proc -> Process]
      /\ \A q \in Proc : Sound(proc[q])
      /\ SlotSound /\ SessionKnown /\ LoginIsAlone /\ HoldersAreCurrent
      /\ NoneAbandoned /\ StoredPairIsCurrent
      /\ proc[p].pc = "load" /\ proc[p].uid = NoUid /\ NoUid \notin Uid
  BY Types, Numbers DEF TokenInv, Load, Sound
<1>1. CASE slot = NoBlob
  <2>1. proc' = GiveUpResume(p) /\ UNCHANGED <<srv, slot, stale, orphans, acts, faults>>
    BY <1>1 DEF Load, ghosts
  <2>2. TypeOK'
    BY <2>1, <1>0, GiveUpIs DEF TokenInv, TypeOK, Process
  <2>3. StepOf(p)
    BY <2>1, <1>0, GiveUpIs DEF StepOf, OnServer, OnSlot, Owes, LoginPcs, WillStore, Storing
  <2> QED
    BY <2>2, <2>3, StepKeeps
<1>2. CASE slot # NoBlob
  <2> DEFINE r == [[[[proc[p] EXCEPT !.pc = "user"] EXCEPT !.uid = slot.uid]
                      EXCEPT !.gen = slot.gen] EXCEPT !.pass = slot.pass]
  <2>1. /\ proc' = [proc EXCEPT ![p] = r]
        /\ stale' = stale \cup Shared(p, slot.uid)
        /\ UNCHANGED <<srv, slot, orphans, acts, faults>>
    BY <1>0, <1>2 DEF Load
  <2>2. slot.uid \in Uid /\ slot.pass = "whole" /\ slot.gen \in Gen
    BY <1>0, <1>2 DEF SlotSound, Blob
  <2>3. /\ r \in Process /\ r.pc = "user" /\ r.uid = slot.uid /\ r.gen = slot.gen
        /\ r.verb = proc[p].verb /\ (r.save <=> proc[p].save) /\ Sound(r)
    <3>1. /\ r.verb = proc[p].verb /\ r.pc = "user" /\ r.uid = slot.uid /\ r.gen = slot.gen
          /\ r.pass = slot.pass /\ (r.wired <=> proc[p].wired) /\ (r.save <=> proc[p].save)
      BY <1>0 DEF Process
    <3>2. r \in Process
      BY <1>0, <2>2 DEF Process, Pcs
    <3> HIDE DEF r
    <3>3. ~proc[p].wired /\ ~proc[p].save
      BY <1>0 DEF Sound
    <3>4. Sound(r)
      BY <1>0, <2>2, <3>1, <3>3 DEF Sound
    <3> QED
      BY <3>1, <3>2, <3>4
  <2> HIDE DEF r
  <2>4. /\ proc' \in [Proc -> Process] /\ proc'[p] = r
        /\ \A q \in Proc : q # p => proc'[q] = proc[q]
    BY <1>0, <2>1, <2>3
  <2>5. /\ stale \subseteq stale' /\ stale' \subseteq Uid
        /\ (\E q \in Proc : q # p /\ proc[q].uid = slot.uid) => slot.uid \in stale'
    BY <2>1, <2>2, Types DEF Shared, TokenInv
  <2>6. TypeOK'
    BY <2>1, <2>4, <2>5 DEF TokenInv, TypeOK, Process
  <2>7. SlotSound' /\ \A q \in Proc : Sound(proc'[q])
    BY <1>0, <2>1, <2>3, <2>4 DEF SlotSound
  <2>8. SessionKnown'
    BY <1>0, <2>1, <2>3, <2>4 DEF SessionKnown
  <2>9. LoginIsAlone'
    BY <1>0, <2>1, <2>3, <2>4 DEF LoginIsAlone, LoginPcs, Live
  <2>10. HoldersAreCurrent'
    <3> SUFFICES ASSUME NEW q \in Proc, proc'[q].uid \in Uid
                 PROVE  /\ \A q2 \in Proc : q2 # q /\ proc'[q2].uid = proc'[q].uid =>
                             proc'[q].uid \in stale'
                        /\ srv[proc'[q].uid].state = "live" =>
                             \/ proc'[q].uid \in stale'
                             \/ proc'[q].gen = srv[proc'[q].uid].gen
                        /\ proc'[q].pc = "erase" =>
                             srv[proc'[q].uid].state # "live" \/ proc'[q].uid \in stale'
      BY <2>1 DEF HoldersAreCurrent, Live
    <3>1. CASE q = p
      <4>1. \A q2 \in Proc : q2 # q /\ proc'[q2].uid = proc'[q].uid => proc'[q].uid \in stale'
        BY <2>3, <2>4, <2>5, <3>1
      <4>2. srv[slot.uid].state = "live" => slot.uid \in stale' \/ slot.gen = srv[slot.uid].gen
        BY <1>0, <2>2, <2>5 DEF StoredPairIsCurrent, WillStore, Live
      <4> QED
        BY <2>3, <2>4, <3>1, <4>1, <4>2
    <3>2. CASE q # p
      BY <1>0, <2>3, <2>4, <2>5, <3>2 DEF HoldersAreCurrent, Live
    <3> QED
      BY <3>1, <3>2
  <2>11. NoneAbandoned'
    BY <1>0, <2>1, <2>4 DEF NoneAbandoned, Storing, LoginPcs, Live
  <2>12. StoredPairIsCurrent'
    BY <1>0, <2>1, <2>4, <2>5 DEF StoredPairIsCurrent, WillStore, Live
  <2> QED
    BY <2>6, <2>7, <2>8, <2>9, <2>10, <2>11, <2>12 DEF TokenInv
<1> QED
  BY <1>1, <1>2

LEMMA ResumeFailsKeeps ==
  ASSUME TokenInv, NEW p \in Proc,
         LoadFails(p) \/ Expired(p) \/ Throttled(p) \/ Wipe(p) \/ Outage(p)
  PROVE  TokenInv'
<1>0. /\ srv \in [Uid -> ServerSession] /\ proc \in [Proc -> Process] /\ proc[p] \in Process
      /\ Sound(proc[p]) /\ HoldersAreCurrent /\ NoUid \notin Uid
      /\ faults \in 0 .. MaxFaults
  BY Types, Numbers DEF TokenInv
<1>1. CASE LoadFails(p)
  <2>1. proc' = GiveUpResume(p) /\ UNCHANGED <<srv, slot, stale, orphans, acts>>
        /\ proc[p].pc = "load" /\ faults' \in 0 .. MaxFaults
    BY <1>1, FaultIs DEF LoadFails, ghosts
  <2>2. TypeOK'
    BY <2>1, <1>0, GiveUpIs DEF TokenInv, TypeOK, Process
  <2>3. proc[p].uid = NoUid
    BY <2>1, <1>0 DEF Sound
  <2>4. StepOf(p)
    BY <2>1, <2>3, <1>0, GiveUpIs
       DEF StepOf, OnServer, OnSlot, Owes, LoginPcs, WillStore, Storing
  <2> QED
    BY <2>2, <2>4, StepKeeps
<1> DEFINE w == [proc[p] EXCEPT !.pc = "wipe"]
<1>2. /\ w \in Process /\ w.uid = proc[p].uid /\ w.gen = proc[p].gen /\ w.pc = "wipe"
      /\ w.verb = proc[p].verb
      /\ proc[p].pc \in {"user", "addrs"} /\ proc[p].verb # "logout" => Sound(w)
  BY <1>0 DEF Process, Pcs, Sound
<1>3. CASE Expired(p)
  <2>1. /\ UNCHANGED <<srv, slot, stale, orphans, acts, faults>>
        /\ proc[p].pc \in {"user", "addrs"} /\ ~Usable(p)
        /\ \/ proc[p].verb = "logout" /\ proc' = GiveUpResume(p)
           \/ proc[p].verb # "logout" /\ proc' = [proc EXCEPT ![p] = w]
    BY <1>3 DEF Expired, ghosts, Goto
  <2>2. proc[p].uid \in Uid /\ (srv[proc[p].uid].state # "live" \/ proc[p].uid \in stale)
    BY <2>1, <1>0 DEF Sound, HoldersAreCurrent, Usable, Live
  <2>3. CASE proc[p].verb = "logout"
    <3>1. TypeOK'
      BY <2>1, <2>3, <1>0, GiveUpIs DEF TokenInv, TypeOK, Process
    <3>2. StepOf(p)
      BY <2>1, <2>2, <2>3, <1>0, GiveUpIs
         DEF StepOf, OnServer, OnSlot, Owes, LoginPcs, WillStore, Storing
    <3> QED
      BY <3>1, <3>2, StepKeeps
  <2>4. CASE proc[p].verb # "logout"
    <3> HIDE DEF w
    <3>0. proc' \in [Proc -> Process] /\ proc'[p] = w
          /\ \A q \in Proc : q # p => proc'[q] = proc[q]
      BY <2>1, <2>4, <1>0, <1>2
    <3>1. TypeOK'
      BY <2>1, <3>0 DEF TokenInv, TypeOK, Process
    <3>2. StepOf(p)
      BY <2>1, <2>2, <2>4, <3>0, <1>2
         DEF StepOf, OnServer, OnSlot, Owes, LoginPcs, WillStore, Storing
    <3> QED
      BY <3>1, <3>2, StepKeeps
  <2> QED
    BY <2>3, <2>4
<1>4. CASE Throttled(p)
  <2>1. /\ UNCHANGED <<slot, stale, orphans, acts>> /\ faults' \in 0 .. MaxFaults
        /\ proc[p].pc \in {"user", "addrs"}
        /\ srv' = [srv EXCEPT ![proc[p].uid].state = "deleted"]
        /\ \/ proc[p].verb = "logout" /\ proc' = GiveUpResume(p)
           \/ proc[p].verb # "logout" /\ proc' = [proc EXCEPT ![p] = w]
    BY <1>4, FaultIs DEF Throttled, ghosts, Goto
  <2>2. /\ proc[p].uid \in Uid /\ srv' \in [Uid -> ServerSession]
        /\ \A v \in Uid : v # proc[p].uid => srv'[v] = srv[v]
        /\ srv'[proc[p].uid].state = "deleted" /\ srv'[proc[p].uid].gen = srv[proc[p].uid].gen
        /\ (srv'[proc[p].uid].fresh <=> srv[proc[p].uid].fresh)
    BY <2>1, <1>0 DEF Sound, ServerSession
  <2>3. CASE proc[p].verb = "logout"
    <3>1. TypeOK'
      BY <2>1, <2>2, <2>3, <1>0, GiveUpIs DEF TokenInv, TypeOK, Process, ServerSession
    <3>2. StepOf(p)
      BY <2>1, <2>2, <2>3, <1>0, GiveUpIs
         DEF StepOf, OnServer, OnSlot, Owes, LoginPcs, WillStore, Storing
    <3> QED
      BY <3>1, <3>2, StepKeeps
  <2>4. CASE proc[p].verb # "logout"
    <3> HIDE DEF w
    <3>0. proc' \in [Proc -> Process] /\ proc'[p] = w
          /\ \A q \in Proc : q # p => proc'[q] = proc[q]
      BY <2>1, <2>4, <1>0, <1>2
    <3>1. TypeOK'
      BY <2>1, <2>2, <3>0 DEF TokenInv, TypeOK, Process, ServerSession
    <3>2. StepOf(p)
      BY <2>1, <2>2, <2>4, <3>0, <1>2
         DEF StepOf, OnServer, OnSlot, Owes, LoginPcs, WillStore, Storing
    <3> QED
      BY <3>1, <3>2, StepKeeps
  <2> QED
    BY <2>3, <2>4
<1>5. CASE Wipe(p)
  <2>1. proc' = GiveUpResume(p) /\ UNCHANGED <<srv, acts>> /\ Delete /\ proc[p].pc = "wipe"
    BY <1>5 DEF Wipe
  <2>2. proc[p].verb # "logout"
    BY <2>1, <1>0 DEF Sound
  <2>3. TypeOK'
    BY <2>1, <2>2, GiveUpIs, DeletedIs DEF TokenInv, TypeOK, Process, Blob
  <2>4. slot'.uid \notin Uid
    BY <2>1, DeletedIs, <1>0 DEF NoBlob
  <2>5. StepOf(p)
    BY <2>1, <2>2, <2>4, <1>0, GiveUpIs, DeletedIs
       DEF StepOf, OnServer, Owes, LoginPcs, WillStore, Storing
  <2> QED
    BY <2>3, <2>5, StepKeeps
<1>6. CASE Outage(p)
  <2>1. proc' = GiveUpResume(p) /\ UNCHANGED <<slot, acts>> /\ AuthDelete(p)
        /\ proc[p].pc \in {"user", "addrs"} /\ proc[p].uid \in Uid
    BY <1>6, <1>0 DEF Outage, Sound
  <2>2. TypeOK'
    BY <2>1, GiveUpIs, AuthDeleteIs DEF TokenInv, TypeOK, Process, ServerSession
  <2>3. StepOf(p)
    BY <2>1, <1>0, GiveUpIs, AuthDeleteIs
       DEF StepOf, OnServer, OnSlot, Owes, LoginPcs, WillStore, Storing
  <2> QED
    BY <2>2, <2>3, StepKeeps
<1> QED
  BY <1>1, <1>3, <1>4, <1>5, <1>6

LEMMA UnlockKeysKeeps ==
  ASSUME TokenInv, NEW p \in Proc, UnlockKeys(p) PROVE TokenInv'
<1>0. proc \in [Proc -> Process] /\ proc[p] \in Process /\ Sound(proc[p])
  BY Types DEF TokenInv
<1>1. PICK pc \in {"revoke", "persist"} :
        /\ proc' = [proc EXCEPT ![p].pc = pc]
        /\ pc = "revoke" <=> proc[p].verb = "logout"
        /\ proc[p].pc = "unlock" /\ proc[p].pass = "whole"
        /\ UNCHANGED <<srv, slot, stale, orphans, acts, faults>>
  BY DEF UnlockKeys, Goto, ghosts
<1> DEFINE r == [proc[p] EXCEPT !.pc = pc]
<1>2. /\ r \in Process /\ r.pc = pc /\ r.uid = proc[p].uid /\ r.gen = proc[p].gen
      /\ r.verb = proc[p].verb /\ Sound(r)
  BY <1>0, <1>1 DEF Process, Pcs, Sound
<1>3. proc' = [proc EXCEPT ![p] = r]
  BY <1>1
<1> HIDE DEF r
<1>4. proc' \in [Proc -> Process] /\ proc'[p] = r
      /\ \A q \in Proc : q # p => proc'[q] = proc[q]
  BY <1>0, <1>2, <1>3
<1>5. TypeOK'
  BY <1>1, <1>4 DEF TokenInv, TypeOK, Process
<1>6. StepOf(p)
  BY <1>1, <1>2, <1>4
     DEF StepOf, OnServer, OnSlot, Owes, LoginPcs, WillStore, StoresLater, Storing
<1> QED
  BY <1>5, <1>6, StepKeeps

LEMMA PersistKeeps ==
  ASSUME TokenInv, NEW p \in Proc, PersistResumed(p) \/ PersistLogin(p)
  PROVE  TokenInv'
<1>0. proc \in [Proc -> Process] /\ proc[p] \in Process /\ Sound(proc[p])
  BY Types DEF TokenInv
<1>1. /\ proc[p].pc = "persist" /\ proc[p].pass = "whole" /\ proc[p].uid \in Uid
      /\ proc[p].pc \notin LoginPcs
      /\ Save(p) \/ SaveFails(p) \/ SaveRefused(p)
      /\ UNCHANGED <<srv, acts>>
  BY <1>0 DEF PersistResumed, PersistLogin, Sound, LoginPcs
<1>2. /\ proc' \in [Proc -> Process] /\ \A q \in Proc : q # p => proc'[q] = proc[q]
      /\ Sound(proc'[p]) /\ proc'[p].uid = proc[p].uid /\ proc'[p].gen = proc[p].gen
      /\ proc'[p].pc \in {"live", "closed"}
  <2>1. CASE PersistResumed(p)
    <3> DEFINE r == [[[proc[p] EXCEPT !.pc = "live"] EXCEPT !.wired = TRUE]
                       EXCEPT !.pass = proc[p].pass]
    <3>1. proc' = [proc EXCEPT ![p] = r] /\ proc[p].verb # "login"
      BY <2>1, <1>0 DEF PersistResumed, Clone, Process
    <3>2. /\ r.verb = proc[p].verb /\ r.pc = "live" /\ r.uid = proc[p].uid
          /\ r.gen = proc[p].gen /\ r.pass = proc[p].pass /\ r.wired
          /\ (r.save <=> proc[p].save)
      BY <1>0 DEF Process
    <3>3. r \in Process
      BY <1>0 DEF Process, Pcs
    <3> HIDE DEF r
    <3>4. Sound(r)
      BY <1>0, <1>1, <3>2 DEF Sound
    <3> QED
      BY <1>0, <3>1, <3>2, <3>3, <3>4
  <2>2. CASE PersistLogin(p)
    <3> DEFINE r == [[proc[p] EXCEPT !.pc = "closed"] EXCEPT !.pass = "none"]
    <3>1. proc' = [proc EXCEPT ![p] = r]
      BY <2>2 DEF PersistLogin
    <3>2. /\ r.verb = proc[p].verb /\ r.pc = "closed" /\ r.uid = proc[p].uid
          /\ r.gen = proc[p].gen /\ r.pass = "none" /\ (r.wired <=> proc[p].wired)
          /\ (r.save <=> proc[p].save)
      BY <1>0 DEF Process
    <3>3. r \in Process
      BY <1>0 DEF Process, Pcs
    <3> HIDE DEF r
    <3>4. Sound(r)
      BY <1>0, <1>1, <3>2 DEF Sound
    <3> QED
      BY <1>0, <3>1, <3>2, <3>3, <3>4
  <2> QED
    BY <2>1, <2>2
<1>3. TypeOK'
  BY <1>1, <1>2, SavedIs DEF TokenInv, TypeOK, Process, Blob
<1>4. Owes(p)
  BY <1>1, <1>2, SavedIs DEF Owes, LoginPcs, WillStore, Storing
<1>5. StepOf(p)
  BY <1>1, <1>2, <1>4, SavedIs DEF StepOf, OnServer
<1> QED
  BY <1>3, <1>5, StepKeeps

LEMMA AuthUpdateKeeps ==
  ASSUME TokenInv, NEW p \in Proc, OnAuthUpdate(p) PROVE TokenInv'
<1>0. proc \in [Proc -> Process] /\ proc[p] \in Process /\ Sound(proc[p])
  BY Types DEF TokenInv
<1>1. /\ proc[p].pc \in {"live", "closed"} /\ proc[p].uid \in Uid /\ proc[p].pc \notin LoginPcs
      /\ Save(p) \/ SaveFails(p) \/ SaveRefused(p)
      /\ UNCHANGED <<srv, acts>>
  BY <1>0 DEF OnAuthUpdate, Sound, LoginPcs
<1> DEFINE r == [proc[p] EXCEPT !.save = FALSE]
<1>2. proc' = [proc EXCEPT ![p] = r]
  BY DEF OnAuthUpdate
<1>3. /\ r \in Process /\ r.pc = proc[p].pc /\ r.uid = proc[p].uid /\ r.gen = proc[p].gen
      /\ Sound(r)
  BY <1>0, <1>1 DEF Process, Sound
<1> HIDE DEF r
<1>4. proc' \in [Proc -> Process] /\ proc'[p] = r
      /\ \A q \in Proc : q # p => proc'[q] = proc[q]
  BY <1>0, <1>2, <1>3
<1>5. TypeOK'
  BY <1>1, <1>4, SavedIs DEF TokenInv, TypeOK, Process, Blob
<1>6. Owes(p)
  BY <1>1, <1>3, <1>4, SavedIs DEF Owes, LoginPcs, WillStore, Storing
<1>7. StepOf(p)
  BY <1>1, <1>3, <1>4, <1>6, SavedIs DEF StepOf, OnServer
<1> QED
  BY <1>5, <1>7, StepKeeps

LEMMA CloseKeeps ==
  ASSUME TokenInv, NEW p \in Proc, Close(p) \/ Closed(p) PROVE TokenInv'
<1>0. proc \in [Proc -> Process] /\ proc[p] \in Process /\ Sound(proc[p]) /\ NoUid \notin Uid
  BY Types, Numbers DEF TokenInv
<1>1. UNCHANGED <<srv, slot, stale, orphans, acts, faults>>
      /\ proc[p].pc \in {"live", "closed"} /\ proc[p].verb # "logout"
  BY <1>0 DEF Close, Closed, ghosts, Sound
<1>2. CASE Close(p)
  <2> DEFINE r == [[proc[p] EXCEPT !.pc = "closed"] EXCEPT !.pass = "none"]
  <2>1. proc' = [proc EXCEPT ![p] = r] /\ proc[p].pc = "live"
    BY <1>2 DEF Close
  <2>2. /\ r \in Process /\ r.pc = "closed" /\ r.uid = proc[p].uid /\ r.gen = proc[p].gen
        /\ (r.save <=> proc[p].save) /\ r.verb = proc[p].verb /\ Sound(r)
    BY <1>0, <1>1, <2>1 DEF Process, Pcs, Sound
  <2> HIDE DEF r
  <2>3. proc' \in [Proc -> Process] /\ proc'[p] = r
        /\ \A q \in Proc : q # p => proc'[q] = proc[q]
    BY <1>0, <2>1, <2>2
  <2>4. TypeOK'
    BY <1>1, <2>3 DEF TokenInv, TypeOK, Process
  <2>5. StepOf(p)
    BY <1>1, <2>1, <2>2, <2>3
       DEF StepOf, OnServer, OnSlot, Owes, LoginPcs, WillStore, StoresLater, Storing
  <2> QED
    BY <2>4, <2>5, StepKeeps
<1>3. CASE Closed(p)
  <2>1. proc' = Ended(p) /\ ~proc[p].save /\ proc[p].pc = "closed"
    BY <1>3 DEF Closed
  <2>2. TypeOK'
    BY <1>1, <2>1, EndedIs DEF TokenInv, TypeOK, Process
  <2>3. StepOf(p)
    BY <1>0, <1>1, <2>1, EndedIs
       DEF StepOf, OnServer, OnSlot, Owes, LoginPcs, WillStore, Storing
  <2> QED
    BY <2>2, <2>3, StepKeeps
<1> QED
  BY <1>2, <1>3

----------------------------------------------------------------------------
(* Login, logout, a crash, and Proton's own doing. *)

LEMMA DropKeeps ==
  ASSUME TokenInv, NEW p \in Proc, DropStored(p) \/ SrpFails(p) PROVE TokenInv'
<1>0. proc \in [Proc -> Process] /\ proc[p] \in Process /\ Sound(proc[p]) /\ NoUid \notin Uid
  BY Types, Numbers DEF TokenInv
<1>1. proc[p].pc \in {"drop", "srp"} /\ proc[p].uid = NoUid /\ UNCHANGED <<srv, acts>>
      /\ ~Storing(proc[p])
  BY <1>0 DEF DropStored, SrpFails, Sound, Storing, LoginPcs
<1>2. /\ proc' \in [Proc -> Process] /\ \A q \in Proc : q # p => proc'[q] = proc[q]
      /\ Sound(proc'[p]) /\ proc'[p].uid = NoUid /\ proc'[p].pc \in {"srp", "idle"}
  <2>1. CASE proc' = Ended(p)
    BY <2>1, EndedIs
  <2>2. CASE proc[p].pc = "drop" /\ proc' = Goto(p, "srp")
    <3> DEFINE r == [proc[p] EXCEPT !.pc = "srp"]
    <3>1. proc' = [proc EXCEPT ![p] = r]
      BY <2>2 DEF Goto
    <3>2. r \in Process /\ r.pc = "srp" /\ r.uid = NoUid /\ Sound(r)
      BY <1>0, <1>1, <2>2 DEF Process, Pcs, Sound
    <3> HIDE DEF r
    <3> QED
      BY <1>0, <3>1, <3>2
  <2> QED
    BY <2>1, <2>2 DEF DropStored, SrpFails
<1>3. /\ slot' \in Blob /\ stale' = stale /\ orphans \subseteq orphans' /\ orphans' \subseteq Uid
      /\ faults' \in 0 .. MaxFaults /\ OnSlot(p)
  <2>1. CASE Delete
    BY <2>1, DeletedIs, Types DEF TokenInv
  <2>2. CASE UNCHANGED <<slot, stale, orphans>> /\ (Fault \/ faults' = faults)
    BY <2>2, FaultIs, Types DEF TokenInv, OnSlot
  <2> QED
    BY <2>1, <2>2 DEF DropStored, SrpFails, ghosts
<1>4. TypeOK'
  BY <1>1, <1>2, <1>3 DEF TokenInv, TypeOK, Process, Blob
<1>5. StepOf(p)
  BY <1>0, <1>1, <1>2, <1>3 DEF StepOf, OnServer, Owes, LoginPcs, WillStore
<1> QED
  BY <1>4, <1>5, StepKeeps

(* The SRP login takes a session nobody knew.                              *)
LEMMA SrpKeeps ==
  ASSUME TokenInv, NEW p \in Proc, SrpLogin(p) PROVE TokenInv'
<1>0. /\ srv \in [Uid -> ServerSession] /\ slot \in Blob /\ proc \in [Proc -> Process]
      /\ \A q \in Proc : Sound(proc[q])
      /\ SlotSound /\ SessionKnown /\ LoginIsAlone /\ HoldersAreCurrent
      /\ NoneAbandoned /\ StoredPairIsCurrent
      /\ proc[p] \in Process /\ NoUid \notin Uid /\ 0 \in Gen
  BY Types, Numbers DEF TokenInv
<1> DEFINE s == [state |-> "live", gen |-> 0, fresh |-> TRUE]
<1>1. PICK u \in Uid :
        /\ srv[u].state = "none"
        /\ srv' = [srv EXCEPT ![u] = s]
        /\ proc' = [proc EXCEPT ![p] = [[proc[p] EXCEPT !.pc = "second"] EXCEPT !.uid = u]]
  BY <1>0 DEF SrpLogin
<1> DEFINE r == [[proc[p] EXCEPT !.pc = "second"] EXCEPT !.uid = u]
<1>2. UNCHANGED <<slot, stale, orphans, acts, faults>> /\ proc[p].pc = "srp"
      /\ proc[p].uid = NoUid /\ proc[p].gen = 0
  BY <1>0 DEF SrpLogin, ghosts, Sound
<1>3. /\ r.verb = proc[p].verb /\ r.pc = "second" /\ r.uid = u /\ r.gen = 0
      /\ r.pass = proc[p].pass /\ (r.wired <=> proc[p].wired) /\ (r.save <=> proc[p].save)
      /\ r \in Process
  BY <1>0, <1>2 DEF Process, Pcs
<1>4. s \in ServerSession /\ s.state = "live" /\ s.gen = 0 /\ s.fresh
  BY <1>0 DEF ServerSession
<1>5. proc' = [proc EXCEPT ![p] = r]
  BY <1>1
<1> HIDE DEF r, s
<1>6. Sound(r)
  BY <1>0, <1>2, <1>3 DEF Sound
<1>7. /\ proc' \in [Proc -> Process] /\ proc'[p] = r
      /\ \A q \in Proc : q # p => proc'[q] = proc[q]
  BY <1>0, <1>3, <1>5
<1>8. /\ srv' \in [Uid -> ServerSession] /\ srv'[u] = s
      /\ \A v \in Uid : v # u => srv'[v] = srv[v]
  BY <1>0, <1>1, <1>4
<1>9. slot.uid # u /\ \A q \in Proc : proc[q].uid # u
  BY <1>0, <1>1 DEF SessionKnown
<1>10. TypeOK'
  BY <1>2, <1>7, <1>8 DEF TokenInv, TypeOK, Process, ServerSession
<1>11. SlotSound' /\ \A q \in Proc : Sound(proc'[q])
  BY <1>0, <1>2, <1>6, <1>7 DEF SlotSound
<1>12. SessionKnown'
  <2> SUFFICES ASSUME NEW v \in Uid
               PROVE  /\ (slot'.uid = v \/ \E q \in Proc : proc'[q].uid = v) => srv'[v].state # "none"
                      /\ ~srv'[v].fresh => srv'[v].gen < MaxGen
    BY DEF SessionKnown
  <2>1. CASE v = u
    BY <1>4, <1>8, <2>1
  <2>2. CASE v # u
    BY <1>0, <1>2, <1>3, <1>7, <1>8, <2>2 DEF SessionKnown
  <2> QED
    BY <2>1, <2>2
<1>13. LoginIsAlone'
  <2> SUFFICES ASSUME NEW q \in Proc, proc'[q].pc \in LoginPcs
               PROVE  /\ slot'.uid # proc'[q].uid
                      /\ \A q2 \in Proc : q2 # q => proc'[q2].uid # proc'[q].uid
                      /\ srv'[proc'[q].uid].state = "live" => proc'[q].gen = srv'[proc'[q].uid].gen
    BY DEF LoginIsAlone, Live
  <2>1. CASE q = p
    BY <1>2, <1>3, <1>4, <1>7, <1>8, <1>9, <2>1
  <2>2. CASE q # p
    <3>1. proc'[q] = proc[q] /\ proc[q].uid \in Uid /\ proc[q].uid # u
      BY <1>0, <1>7, <1>9, <2>2 DEF Sound, LoginPcs
    <3> QED
      BY <1>0, <1>2, <1>3, <1>7, <1>8, <2>2, <3>1 DEF LoginIsAlone, Live
  <2> QED
    BY <2>1, <2>2
<1>14. HoldersAreCurrent'
  <2> SUFFICES ASSUME NEW q \in Proc, proc'[q].uid \in Uid
               PROVE  /\ \A q2 \in Proc : q2 # q /\ proc'[q2].uid = proc'[q].uid =>
                           proc'[q].uid \in stale'
                      /\ srv'[proc'[q].uid].state = "live" =>
                           \/ proc'[q].uid \in stale'
                           \/ proc'[q].gen = srv'[proc'[q].uid].gen
                      /\ proc'[q].pc = "erase" =>
                           srv'[proc'[q].uid].state # "live" \/ proc'[q].uid \in stale'
    BY DEF HoldersAreCurrent, Live
  <2>1. CASE q = p
    BY <1>3, <1>4, <1>7, <1>8, <1>9, <2>1
  <2>2. CASE q # p
    BY <1>0, <1>2, <1>3, <1>7, <1>8, <1>9, <2>2 DEF HoldersAreCurrent, Live
  <2> QED
    BY <2>1, <2>2
<1>15. NoneAbandoned'
  <2> SUFFICES ASSUME NEW v \in Uid, srv'[v].state = "live"
               PROVE  slot'.uid = v \/ v \in orphans'
                      \/ \E q \in Proc : proc'[q].uid = v /\ Storing(proc'[q])
    BY DEF NoneAbandoned, Live
  <2>1. CASE v = u
    BY <1>3, <1>7, <2>1 DEF Storing, LoginPcs
  <2>2. CASE v # u
    BY <1>0, <1>2, <1>7, <1>8, <2>2 DEF NoneAbandoned, Live
  <2> QED
    BY <2>1, <2>2
<1>16. StoredPairIsCurrent'
  <2> SUFFICES ASSUME NEW v \in Uid, slot'.uid = v, srv'[v].state = "live",
                      slot'.gen # srv'[v].gen, v \notin stale'
               PROVE  \E q \in Proc : WillStore(q, v)'
    BY DEF StoredPairIsCurrent, Live
  <2>1. v # u /\ srv'[v] = srv[v]
    BY <1>2, <1>8, <1>9
  <2>2. PICK q \in Proc : WillStore(q, v)
    BY <1>0, <1>2, <2>1 DEF StoredPairIsCurrent, Live
  <2>3. proc'[q] = proc[q]
    BY <1>0, <1>2, <1>7, <2>2 DEF WillStore
  <2> QED
    BY <2>1, <2>2, <2>3 DEF WillStore
<1> QED
  BY <1>10, <1>11, <1>12, <1>13, <1>14, <1>15, <1>16 DEF TokenInv

LEMMA LoginKeeps ==
  ASSUME TokenInv, NEW p \in Proc, HumanVerification(p) \/ LoginUnlock(p) \/ LoginFails(p)
  PROVE  TokenInv'
<1>0. /\ proc \in [Proc -> Process] /\ proc[p] \in Process /\ Sound(proc[p]) /\ NoUid \notin Uid
  BY Types, Numbers DEF TokenInv
<1>1. /\ proc[p].pc \in LoginPcs /\ proc[p].uid \in Uid /\ ~proc[p].save /\ ~proc[p].wired
      /\ proc[p].verb # "logout" /\ UNCHANGED <<slot, acts>>
  BY <1>0 DEF HumanVerification, LoginUnlock, LoginFails, LoginPcs, Sound
<1>2. CASE HumanVerification(p)
  <2> DEFINE r == [proc[p] EXCEPT !.hv = proc[p].hv + 1]
  <2>1. proc' = [proc EXCEPT ![p] = r] /\ UNCHANGED <<srv, stale, orphans, faults>>
        /\ proc[p].hv < MaxHVAttempts
    BY <1>2 DEF HumanVerification, ghosts
  <2>2. r \in Process
    BY <1>0, <2>1 DEF Process, MaxHVAttempts
  <2>3. /\ r.pc = proc[p].pc /\ r.uid = proc[p].uid /\ r.gen = proc[p].gen
        /\ r.verb = proc[p].verb /\ r.pass = proc[p].pass
        /\ (r.save <=> proc[p].save) /\ (r.wired <=> proc[p].wired)
    BY <1>0 DEF Process
  <2> HIDE DEF r
  <2>4. Sound(r)
    BY <1>0, <2>3 DEF Sound
  <2>5. proc' \in [Proc -> Process] /\ proc'[p] = r
        /\ \A q \in Proc : q # p => proc'[q] = proc[q]
    BY <1>0, <2>1, <2>2
  <2>6. TypeOK'
    BY <1>1, <2>1, <2>5 DEF TokenInv, TypeOK, Process
  <2>7. StepOf(p)
    BY <1>1, <2>1, <2>3, <2>4, <2>5
       DEF StepOf, OnServer, OnSlot, Owes, LoginPcs, WillStore, Storing
  <2> QED
    BY <2>6, <2>7, StepKeeps
<1>3. CASE LoginUnlock(p)
  <2> DEFINE r == [[proc[p] EXCEPT !.pc = "persist"] EXCEPT !.pass = "whole"]
  <2>1. proc' = [proc EXCEPT ![p] = r] /\ UNCHANGED <<srv, stale, orphans, faults>>
        /\ proc[p].pc = "lunlock"
    BY <1>3 DEF LoginUnlock, ghosts
  <2>2. r \in Process
    BY <1>0 DEF Process, Pcs
  <2>3. /\ r.pc = "persist" /\ r.uid = proc[p].uid /\ r.gen = proc[p].gen
        /\ r.verb = proc[p].verb /\ r.pass = "whole"
        /\ (r.save <=> proc[p].save) /\ (r.wired <=> proc[p].wired)
    BY <1>0 DEF Process
  <2> HIDE DEF r
  <2>4. Sound(r)
    BY <1>0, <1>1, <2>3 DEF Sound
  <2>5. proc' \in [Proc -> Process] /\ proc'[p] = r
        /\ \A q \in Proc : q # p => proc'[q] = proc[q]
    BY <1>0, <2>1, <2>2
  <2>6. TypeOK'
    BY <1>1, <2>1, <2>5 DEF TokenInv, TypeOK, Process
  <2>7. StepOf(p)
    BY <1>1, <2>1, <2>3, <2>4, <2>5
       DEF StepOf, OnServer, OnSlot, Owes, LoginPcs, WillStore, Storing
  <2> QED
    BY <2>6, <2>7, StepKeeps
<1>4. CASE LoginFails(p)
  <2>1. proc' = Ended(p) /\ AuthDelete(p)
    BY <1>4 DEF LoginFails
  <2>2. TypeOK'
    BY <1>1, <2>1, EndedIs, AuthDeleteIs DEF TokenInv, TypeOK, Process, ServerSession
  <2>3. StepOf(p)
    BY <1>0, <1>1, <2>1, EndedIs, AuthDeleteIs
       DEF StepOf, OnServer, OnSlot, Owes, LoginPcs, WillStore, Storing
  <2> QED
    BY <2>2, <2>3, StepKeeps
<1> QED
  BY <1>2, <1>3, <1>4

LEMMA LogoutKeeps ==
  ASSUME TokenInv, NEW p \in Proc, Revoke(p) \/ Erase(p) \/ Crash(p) PROVE TokenInv'
<1>0. /\ proc \in [Proc -> Process] /\ proc[p] \in Process /\ Sound(proc[p])
      /\ slot \in Blob /\ stale \subseteq Uid /\ orphans \subseteq Uid
      /\ NoUid \notin Uid /\ HoldersAreCurrent
  BY Types, Numbers DEF TokenInv
<1>1. CASE Revoke(p)
  <2> DEFINE r == [proc[p] EXCEPT !.pc = "erase"]
  <2>1. /\ proc' = [proc EXCEPT ![p] = r] /\ UNCHANGED <<slot, acts>> /\ AuthDelete(p)
        /\ proc[p].pc = "revoke" /\ proc[p].uid \in Uid
    BY <1>0, <1>1 DEF Revoke, Goto, Sound
  <2>2. /\ r \in Process /\ r.pc = "erase" /\ r.uid = proc[p].uid /\ r.gen = proc[p].gen
        /\ Sound(r)
    BY <1>0, <2>1 DEF Process, Pcs, Sound
  <2> HIDE DEF r
  <2>3. proc' \in [Proc -> Process] /\ proc'[p] = r
        /\ \A q \in Proc : q # p => proc'[q] = proc[q]
    BY <1>0, <2>1, <2>2
  <2>4. TypeOK'
    BY <2>1, <2>3, AuthDeleteIs DEF TokenInv, TypeOK, Process, ServerSession
  <2>5. StepOf(p)
    BY <2>1, <2>2, <2>3, AuthDeleteIs
       DEF StepOf, OnServer, OnSlot, Owes, LoginPcs, WillStore, Storing
  <2> QED
    BY <2>4, <2>5, StepKeeps
<1>2. CASE Erase(p)
  <2>1. /\ proc' = Ended(p) /\ UNCHANGED <<srv, acts>> /\ proc[p].pc = "erase"
    BY <1>2 DEF Erase
  <2>2. /\ slot' \in Blob /\ stale' = stale /\ orphans \subseteq orphans'
        /\ orphans' \subseteq Uid /\ faults' \in 0 .. MaxFaults /\ OnSlot(p)
    BY <1>0, <1>2, DeletedIs, FaultIs, Types DEF Erase, ghosts, OnSlot, TokenInv
  <2>3. TypeOK'
    BY <2>1, <2>2, EndedIs DEF TokenInv, TypeOK, Process, Blob
  <2>4. proc[p].uid \in Uid => ~Live(proc[p].uid) \/ proc[p].uid \in stale
    BY <1>0, <2>1 DEF HoldersAreCurrent
  <2>5. StepOf(p)
    BY <1>0, <2>1, <2>2, <2>4, EndedIs
       DEF StepOf, OnServer, Owes, LoginPcs, WillStore, Storing, Live
  <2> QED
    BY <2>3, <2>5, StepKeeps
<1>3. CASE Crash(p)
  <2>1. /\ proc' = Ended(p) /\ UNCHANGED <<srv, slot, acts>> /\ faults' \in 0 .. MaxFaults
        /\ stale' = IF proc[p].uid = NoUid THEN stale ELSE stale \cup {proc[p].uid}
        /\ orphans' = IF proc[p].uid = NoUid THEN orphans ELSE orphans \cup {proc[p].uid}
    BY <1>3, FaultIs DEF Crash
  <2>2. /\ stale \subseteq stale' /\ orphans \subseteq orphans'
        /\ stale' \subseteq Uid /\ orphans' \subseteq Uid
        /\ proc[p].uid \in Uid => proc[p].uid \in stale' /\ proc[p].uid \in orphans'
    BY <1>0, <2>1 DEF Process
  <2>3. TypeOK'
    BY <2>1, <2>2, EndedIs DEF TokenInv, TypeOK, Process
  <2>4. Storing(proc[p]) => proc[p].uid \in Uid
    BY <1>0 DEF Sound, Storing, LoginPcs
  <2>5. StepOf(p)
    BY <1>0, <2>1, <2>2, <2>4, EndedIs
       DEF StepOf, OnServer, OnSlot, Owes, LoginPcs
  <2> QED
    BY <2>3, <2>5, StepKeeps
<1> QED
  BY <1>1, <1>2, <1>3

(* What Proton does on its own: an access token runs out, a session ends.  *)
LEMMA ProtonKeeps ==
  ASSUME TokenInv, NEW u \in Uid, Expire(u) \/ EndSession(u) PROVE TokenInv'
<1>0. /\ srv \in [Uid -> ServerSession] /\ slot \in Blob /\ proc \in [Proc -> Process]
      /\ \A q \in Proc : Sound(proc[q])
      /\ SlotSound /\ SessionKnown /\ LoginIsAlone /\ HoldersAreCurrent
      /\ NoneAbandoned /\ StoredPairIsCurrent
      /\ acts \in 0 .. MaxActs /\ MaxActs \in Nat
  BY Types, Numbers DEF TokenInv
<1>1. UNCHANGED <<slot, proc, stale, orphans, faults>> /\ acts' \in 0 .. MaxActs
  BY <1>0 DEF Expire, EndSession, ghosts
<1>2. /\ srv' \in [Uid -> ServerSession]
      /\ \A v \in Uid : /\ srv'[v].gen = srv[v].gen
                        /\ srv'[v].state = "live" => srv[v].state = "live"
                        /\ srv'[v].state = "none" <=> srv[v].state = "none"
                        /\ ~srv'[v].fresh => srv'[v].gen < MaxGen
  <2>1. CASE Expire(u)
    <3> DEFINE t == [srv[u] EXCEPT !.fresh = FALSE]
    <3>1. srv' = [srv EXCEPT ![u] = t] /\ srv[u].gen < MaxGen
      BY <2>1 DEF Expire
    <3>2. t \in ServerSession /\ t.gen = srv[u].gen /\ t.state = srv[u].state
      BY <1>0 DEF ServerSession
    <3> HIDE DEF t
    <3> QED
      BY <1>0, <3>1, <3>2 DEF SessionKnown
  <2>2. CASE EndSession(u)
    <3> DEFINE t == [srv[u] EXCEPT !.state = "ended"]
    <3>1. srv' = [srv EXCEPT ![u] = t] /\ srv[u].state = "live"
      BY <2>2 DEF EndSession, Live
    <3>2. t \in ServerSession /\ t.gen = srv[u].gen /\ t.state = "ended"
          /\ (t.fresh <=> srv[u].fresh)
      BY <1>0 DEF ServerSession
    <3> HIDE DEF t
    <3> QED
      BY <1>0, <3>1, <3>2 DEF SessionKnown
  <2> QED
    BY <2>1, <2>2
<1>3. TypeOK'
  BY <1>1, <1>2 DEF TokenInv, TypeOK, ServerSession
<1>4. SlotSound' /\ \A q \in Proc : Sound(proc'[q])
  BY <1>0, <1>1 DEF SlotSound
<1>5. SessionKnown'
  BY <1>0, <1>1, <1>2 DEF SessionKnown
<1>6. LoginIsAlone' /\ HoldersAreCurrent'
  BY <1>0, <1>1, <1>2 DEF LoginIsAlone, HoldersAreCurrent, Live
<1>7. NoneAbandoned' /\ StoredPairIsCurrent'
  BY <1>0, <1>1, <1>2 DEF NoneAbandoned, StoredPairIsCurrent, WillStore, Live
<1> QED
  BY <1>3, <1>4, <1>5, <1>6, <1>7 DEF TokenInv

----------------------------------------------------------------------------
LEMMA TokenInvariant == Spec => []TokenInv
<1>1. Init => TokenInv
  BY TokenInit
<1>2. TokenInv /\ [Next]_vars => TokenInv'
  <2> SUFFICES ASSUME TokenInv, [Next]_vars PROVE TokenInv'
    OBVIOUS
  <2>1. CASE AcquireResumeOnly \/ AcquireSession \/ RunLogin \/ RunLogout
    BY <2>1, BeginKeeps
  <2>2. ASSUME NEW u \in Uid, Expire(u) \/ EndSession(u) PROVE TokenInv'
    BY <2>2, ProtonKeeps
  <2>3. ASSUME NEW p \in Proc, Step(p) PROVE TokenInv'
    <3>1. CASE ResumeStep(p)
      BY <3>1, LoadKeeps, ResumeFailsKeeps, CallKeeps, UnlockKeysKeeps, PersistKeeps
         DEF ResumeStep
    <3>2. CASE LiveStep(p)
      BY <3>2, CallKeeps, AuthUpdateKeeps, CloseKeeps DEF LiveStep
    <3>3. CASE LoginStep(p)
      BY <3>3, DropKeeps, SrpKeeps, CallKeeps, LoginKeeps, PersistKeeps DEF LoginStep
    <3>4. CASE LogoutStep(p) \/ Crash(p)
      BY <3>4, LogoutKeeps DEF LogoutStep
    <3> QED
      BY <2>3, <3>1, <3>2, <3>3, <3>4 DEF Step
  <2>4. CASE UNCHANGED vars
    BY <2>4 DEF vars, ghosts, TokenInv, TypeOK, SlotSound, SessionKnown, LoginIsAlone,
                HoldersAreCurrent, NoneAbandoned, StoredPairIsCurrent, WillStore, Live
  <2> QED
    BY <2>1, <2>2, <2>3, <2>4 DEF Next
<1> QED
  BY <1>1, <1>2, PTL DEF Spec

(* The types, and with them that a session is refreshed only within its    *)
(* bound: AuthHandler (client.go) never counts past the pairs there are.   *)
THEOREM TokenTypes == Spec => []TypeOK
<1>1. TokenInv => TypeOK
  BY DEF TokenInv
<1> QED
  BY <1>1, TokenInvariant, PTL

(* keystore.Save behind Persist, OnAuthUpdate and the login (#123, D16):   *)
(* whatever Close zeroes meanwhile, the item holds a pass that opens the   *)
(* keys.                                                                   *)
THEOREM StoredPassStaysWhole == Spec => []StoredPassIsWhole
<1>1. TokenInv => StoredPassIsWhole
  BY DEF TokenInv, SlotSound, StoredPassIsWhole
<1> QED
  BY <1>1, TokenInvariant, PTL

(* WireKeystoreSync and TryResume's Persist: the stored refresh token is   *)
(* Proton's latest, or its holder is about to store it, unless a mishap    *)
(* that the model puts on record came between.                             *)
THEOREM StoredPairStaysCurrent == Spec => []StoredPairIsCurrent
<1>1. TokenInv => StoredPairIsCurrent
  BY DEF TokenInv
<1> QED
  BY <1>1, TokenInvariant, PTL

(* H-3, login.go's revoke on every failure, CloseAndRevoke and the item's  *)
(* own replacement: a live session has somebody who can use it.            *)
THEOREM NoSessionIsAbandoned == Spec => []AbandonedIsRevoked
<1>1. TokenInv => AbandonedIsRevoked
  BY DEF TokenInv, NoneAbandoned, AbandonedIsRevoked
<1> QED
  BY <1>1, TokenInvariant, PTL
=============================================================================
