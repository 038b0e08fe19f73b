------------------------- MODULE DaemonProcessProofs -------------------------
(***************************************************************************)
(* Proofs about DaemonProcess, for any number of processes, commands and   *)
(* faults: the types, who answers at the socket path, when doctor prints   *)
(* LOCKED, and what launchd may start again by itself.                     *)
(***************************************************************************)
EXTENDS DaemonProcess, TLAPS, WellFoundedInduction

Process == [kind : {"daemon", "stdio"}, pc : Pcs, term : BOOLEAN,
            locked : BOOLEAN, sig : BOOLEAN, code : {0, 1}]
Job == [plist : BOOLEAN, label : {"no", "yes", "leaving"},
        pid : Pid \cup {NoPid}, due : {"no", "respawn", "start"}]

ProcTyped == proc \in [Pid -> Process]
FilesTyped ==
    sock \in Named /\ pidFile \in Named /\ lockRec \in [pid : Named, locked : BOOLEAN]
RestTyped ==
    /\ cred \in {"none", "good", "dead"} /\ disk \in Binary
    /\ recHash \in Binary \cup {"none"}
    /\ cli \in [pc : {"idle", "record", "bootstrap", "kick", "signal"}, todo : SUBSET Pid]
    /\ intent \in {"none", "up", "stopped", "hopeless"}
    /\ owed \in SUBSET Pid
    /\ acts \in 0 .. MaxActs /\ faults \in 0 .. MaxFaults

LEMMA TypeParts == TypeOK <=> ProcTyped /\ job \in Job /\ FilesTyped /\ RestTyped
  BY DEF TypeOK, ProcTyped, FilesTyped, RestTyped, Process, Job

LEMMA Pids == /\ NoPid \notin Pid /\ Stale \notin Pid /\ NoPid # Stale
              /\ Pid \subseteq Named /\ NoPid \in Named /\ Stale \in Named
  BY ConstantsAssumption DEF Pid, NoPid, Stale, Named

LEMMA LeastExists ==
  ASSUME NEW S, S \subseteq Pid, S # {}
  PROVE  \E q \in S : \A r \in S : q <= r
<1>1. S \subseteq Nat
  BY DEF Pid
<1>2. PICK q \in S : \A r \in S : ~(<<r, q>> \in OpToRel(<, Nat))
  BY <1>1, NatLessThanWellFounded, WFMin, Zenon
<1>3. \A r \in S : ~(r < q)
  BY <1>1, <1>2 DEF OpToRel
<1> QED
  BY <1>1, <1>3

(* ---------------- what the helpers of the actions do -------------------- *)

(* p now has these values, and no other process has changed.               *)
Becomes(p, kind, pc, locked, code) ==
    /\ ProcTyped'
    /\ proc'[p].kind = kind /\ proc'[p].pc = pc
    /\ proc'[p].locked = locked /\ proc'[p].code = code
    /\ \A q \in Pid : q # p => proc'[q] = proc[q]

LEMMA BecomesIs ==
  ASSUME ProcTyped, NEW p \in Pid, NEW r \in Process, proc' = [proc EXCEPT ![p] = r]
  PROVE  Becomes(p, r.kind, r.pc, r.locked, r.code)
<1>1. proc' \in [Pid -> Process] /\ proc'[p] = r /\ \A q \in Pid : q # p => proc'[q] = proc[q]
  BY DEF ProcTyped
<1> QED
  BY <1>1 DEF Becomes, ProcTyped

LEMMA FieldsOf ==
  ASSUME ProcTyped, NEW p \in Pid
  PROVE  /\ proc[p].kind \in {"daemon", "stdio"} /\ proc[p].pc \in Pcs
         /\ proc[p].locked \in BOOLEAN /\ proc[p].code \in {0, 1}
  BY DEF ProcTyped, Process

LEMMA GotoIs ==
  ASSUME ProcTyped, NEW p \in Pid, NEW pc \in Pcs, Goto(p, pc)
  PROVE  Becomes(p, proc[p].kind, pc, proc[p].locked, proc[p].code)
<1>1. proc[p] \in Process
  BY DEF ProcTyped
<1>2. PICK r : r = [proc[p] EXCEPT !.pc = pc]
  OBVIOUS
<1>3. proc' = [proc EXCEPT ![p] = r]
  BY <1>2 DEF Goto
<1>4. r \in Process /\ r.kind = proc[p].kind /\ r.pc = pc /\ r.locked = proc[p].locked /\ r.code = proc[p].code
  BY <1>1, <1>2 DEF Process
<1> QED
  BY <1>3, <1>4, BecomesIs

LEMMA ShutdownIs ==
  ASSUME ProcTyped, NEW p \in Pid, NEW pc \in Pcs, NEW code \in {0, 1}, Shutdown(p, pc, code)
  PROVE  Becomes(p, proc[p].kind, pc, proc[p].locked, code)
<1>1. proc[p] \in Process
  BY DEF ProcTyped
<1>2. PICK r : r = [proc[p] EXCEPT !.pc = pc, !.code = code]
  OBVIOUS
<1>3. proc' = [proc EXCEPT ![p] = r]
  BY <1>1, <1>2 DEF Shutdown, ProcTyped
<1>4. r \in Process /\ r.kind = proc[p].kind /\ r.pc = pc /\ r.locked = proc[p].locked /\ r.code = code
  BY <1>1, <1>2 DEF Process
<1> QED
  BY <1>3, <1>4, BecomesIs

LEMMA StartIs ==
  ASSUME ProcTyped, NEW p \in Pid, NEW kind \in {"daemon", "stdio"}, Start(kind, p)
  PROVE  Becomes(p, kind, IF kind = "daemon" THEN "boot" ELSE "stored", FALSE, 0)
<1>1. PICK pc \in Pcs : pc = IF kind = "daemon" THEN "boot" ELSE "stored"
  BY DEF Pcs
<1>2. PICK r : r = [Gone EXCEPT !.kind = kind, !.pc = pc]
  OBVIOUS
<1>3. proc' = [proc EXCEPT ![p] = r]
  BY <1>1, <1>2 DEF Start
<1>4. r \in Process /\ r.kind = kind /\ r.pc = pc /\ r.locked = FALSE /\ r.code = 0
  <2>1. Gone \in Process /\ Gone.locked = FALSE /\ Gone.code = 0
    BY DEF Gone, Process, Pcs
  <2> QED
    BY <1>2, <2>1 DEF Process
<1> QED
  BY <1>1, <1>3, <1>4, BecomesIs

LEMMA CancelledIs ==
  ASSUME ProcTyped, NEW p \in Pid, proc' = Cancelled(p)
  PROVE  Becomes(p, proc[p].kind, proc[p].pc, proc[p].locked, proc[p].code)
<1>1. proc[p] \in Process
  BY DEF ProcTyped
<1>2. PICK r : r = [proc[p] EXCEPT !.term = TRUE]
  OBVIOUS
<1>3. proc' = [proc EXCEPT ![p] = r]
  BY <1>2 DEF Cancelled
<1>4. r \in Process /\ r.kind = proc[p].kind /\ r.pc = proc[p].pc /\ r.locked = proc[p].locked
      /\ r.code = proc[p].code
  BY <1>1, <1>2 DEF Process
<1> QED
  BY <1>3, <1>4, BecomesIs

(* A signal that came, or was handled.                                     *)
LEMMA SignalIs ==
  ASSUME ProcTyped, NEW p \in Pid, NEW b \in BOOLEAN, proc' = [proc EXCEPT ![p].sig = b]
  PROVE  Becomes(p, proc[p].kind, proc[p].pc, proc[p].locked, proc[p].code)
<1>1. proc[p] \in Process
  BY DEF ProcTyped
<1>2. PICK r : r = [proc[p] EXCEPT !.sig = b]
  OBVIOUS
<1>3. proc' = [proc EXCEPT ![p] = r]
  BY <1>2
<1>4. r \in Process /\ r.kind = proc[p].kind /\ r.pc = proc[p].pc /\ r.locked = proc[p].locked
      /\ r.code = proc[p].code
  BY <1>1, <1>2 DEF Process
<1> QED
  BY <1>3, <1>4, BecomesIs

LEMMA GoneIs ==
  ASSUME ProcTyped, NEW p \in Pid, proc' = [proc EXCEPT ![p] = Gone]
  PROVE  Becomes(p, "daemon", "gone", FALSE, 0)
<1>1. /\ Gone \in Process /\ Gone.kind = "daemon" /\ Gone.pc = "gone" /\ Gone.locked = FALSE
      /\ Gone.code = 0
  BY DEF Gone, Process, Pcs
<1> QED
  BY <1>1, BecomesIs

LEMMA SetLockIs ==
  ASSUME ProcTyped, NEW p \in Pid, NEW b \in BOOLEAN, SetLock(p, b)
  PROVE  Becomes(p, proc[p].kind, proc[p].pc, b, proc[p].code)
<1>1. proc[p] \in Process
  BY DEF ProcTyped
<1>2. PICK r : r = [proc[p] EXCEPT !.locked = b, !.sig = FALSE]
  OBVIOUS
<1>3. proc' = [proc EXCEPT ![p] = r]
  BY <1>1, <1>2 DEF SetLock, ProcTyped
<1>4. r \in Process /\ r.kind = proc[p].kind /\ r.pc = proc[p].pc /\ r.locked = b /\ r.code = proc[p].code
  BY <1>1, <1>2 DEF Process
<1> QED
  BY <1>3, <1>4, BecomesIs

(* What is left of a process that has gone.                                *)
LEMMA OrphansIs ==
  ASSUME FilesTyped, NEW p \in Pid, Orphans(p)
  PROVE  /\ FilesTyped'
         /\ sock # p => sock' = sock
         /\ lockRec.pid # p => lockRec'.pid = lockRec.pid
         /\ lockRec.pid = p => lockRec'.pid \notin Pid
         /\ lockRec'.locked <=> lockRec.locked
<1>1. lockRec' = [pid |-> Left(lockRec.pid, p), locked |-> lockRec.locked]
  BY DEF Orphans, FilesTyped
<1>2. \A q \in Named : Left(q, p) \in Named
  BY Pids DEF Left
<1>3. lockRec.pid \in Named /\ lockRec.locked \in BOOLEAN
  BY DEF FilesTyped
<1>4. lockRec' \in [pid : Named, locked : BOOLEAN]
  BY <1>1, <1>2, <1>3
<1>5. sock' \in Named /\ pidFile' \in Named
  BY <1>2 DEF Orphans, FilesTyped
<1> QED
  BY <1>1, <1>4, <1>5, Pids DEF Orphans, FilesTyped, Left

(* launchd's entry after an exit.                                          *)
JobAfter(p, code) ==
    /\ job' \in Job
    /\ job.pid # p => job' = job
    /\ job.pid = p => job'.pid = NoPid /\ (code = 0 /\ job.due = "no" => job'.due = "no")

LEMMA AfterExitIs ==
  ASSUME job \in Job, NEW p \in Pid, NEW code \in {0, 1}, job' = AfterExit(p, code)
  PROVE  JobAfter(p, code)
<1>1. CASE job.pid # p
  BY <1>1 DEF AfterExit, JobAfter
<1>2. CASE job.pid = p
  <2>1. job' = [plist |-> job.plist, label |-> IF job.label = "leaving" THEN "no" ELSE job.label,
                pid |-> NoPid,
                due |-> IF job.label = "leaving" THEN "no"
                        ELSE IF code # 0 /\ job.due = "no" THEN "respawn" ELSE job.due]
    BY <1>2 DEF AfterExit, Job
  <2>2. job.plist \in BOOLEAN /\ job.label \in {"no", "yes", "leaving"}
        /\ job.due \in {"no", "respawn", "start"}
    BY DEF Job
  <2>3. PICK l \in {"no", "yes", "leaving"} :
          l = IF job.label = "leaving" THEN "no" ELSE job.label
    BY <2>2
  <2>4. PICK d \in {"no", "respawn", "start"} :
          d = IF job.label = "leaving" THEN "no"
              ELSE IF code # 0 /\ job.due = "no" THEN "respawn" ELSE job.due
    BY <2>2
  <2>5. job' = [plist |-> job.plist, label |-> l, pid |-> NoPid, due |-> d]
    BY <2>1, <2>3, <2>4
  <2>6. job' \in Job /\ job'.pid = NoPid /\ job'.due = d
    BY <2>2, <2>5 DEF Job
  <2> QED
    BY <1>2, <2>4, <2>6 DEF JobAfter
<1> QED
  BY <1>1, <1>2

LEMMA ExitIs ==
  ASSUME TypeOK, NEW p \in Pid, NEW code \in {0, 1}, Exit(p, code)
  PROVE  Becomes(p, "daemon", "gone", FALSE, 0) /\ JobAfter(p, code) /\ owed' \in SUBSET Pid
<1>1. ProcTyped /\ job \in Job /\ owed \in SUBSET Pid
  BY TypeParts DEF RestTyped
<1> QED
  BY <1>1, GoneIs, AfterExitIs DEF Exit

----------------------------------------------------------------------------
(* The inductive invariant. *)

(* launchd's instance is the only daemon, and only a daemon passes through *)
(* the steps that touch the socket.                                        *)
OneDaemon == \A p \in Pid : (Alive(p) /\ proc[p].kind = "daemon") <=> job.pid = p
DaemonPcs ==
    \A p \in Pid : proc[p].pc \in {"boot", "probe", "bind", "unlink"} => proc[p].kind = "daemon"

(* A status other than 0 is decided on the way out.                        *)
Codes == \A p \in Pid : proc[p].pc \notin {"unlink", "unpid", "unrec"} => proc[p].code = 0

Reachable == \A p \in Pid : Listening(p) => sock = p

(* A record of a live process is that of its lock.                         *)
RecordOfLive ==
    lockRec.pid \in Pid =>
        Handles(lockRec.pid) /\ (lockRec.locked => proc[lockRec.pid].locked)

Hopeless == intent = "hopeless" => job.pid = NoPid /\ job.due = "no"
Leaves(p) == proc[p].pc \in {"ready", "unlink", "unpid", "unrec"} /\ proc[p].code = 0
Stopped == intent = "stopped" => job.due = "no" /\ \A p \in Pid : job.pid = p => Leaves(p)

ProcInv ==
    OneDaemon /\ DaemonPcs /\ Codes /\ Reachable /\ RecordOfLive /\ Hopeless /\ Stopped

(* A process that goes.                                                    *)
LEMMA Goes ==
  ASSUME TypeOK, ProcInv, NEW p \in Pid, Becomes(p, "daemon", "gone", FALSE, 0),
         job'.pid = IF job.pid = p THEN NoPid ELSE job.pid,
         sock # p => sock' = sock,
         lockRec'.pid \in Pid => /\ lockRec'.pid = lockRec.pid /\ lockRec.pid # p
                                 /\ lockRec'.locked <=> lockRec.locked,
         intent' = "hopeless" => \/ intent = "hopeless" /\ job' = job
                                 \/ job'.pid = NoPid /\ job'.due = "no",
         intent' = "stopped" => intent = "stopped" /\ job'.due = "no"
  PROVE  ProcInv'
<1>0. /\ proc'[p].pc = "gone" /\ proc'[p].code = 0
      /\ \A q \in Pid : q # p => proc'[q] = proc[q]
  BY DEF Becomes
<1>1. OneDaemon'
  BY <1>0, Pids DEF ProcInv, OneDaemon, Alive
<1>2. DaemonPcs' /\ Codes'
  BY <1>0 DEF ProcInv, DaemonPcs, Codes
<1>3. Reachable'
  BY <1>0 DEF ProcInv, Reachable, Listening
<1>4. RecordOfLive'
  BY <1>0 DEF ProcInv, RecordOfLive, Handles
<1>5. Hopeless' /\ Stopped'
  BY <1>0, Pids DEF ProcInv, Hopeless, Stopped, Leaves
<1> QED
  BY <1>1, <1>2, <1>3, <1>4, <1>5 DEF ProcInv

(* A process that lives on.                                                *)
LEMMA Moves ==
  ASSUME TypeOK, ProcInv, NEW p \in Pid, Alive(p),
         NEW pc \in Pcs, pc # "gone", NEW locked \in BOOLEAN, NEW code \in {0, 1},
         Becomes(p, proc[p].kind, pc, locked, code), job'.pid = job.pid,
         pc \in {"boot", "probe", "bind", "unlink"} => proc[p].kind = "daemon",
         pc \notin {"unlink", "unpid", "unrec"} => code = 0,
         pc = "ready" /\ proc[p].kind = "daemon" => sock' = p,
         sock' = sock \/ proc[p].kind = "daemon",
         \/ /\ lockRec' = lockRec /\ (lockRec.pid = p => Handles(p)')
            /\ lockRec.pid = p /\ lockRec.locked => locked
         \/ lockRec'.pid = p /\ Handles(p)' /\ (lockRec'.locked => locked),
         \/ intent' \notin {"hopeless", "stopped"}
         \/ /\ intent' = intent /\ job' = job
            /\ intent = "stopped" /\ job.pid = p =>
                  pc \in {"ready", "unlink", "unpid", "unrec"} /\ code = 0
         \/ /\ intent' = "stopped" /\ job'.due = "no" /\ job.pid = p
            /\ pc \in {"ready", "unlink", "unpid", "unrec"} /\ code = 0
  PROVE  ProcInv'
<1>0. /\ proc'[p].pc = pc /\ proc'[p].kind = proc[p].kind /\ proc'[p].code = code
      /\ proc'[p].locked = locked
      /\ \A q \in Pid : q # p => proc'[q] = proc[q]
  BY DEF Becomes
<1>1. OneDaemon'
  BY <1>0 DEF ProcInv, OneDaemon, Alive
<1>2. DaemonPcs' /\ Codes'
  BY <1>0 DEF ProcInv, DaemonPcs, Codes
<1>3. Reachable'
  <2>1. \A q \in Pid : q # p /\ Listening(q) => sock' = q
    <3> SUFFICES ASSUME NEW q \in Pid, q # p, Listening(q) PROVE sock' = q
      OBVIOUS
    <3>1. sock = q
      BY DEF ProcInv, Reachable
    <3>2. proc[p].kind # "daemon"
      BY DEF ProcInv, OneDaemon, Listening, Alive
    <3> QED
      BY <3>1, <3>2
  <2> QED
    BY <1>0, <2>1 DEF Reachable, Listening
<1>4. RecordOfLive'
  BY <1>0 DEF ProcInv, RecordOfLive, Handles
<1>5. Hopeless' /\ Stopped'
  BY <1>0, Pids DEF ProcInv, Hopeless, Stopped, Leaves
<1> QED
  BY <1>1, <1>2, <1>3, <1>4, <1>5 DEF ProcInv

(* A step that leaves every process as it was.                             *)
LEMMA Rests ==
  ASSUME ProcInv, UNCHANGED <<proc, sock, lockRec>>, job'.pid = job.pid,
         \/ intent' = intent /\ job' = job
         \/ intent' \notin {"hopeless", "stopped"}
  PROVE  ProcInv'
<1>1. OneDaemon' /\ DaemonPcs' /\ Codes' /\ Reachable' /\ RecordOfLive'
  BY DEF ProcInv, OneDaemon, DaemonPcs, Codes, Reachable, RecordOfLive, Alive, Listening, Handles
<1>2. Hopeless' /\ Stopped'
  BY DEF ProcInv, Hopeless, Stopped, Leaves
<1> QED
  BY <1>1, <1>2 DEF ProcInv

(* A process that starts where there was none.                             *)
LEMMA Starts ==
  ASSUME TypeOK, ProcInv, NEW p \in Pid, ~Alive(p), NEW kind \in {"daemon", "stdio"},
         Becomes(p, kind, IF kind = "daemon" THEN "boot" ELSE "stored", FALSE, 0),
         UNCHANGED <<sock, lockRec, intent>>,
         kind = "stdio" => job' = job,
         kind = "daemon" => job.pid = NoPid /\ job.due # "no" /\ job'.pid = p
  PROVE  ProcInv'
<1>0. /\ proc'[p].pc = IF kind = "daemon" THEN "boot" ELSE "stored"
      /\ proc'[p].kind = kind /\ proc'[p].code = 0
      /\ \A q \in Pid : q # p => proc'[q] = proc[q]
  BY DEF Becomes
<1>1. OneDaemon'
  BY <1>0, Pids DEF ProcInv, OneDaemon, Alive
<1>2. DaemonPcs' /\ Codes'
  BY <1>0 DEF ProcInv, DaemonPcs, Codes
<1>3. Reachable'
  BY <1>0 DEF ProcInv, Reachable, Listening
<1>4. RecordOfLive'
  BY <1>0 DEF ProcInv, RecordOfLive, Handles, Alive
<1>5. Hopeless' /\ Stopped'
  BY <1>0, Pids DEF ProcInv, Hopeless, Stopped, Leaves, OneDaemon, Alive
<1> QED
  BY <1>1, <1>2, <1>3, <1>4, <1>5 DEF ProcInv

(* A process that launchd tells to stop: it is gone, or its context is     *)
(* cancelled.                                                              *)
LEMMA KickstartIs ==
  ASSUME TypeOK, Kickstart
  PROVE  /\ ProcTyped' /\ job' \in Job /\ FilesTyped' /\ owed' \in SUBSET Pid
         /\ intent' = "up"
         /\ \/ UNCHANGED <<proc, sock, lockRec>> /\ job'.pid = job.pid
            \/ /\ job.pid \in Pid /\ job'.pid = NoPid /\ Orphans(job.pid)
               /\ Becomes(job.pid, "daemon", "gone", FALSE, 0)
            \/ /\ job.pid \in Pid /\ job'.pid = job.pid /\ UNCHANGED <<sock, lockRec>>
               /\ proc' = Cancelled(job.pid)
<1>0. ProcTyped /\ job \in Job /\ FilesTyped /\ owed \in SUBSET Pid /\ intent' = "up"
  BY TypeParts DEF RestTyped, Kickstart
<1>1. [job EXCEPT !.due = "start"] \in Job /\ [job EXCEPT !.due = "start"].pid = job.pid
  BY <1>0 DEF Job
<1>2. CASE job.pid = NoPid
  <2>1. job' = [job EXCEPT !.due = "start"] /\ UNCHANGED <<proc, files, owed>>
    BY <1>2 DEF Kickstart
  <2> QED
    BY <1>0, <1>1, <2>1 DEF files, ProcTyped, FilesTyped
<1>3. CASE job.pid # NoPid
  <2>0. job.pid \in Pid
    BY <1>0, <1>3 DEF Job
  <2>1. CASE /\ proc' = [proc EXCEPT ![job.pid] = Gone]
             /\ job' = [[job EXCEPT !.due = "start"] EXCEPT !.pid = NoPid]
             /\ owed' = owed \ {job.pid} /\ Orphans(job.pid)
    <3>1. job' \in Job /\ job'.pid = NoPid
      BY <1>0, <2>1 DEF Job
    <3>2. Becomes(job.pid, "daemon", "gone", FALSE, 0) /\ FilesTyped'
      BY <1>0, <2>0, <2>1, GoneIs, OrphansIs
    <3> QED
      BY <1>0, <2>0, <2>1, <3>1, <3>2 DEF Becomes
  <2>2. CASE /\ proc' = Cancelled(job.pid) /\ job' = [job EXCEPT !.due = "start"]
             /\ UNCHANGED <<files, owed>>
    <3>1. ProcTyped'
      BY <1>0, <2>0, <2>2, CancelledIs DEF Becomes
    <3> QED
      BY <1>0, <1>1, <2>0, <2>2, <3>1 DEF files, FilesTyped
  <2> QED
    BY <1>3, <2>1, <2>2 DEF Kickstart
<1> QED
  BY <1>2, <1>3

LEMMA BootoutIs ==
  ASSUME TypeOK, NEW plist \in BOOLEAN, Bootout(plist)
  PROVE  /\ ProcTyped' /\ job' \in Job /\ FilesTyped' /\ owed' \in SUBSET Pid
         /\ \/ UNCHANGED <<proc, sock, lockRec>> /\ job'.pid = job.pid
            \/ /\ job.pid \in Pid /\ job'.pid = NoPid /\ Orphans(job.pid)
               /\ Becomes(job.pid, "daemon", "gone", FALSE, 0)
            \/ /\ job.pid \in Pid /\ job'.pid = job.pid /\ UNCHANGED <<sock, lockRec>>
               /\ proc' = Cancelled(job.pid)
<1>0. ProcTyped /\ job \in Job /\ FilesTyped /\ owed \in SUBSET Pid
  BY TypeParts DEF RestTyped
<1> DEFINE j == [job EXCEPT !.plist = plist, !.due = "no"]
<1>1. /\ j \in Job /\ j.pid = job.pid /\ j.label = job.label
      /\ [j EXCEPT !.label = "leaving"] \in Job /\ [j EXCEPT !.label = "leaving"].pid = job.pid
      /\ [j EXCEPT !.label = "no"] \in Job /\ [j EXCEPT !.label = "no"].pid = job.pid
      /\ [j EXCEPT !.label = j.label] \in Job /\ [j EXCEPT !.label = j.label].pid = job.pid
      /\ [j EXCEPT !.label = "no", !.pid = NoPid] \in Job
      /\ [j EXCEPT !.label = "no", !.pid = NoPid].pid = NoPid
  BY <1>0 DEF Job
<1>2. CASE job.label # "yes" \/ job.pid = NoPid
  <2>1. /\ job' = [j EXCEPT !.label = IF j.label = "yes" THEN "no" ELSE j.label]
        /\ UNCHANGED <<proc, files, owed>>
    BY <1>2 DEF Bootout
  <2>2. job' \in Job /\ job'.pid = job.pid
    BY <1>0, <2>1 DEF Job
  <2> QED
    BY <1>0, <2>1, <2>2 DEF files, ProcTyped, FilesTyped
<1>3. CASE ~(job.label # "yes" \/ job.pid = NoPid)
  <2>0. job.pid \in Pid
    BY <1>0, <1>3 DEF Job
  <2>1. CASE DiesOfTerm(job.pid)
    <3>1. /\ job' = [j EXCEPT !.label = "no", !.pid = NoPid]
          /\ proc' = [proc EXCEPT ![job.pid] = Gone]
          /\ owed' = owed \ {job.pid} /\ Orphans(job.pid)
      BY <1>3, <2>1 DEF Bootout
    <3>2. Becomes(job.pid, "daemon", "gone", FALSE, 0) /\ FilesTyped'
      BY <1>0, <2>0, <3>1, GoneIs, OrphansIs
    <3> QED
      BY <1>0, <1>1, <2>0, <3>1, <3>2 DEF Becomes
  <2>2. CASE ~DiesOfTerm(job.pid)
    <3>1. /\ job' = [j EXCEPT !.label = "leaving"]
          /\ proc' = Cancelled(job.pid) /\ UNCHANGED <<files, owed>>
      BY <1>3, <2>2 DEF Bootout
    <3>2. ProcTyped'
      BY <1>0, <2>0, <3>1, CancelledIs DEF Becomes
    <3> QED
      BY <1>0, <1>1, <2>0, <3>1, <3>2 DEF files, FilesTyped
  <2> QED
    BY <2>1, <2>2
<1> QED
  BY <1>2, <1>3

LEMMA ToldToStop ==
  ASSUME TypeOK, ProcInv, intent' \notin {"hopeless", "stopped"},
         \/ UNCHANGED <<proc, sock, lockRec>> /\ job'.pid = job.pid
         \/ /\ job.pid \in Pid /\ job'.pid = NoPid /\ Orphans(job.pid)
            /\ Becomes(job.pid, "daemon", "gone", FALSE, 0)
         \/ /\ job.pid \in Pid /\ job'.pid = job.pid /\ UNCHANGED <<sock, lockRec>>
            /\ proc' = Cancelled(job.pid)
  PROVE  ProcInv'
<1>0. ProcTyped /\ FilesTyped
  BY TypeParts
<1>1. CASE UNCHANGED <<proc, sock, lockRec>> /\ job'.pid = job.pid
  BY <1>1, Rests
<1>2. CASE /\ job.pid \in Pid /\ job'.pid = NoPid /\ Orphans(job.pid)
           /\ Becomes(job.pid, "daemon", "gone", FALSE, 0)
  <2>1. /\ sock # job.pid => sock' = sock
        /\ lockRec'.pid \in Pid => /\ lockRec'.pid = lockRec.pid /\ lockRec.pid # job.pid
                                   /\ lockRec'.locked <=> lockRec.locked
    BY <1>0, <1>2, OrphansIs
  <2> QED
    BY <1>2, <2>1, Goes
<1>3. CASE /\ job.pid \in Pid /\ job'.pid = job.pid /\ UNCHANGED <<sock, lockRec>>
           /\ proc' = Cancelled(job.pid)
  <2> DEFINE p == job.pid
  <2>1. /\ Becomes(p, proc[p].kind, proc[p].pc, proc[p].locked, proc[p].code)
        /\ Alive(p) /\ proc[p].kind = "daemon" /\ proc[p].pc \in Pcs /\ proc[p].pc # "gone"
        /\ proc[p].locked \in BOOLEAN /\ proc[p].code \in {0, 1}
    BY <1>0, <1>3, CancelledIs, FieldsOf DEF ProcInv, OneDaemon, Alive
  <2>2. /\ proc[p].pc \notin {"unlink", "unpid", "unrec"} => proc[p].code = 0
        /\ proc[p].pc = "ready" => sock' = p
        /\ lockRec.pid = p => Handles(p)'
        /\ lockRec.pid = p /\ lockRec.locked => proc[p].locked
    BY <1>3, <2>1 DEF ProcInv, Codes, Reachable, Listening, RecordOfLive, Handles, Becomes
  <2> QED
    BY <1>3, <2>1, <2>2, Moves
<1> QED
  BY <1>1, <1>2, <1>3

----------------------------------------------------------------------------
(* Every step keeps it. *)

Inv == TypeOK /\ ProcInv
Intents == {"none", "up", "stopped", "hopeless"}

LEMMA TypesFrom ==
  ASSUME ProcTyped', job' \in Job, FilesTyped', RestTyped' PROVE TypeOK'
  BY DEF TypeOK, ProcTyped, FilesTyped, RestTyped, Process, Job

LEMMA RestFrom ==
  ASSUME TypeOK, UNCHANGED <<cred, disk, recHash, cli>>, intent' \in Intents,
         owed' \in SUBSET Pid, acts' \in 0 .. MaxActs, faults' \in 0 .. MaxFaults
  PROVE  RestTyped'
  BY TypeParts DEF RestTyped, Intents

LEMMA InvIs ==
  ASSUME Inv
  PROVE  /\ TypeOK /\ ProcInv /\ ProcTyped /\ job \in Job /\ FilesTyped /\ RestTyped
         /\ owed \in SUBSET Pid /\ acts \in 0 .. MaxActs /\ faults \in 0 .. MaxFaults
         /\ intent \in Intents /\ MaxActs \in Nat /\ MaxFaults \in Nat
  BY TypeParts, ConstantsAssumption DEF Inv, RestTyped, Intents

LEMMA FailsIs ==
  ASSUME Inv, Fails PROVE faults' \in 0 .. MaxFaults
  BY InvIs DEF Fails

(* On to another step of the code.                                         *)
LEMMA GotoKeeps ==
  ASSUME Inv, NEW p \in Pid, Alive(p), NEW pc \in Pcs, pc # "gone",
         UNCHANGED <<job, intent, cli, acts, faults, owed, cred, disk>>,
         FilesTyped', recHash' \in Binary \cup {"none"},
         NEW code \in {0, 1},
         \/ Goto(p, pc) /\ code = proc[p].code
         \/ Shutdown(p, pc, code),
         pc \in {"boot", "probe", "bind", "unlink"} => proc[p].kind = "daemon",
         pc \notin {"unlink", "unpid", "unrec"} => code = 0,
         pc = "ready" /\ proc[p].kind = "daemon" => sock' = p,
         sock' = sock \/ proc[p].kind = "daemon",
         \/ lockRec' = lockRec
         \/ lockRec'.pid = p /\ ~lockRec'.locked /\ pc \in {"probe", "ready"},
         Handles(p) => pc \in {"probe", "bind", "ready", "unlink", "unpid", "unrec"},
         Leaves(p) => pc \in {"ready", "unlink", "unpid", "unrec"} /\ code = 0
  PROVE  Inv'
<1>0. /\ TypeOK /\ ProcInv /\ ProcTyped /\ RestTyped /\ job \in Job
  BY InvIs
<1>1. Becomes(p, proc[p].kind, pc, proc[p].locked, code)
  BY <1>0, GotoIs, ShutdownIs
<1>2. proc'[p].pc = pc /\ ProcTyped' /\ proc[p].locked \in BOOLEAN
  BY <1>0, <1>1, FieldsOf DEF Becomes
<1>3. \/ /\ lockRec' = lockRec /\ (lockRec.pid = p => Handles(p)')
         /\ lockRec.pid = p /\ lockRec.locked => proc[p].locked
      \/ lockRec'.pid = p /\ Handles(p)' /\ (lockRec'.locked => proc[p].locked)
  BY <1>0, <1>2 DEF ProcInv, RecordOfLive, Handles
<1>4. intent = "stopped" /\ job.pid = p => pc \in {"ready", "unlink", "unpid", "unrec"} /\ code = 0
  BY <1>0 DEF ProcInv, Stopped
<1>5. ProcInv'
  BY <1>0, <1>1, <1>2, <1>3, <1>4, Moves
<1>6. RestTyped'
  BY <1>0 DEF RestTyped
<1> QED
  BY <1>0, <1>2, <1>5, <1>6, TypesFrom DEF Inv

(* The end of a process, from a step in which it is not being stopped, or  *)
(* with status 0.                                                          *)
LEMMA ExitKeeps ==
  ASSUME Inv, NEW p \in Pid, Alive(p), NEW code \in {0, 1}, Exit(p, code), FilesTyped',
         sock # p => sock' = sock,
         lockRec'.pid \in Pid => /\ lockRec'.pid = lockRec.pid /\ lockRec.pid # p
                                 /\ lockRec'.locked <=> lockRec.locked,
         UNCHANGED <<cred, disk, recHash, cli, acts>>, faults' \in 0 .. MaxFaults,
         intent' \in Intents,
         intent' = "hopeless" => \/ intent = "hopeless"
                                 \/ job.pid = p /\ job.due = "no" /\ code = 0,
         intent' = "stopped" => intent = "stopped" /\ (job.pid = p => code = 0)
  PROVE  Inv'
<1>0. /\ TypeOK /\ ProcInv /\ ProcTyped /\ FilesTyped /\ job \in Job /\ acts \in 0 .. MaxActs
  BY InvIs
<1>1. Becomes(p, "daemon", "gone", FALSE, 0) /\ JobAfter(p, code) /\ owed' \in SUBSET Pid
  BY <1>0, ExitIs
<1>2. /\ job' \in Job /\ job'.pid = IF job.pid = p THEN NoPid ELSE job.pid
      /\ intent' = "hopeless" => \/ intent = "hopeless" /\ job' = job
                                 \/ job'.pid = NoPid /\ job'.due = "no"
      /\ intent' = "stopped" => intent = "stopped" /\ job'.due = "no"
  BY <1>0, <1>1, Pids DEF JobAfter, ProcInv, Hopeless, Stopped
<1>3. ProcInv'
  BY <1>0, <1>1, <1>2, Goes
<1>4. RestTyped'
  BY <1>0, <1>1, RestFrom
<1> QED
  BY <1>1, <1>2, <1>3, <1>4, TypesFrom DEF Inv, Becomes

LEMMA DiesKeeps ==
  ASSUME Inv, NEW p \in Pid, Alive(p), NEW code \in {0, 1}, Dies(p, code),
         UNCHANGED <<cred, disk, recHash, cli, acts>>, faults' \in 0 .. MaxFaults,
         intent' \in Intents,
         intent' = "hopeless" => \/ intent = "hopeless"
                                 \/ job.pid = p /\ job.due = "no" /\ code = 0,
         intent' = "stopped" => intent = "stopped" /\ (job.pid = p => code = 0)
  PROVE  Inv'
<1>1. /\ FilesTyped' /\ (sock # p => sock' = sock)
      /\ lockRec'.pid \in Pid => /\ lockRec'.pid = lockRec.pid /\ lockRec.pid # p
                                 /\ lockRec'.locked <=> lockRec.locked
  BY InvIs, OrphansIs DEF Dies
<1> QED
  BY <1>1, ExitKeeps DEF Dies

(* A step of the start-up that ends the process with an error: nobody had  *)
(* stopped a daemon that served.                                           *)
LEMMA StartUpDies ==
  ASSUME Inv, NEW p \in Pid, Alive(p), ~Leaves(p), Dies(p, 1),
         UNCHANGED <<cred, disk, recHash, cli, acts, intent>>, faults' \in 0 .. MaxFaults
  PROVE  Inv'
<1>1. intent = "stopped" => job.pid # p
  BY InvIs DEF ProcInv, Stopped
<1>2. intent' \in Intents
  BY InvIs
<1> QED
  BY <1>1, <1>2, DiesKeeps

LEMMA GivesUp ==
  ASSUME Inv, NEW p \in Pid, Alive(p), GiveUp(p),
         UNCHANGED <<cred, disk, recHash, cli, acts, faults>>
  PROVE  Inv'
<1>0. /\ ProcInv /\ faults' \in 0 .. MaxFaults /\ intent \in Intents
  BY InvIs
<1>1. PICK code \in {0, 1} : code = IF proc[p].kind = "daemon" THEN 0 ELSE 1
  OBVIOUS
<1>2. Dies(p, code)
  BY <1>1 DEF GiveUp
<1>3. job.pid = p => code = 0
  BY <1>0, <1>1 DEF ProcInv, OneDaemon
<1>4. intent' = IF job.pid = p /\ job.due = "no" THEN "hopeless" ELSE intent
  BY DEF GiveUp
<1>5. /\ intent' \in Intents
      /\ intent' = "hopeless" => \/ intent = "hopeless"
                                 \/ job.pid = p /\ job.due = "no" /\ code = 0
      /\ intent' = "stopped" => intent = "stopped" /\ (job.pid = p => code = 0)
  BY <1>0, <1>3, <1>4 DEF Intents
<1> QED
  BY <1>0, <1>2, <1>5, DiesKeeps

LEMMA StartUpKeeps ==
  ASSUME Inv, NEW p \in Pid, StartUp(p) PROVE Inv'
<1>0. /\ ProcInv /\ FilesTyped /\ RestTyped /\ p \in Named /\ NoPid \in Named
      /\ proc[p].kind \in {"daemon", "stdio"} /\ proc[p].code \in {0, 1}
      /\ Codes /\ DaemonPcs /\ recHash \in Binary \cup {"none"} /\ disk \in Binary
  BY InvIs, FieldsOf, Pids DEF ProcInv, RestTyped
<1> USE DEF At
<1>1. CASE Boot(p)
  <2>1. CASE Goto(p, "stored")
    <3>1. /\ recHash' \in Binary \cup {"none"} /\ FilesTyped'
          /\ UNCHANGED <<job, intent, cli, acts, faults, owed, cred, disk, sock, lockRec>>
          /\ proc[p].pc = "boot" /\ Alive(p)
      <4>1. CASE GiveUp(p)
        <5>1. proc'[p].pc = "gone" /\ proc'[p].pc = "stored"
          BY <1>1, <2>1, <4>1, InvIs, GotoIs, ExitIs DEF GiveUp, Dies, Becomes, Pcs
        <5> QED
          BY <5>1
      <4> QED
        BY <1>0, <1>1, <4>1 DEF Boot, RewriteExpectedSha256, files, bounds, FilesTyped
    <3> QED
      BY <1>0, <2>1, <3>1, GotoKeeps DEF Pcs, Handles, Leaves, Codes
  <2>2. CASE GiveUp(p) /\ UNCHANGED recHash
    BY <1>1, <2>2, GivesUp DEF Boot, bounds
  <2> QED
    BY <1>1, <2>1, <2>2 DEF Boot
<1>2. CASE CheckStored(p)
  <2>1. CASE cred = "none"
    BY <1>2, <2>1, GivesUp DEF CheckStored, world, bounds
  <2>2. CASE cred # "none"
    <3>1. /\ UNCHANGED <<job, intent, cli, acts, faults, owed, cred, disk, recHash>>
          /\ UNCHANGED <<sock, pidFile, lockRec>>
          /\ Goto(p, "prompt") /\ proc[p].pc = "stored" /\ Alive(p)
      BY <1>2, <2>2 DEF CheckStored, files, world, bounds
    <3> QED
      BY <1>0, <3>1, GotoKeeps DEF Pcs, Handles, Leaves, Codes, FilesTyped
  <2> QED
    BY <2>1, <2>2
<1>3. CASE Resumed(p)
  <2>1. /\ UNCHANGED <<job, intent, cli, acts, faults, owed, cred, disk, recHash>>
        /\ UNCHANGED <<sock, pidFile, lockRec>>
        /\ Goto(p, "files") /\ proc[p].pc = "resume" /\ Alive(p)
    BY <1>3 DEF Resumed, files, world, bounds
  <2> QED
    BY <1>0, <2>1, GotoKeeps DEF Pcs, Handles, Leaves, Codes, FilesTyped
<1>4. CASE ResumeFails(p)
  BY <1>4, GivesUp DEF ResumeFails, world, bounds
<1>5. CASE WritePIDFile(p)
  <2>1. /\ UNCHANGED <<job, intent, cli, acts, faults, owed, cred, disk, recHash>>
        /\ UNCHANGED <<sock, lockRec>> /\ pidFile' = p
        /\ Goto(p, "wire") /\ proc[p].pc = "files" /\ Alive(p)
    BY <1>5 DEF WritePIDFile, world, bounds
  <2> QED
    BY <1>0, <2>1, GotoKeeps DEF Pcs, Handles, Leaves, Codes, FilesTyped
<1>6. CASE Wired(p)
  <2>1. /\ UNCHANGED <<job, intent, cli, acts, faults, owed, cred, disk, recHash>>
        /\ UNCHANGED <<sock, pidFile, lockRec>>
        /\ Goto(p, "publish") /\ proc[p].pc = "wire" /\ Alive(p)
    BY <1>6 DEF Wired, files, world, bounds
  <2> QED
    BY <1>0, <2>1, GotoKeeps DEF Pcs, Handles, Leaves, Codes, FilesTyped
<1>7. CASE PublishStart(p)
  <2>1. /\ UNCHANGED <<job, intent, cli, acts, faults, owed, cred, disk, recHash>>
        /\ UNCHANGED <<sock, pidFile>> /\ lockRec' = [pid |-> p, locked |-> FALSE]
        /\ proc[p].pc = "publish" /\ Alive(p)
    BY <1>7 DEF PublishStart, world, bounds
  <2>2. FilesTyped' /\ lockRec'.pid = p /\ ~lockRec'.locked
    BY <1>0, <2>1 DEF FilesTyped
  <2>3. CASE proc[p].kind = "daemon"
    <3>1. Goto(p, "probe")
      BY <1>7, <2>3 DEF PublishStart
    <3> QED
      BY <1>0, <2>1, <2>2, <2>3, <3>1, GotoKeeps DEF Pcs, Handles, Leaves, Codes
  <2>4. CASE proc[p].kind # "daemon"
    <3>1. Goto(p, "ready")
      BY <1>7, <2>4 DEF PublishStart
    <3> QED
      BY <1>0, <2>1, <2>2, <2>4, <3>1, GotoKeeps DEF Pcs, Handles, Leaves, Codes
  <2> QED
    BY <2>3, <2>4
<1>8. CASE ProbeSocket(p)
  <2>1. /\ UNCHANGED <<job, intent, cli, acts, faults, owed, cred, disk, recHash>>
        /\ UNCHANGED <<pidFile, lockRec>> /\ proc[p].pc = "probe" /\ Alive(p)
        /\ proc[p].kind = "daemon"
        /\ \/ Shutdown(p, "unpid", 1) /\ UNCHANGED sock
           \/ Goto(p, "bind") /\ sock' = NoPid
    BY <1>0, <1>8 DEF ProbeSocket, world, bounds, DaemonPcs
  <2>2. FilesTyped'
    BY <1>0, <2>1 DEF FilesTyped
  <2>3. CASE Shutdown(p, "unpid", 1)
    BY <1>0, <2>1, <2>2, <2>3, GotoKeeps DEF Pcs, Handles, Leaves, Codes
  <2>4. CASE Goto(p, "bind") /\ sock' = NoPid
    BY <1>0, <2>1, <2>2, <2>4, GotoKeeps DEF Pcs, Handles, Leaves, Codes
  <2> QED
    BY <2>1, <2>3, <2>4
<1>9. CASE BindSocket(p)
  <2>1. /\ UNCHANGED <<job, intent, cli, acts, faults, owed, cred, disk, recHash>>
        /\ UNCHANGED <<pidFile, lockRec>> /\ proc[p].pc = "bind" /\ Alive(p)
        /\ proc[p].kind = "daemon"
        /\ \/ Shutdown(p, "unpid", 1) /\ UNCHANGED sock
           \/ Goto(p, "ready") /\ sock' = p
    BY <1>0, <1>9 DEF BindSocket, world, bounds, DaemonPcs
  <2>2. FilesTyped'
    BY <1>0, <2>1 DEF FilesTyped
  <2>3. CASE Shutdown(p, "unpid", 1)
    BY <1>0, <2>1, <2>2, <2>3, GotoKeeps DEF Pcs, Handles, Leaves, Codes
  <2>4. CASE Goto(p, "ready") /\ sock' = p
    BY <1>0, <2>1, <2>2, <2>4, GotoKeeps DEF Pcs, Handles, Leaves, Codes
  <2> QED
    BY <2>1, <2>3, <2>4
<1> QED
  BY <1>1, <1>2, <1>3, <1>4, <1>5, <1>6, <1>7, <1>8, <1>9 DEF StartUp

(* Failures of the start-up, the dialog, crashes.                          *)
LEMMA FailureKeeps ==
  ASSUME Inv, NEW p \in Pid,
         SetupFails(p) \/ PromptApproved(p) \/ PromptFails(p) \/ Crash(p)
  PROVE  Inv'
<1>0. /\ ProcInv /\ FilesTyped /\ RestTyped /\ intent \in Intents /\ TypeOK
      /\ proc[p].kind \in {"daemon", "stdio"} /\ proc[p].code \in {0, 1}
      /\ Codes /\ faults \in 0 .. MaxFaults
  BY InvIs, FieldsOf DEF ProcInv
<1> USE DEF At
<1>1. CASE EarlySetupFails(p)
  BY <1>1, FailsIs, StartUpDies DEF EarlySetupFails, world, Leaves
<1>2. CASE PolicyFails(p)
  BY <1>2, FailsIs, StartUpDies DEF PolicyFails, world, Leaves
<1>3. CASE WireFails(p)
  <2>1. /\ Alive(p) /\ proc[p].pc = "wire" /\ Exit(p, 1) /\ faults' \in 0 .. MaxFaults
        /\ UNCHANGED <<sock, lockRec, cred, disk, recHash, cli, intent, acts>>
        /\ pidFile' \in {NoPid, Left(pidFile, p)}
    BY <1>3, FailsIs DEF WireFails, world
  <2>2. FilesTyped'
    BY <1>0, <2>1, Pids DEF FilesTyped, Left
  <2>3. lockRec.pid # p /\ (intent = "stopped" => job.pid # p)
    BY <1>0, <2>1 DEF ProcInv, RecordOfLive, Handles, Stopped, Leaves
  <2> QED
    BY <1>0, <2>1, <2>2, <2>3, ExitKeeps
<1>4. CASE PromptFails(p)
  BY <1>0, <1>4, StartUpDies DEF PromptFails, world, bounds, Leaves
<1>5. CASE PromptApproved(p)
  <2>1. /\ UNCHANGED <<job, intent, cli, acts, faults, owed, cred, disk, recHash>>
        /\ UNCHANGED <<sock, pidFile, lockRec>>
        /\ Goto(p, "resume") /\ proc[p].pc = "prompt" /\ Alive(p)
    BY <1>5 DEF PromptApproved, files, world, bounds
  <2> QED
    BY <1>0, <2>1, GotoKeeps DEF Pcs, Handles, Leaves, Codes, FilesTyped, RestTyped
<1>6. CASE Crash(p)
  <2>1. /\ Alive(p) /\ Dies(p, 1) /\ faults' \in 0 .. MaxFaults
        /\ UNCHANGED <<cred, disk, recHash, cli, acts>>
        /\ intent' = IF job.pid = p /\ intent = "stopped" THEN "none" ELSE intent
    BY <1>6, FailsIs DEF Crash, world
  <2>2. /\ intent' \in Intents /\ (intent' = "hopeless" => intent = "hopeless")
        /\ (intent' = "stopped" => intent = "stopped" /\ (job.pid = p => 1 = 0))
    BY <1>0, <2>1 DEF Intents
  <2> QED
    BY <2>1, <2>2, DiesKeeps
<1> QED
  BY <1>1, <1>2, <1>3, <1>4, <1>5, <1>6 DEF SetupFails

(* The teardown; whoever's record it removes.                              *)
LEMMA TeardownKeeps ==
  ASSUME Inv, NEW p \in Pid, Teardown(p) \/ StopServing(p) PROVE Inv'
<1>0. /\ ProcInv /\ FilesTyped /\ RestTyped /\ intent \in Intents /\ NoPid \in Named
      /\ proc[p].kind \in {"daemon", "stdio"} /\ proc[p].code \in {0, 1}
      /\ Codes /\ DaemonPcs /\ faults \in 0 .. MaxFaults
  BY InvIs, FieldsOf, Pids DEF ProcInv
<1> USE DEF At
<1>1. CASE RemoveSocket(p)
  <2>1. /\ UNCHANGED <<job, intent, cli, acts, faults, owed, cred, disk, recHash>>
        /\ UNCHANGED <<pidFile, lockRec>> /\ sock' = NoPid
        /\ Goto(p, "unpid") /\ proc[p].pc = "unlink" /\ Alive(p) /\ proc[p].kind = "daemon"
    BY <1>0, <1>1 DEF RemoveSocket, world, bounds, DaemonPcs
  <2> QED
    BY <1>0, <2>1, GotoKeeps DEF Pcs, Handles, Leaves, FilesTyped, RestTyped
<1>2. CASE RemovePIDFile(p)
  <2>1. /\ UNCHANGED <<job, intent, cli, acts, faults, owed, cred, disk, recHash>>
        /\ UNCHANGED <<sock, lockRec>> /\ pidFile' = NoPid
        /\ Goto(p, "unrec") /\ proc[p].pc = "unpid" /\ Alive(p)
    BY <1>2 DEF RemovePIDFile, world, bounds
  <2> QED
    BY <1>0, <2>1, GotoKeeps DEF Pcs, Handles, Leaves, FilesTyped, RestTyped
<1>3. CASE RemoveLockState(p)
  <2>1. /\ Alive(p) /\ proc[p].pc = "unrec" /\ Exit(p, proc[p].code) /\ lockRec' = NoRec
        /\ UNCHANGED <<cred, disk, recHash, cli, acts, faults, intent>>
        /\ sock' = Left(sock, p) /\ pidFile' = Left(pidFile, p)
    BY <1>3 DEF RemoveLockState, world, bounds
  <2>2. FilesTyped' /\ lockRec'.pid \notin Pid /\ (sock # p => sock' = sock)
    BY <1>0, <2>1, Pids DEF FilesTyped, Left, NoRec
  <2>3. intent = "stopped" => (job.pid = p => proc[p].code = 0)
    BY <1>0 DEF ProcInv, Stopped, Leaves
  <2> QED
    BY <1>0, <2>1, <2>2, <2>3, ExitKeeps
<1>4. CASE StopServing(p)
  <2>1. /\ UNCHANGED <<job, intent, cli, acts, faults, owed, cred, disk, recHash>>
        /\ UNCHANGED <<pidFile, lockRec>> /\ proc[p].pc = "ready" /\ Alive(p)
        /\ \/ Shutdown(p, "unlink", 0) /\ sock' = NoPid /\ proc[p].kind = "daemon"
           \/ Shutdown(p, "unpid", 0) /\ UNCHANGED sock
    BY <1>4 DEF StopServing, world, bounds
  <2>2. FilesTyped'
    BY <1>0, <2>1 DEF FilesTyped
  <2>3. CASE Shutdown(p, "unlink", 0) /\ sock' = NoPid /\ proc[p].kind = "daemon"
    BY <1>0, <2>1, <2>2, <2>3, GotoKeeps DEF Pcs, Handles, Leaves, RestTyped
  <2>4. CASE Shutdown(p, "unpid", 0) /\ UNCHANGED sock
    BY <1>0, <2>1, <2>2, <2>4, GotoKeeps DEF Pcs, Handles, Leaves, RestTyped
  <2> QED
    BY <2>1, <2>3, <2>4
<1> QED
  BY <1>1, <1>2, <1>3, <1>4 DEF Teardown

(* The lock flag and its record change together.                           *)
LEMMA LockKeeps ==
  ASSUME Inv, NEW p \in Pid, Locks(p) \/ Unlocks(p) PROVE Inv'
<1>0. /\ TypeOK /\ ProcInv /\ ProcTyped /\ FilesTyped /\ RestTyped /\ job \in Job
      /\ owed \in SUBSET Pid /\ p \in Named /\ intent \in Intents
      /\ acts \in 0 .. MaxActs /\ faults \in 0 .. MaxFaults
      /\ proc[p].kind \in {"daemon", "stdio"} /\ proc[p].code \in {0, 1}
      /\ proc[p].pc \in Pcs /\ proc[p].locked \in BOOLEAN
  BY InvIs, FieldsOf, Pids
<1>1. /\ Handles(p) /\ Alive(p) /\ proc[p].pc # "gone"
      /\ UNCHANGED <<job, sock, pidFile, cred, disk, recHash, cli, intent, acts, faults>>
  BY DEF Locks, Unlocks, At, Handles, Alive, world, bounds
<1>2. /\ proc[p].pc \in {"boot", "probe", "bind", "unlink"} => proc[p].kind = "daemon"
      /\ proc[p].pc \notin {"unlink", "unpid", "unrec"} => proc[p].code = 0
      /\ proc[p].pc = "ready" /\ proc[p].kind = "daemon" => sock' = p
      /\ lockRec.pid = p /\ lockRec.locked => proc[p].locked
      /\ intent = "stopped" /\ job.pid = p =>
           proc[p].pc \in {"ready", "unlink", "unpid", "unrec"} /\ proc[p].code = 0
  BY <1>0, <1>1 DEF ProcInv, DaemonPcs, Codes, Reachable, Listening, RecordOfLive, Stopped, Leaves
<1>3. ASSUME NEW b \in BOOLEAN, SetLock(p, b) PROVE Inv'
  <2>1. Becomes(p, proc[p].kind, proc[p].pc, b, proc[p].code)
    BY <1>0, <1>3, SetLockIs
  <2>2. lockRec' = [pid |-> p, locked |-> b] /\ owed' \in SUBSET Pid
    BY <1>0, <1>3 DEF SetLock
  <2>3. FilesTyped' /\ lockRec'.pid = p /\ (lockRec'.locked => b)
    BY <1>0, <1>1, <2>2 DEF FilesTyped
  <2>4. Handles(p)' /\ ProcTyped'
    BY <1>1, <2>1 DEF Becomes, Handles
  <2>5. ProcInv'
    BY <1>0, <1>1, <1>2, <2>1, <2>3, <2>4, Moves
  <2>6. RestTyped'
    BY <1>0, <1>1, <2>2, RestFrom
  <2> QED
    BY <1>0, <1>1, <2>3, <2>4, <2>5, <2>6, TypesFrom DEF Inv
<1>4. ASSUME proc' = [proc EXCEPT ![p].sig = FALSE], owed' = owed \ {p}, UNCHANGED lockRec
      PROVE  Inv'
  <2>1. Becomes(p, proc[p].kind, proc[p].pc, proc[p].locked, proc[p].code)
    BY <1>0, <1>4, SignalIs
  <2>2. FilesTyped' /\ owed' \in SUBSET Pid
    BY <1>0, <1>1, <1>4 DEF FilesTyped
  <2>3. Handles(p)' /\ ProcTyped'
    BY <1>1, <2>1 DEF Becomes, Handles
  <2>4. ProcInv'
    BY <1>0, <1>1, <1>2, <1>4, <2>1, <2>3, Moves
  <2>5. RestTyped'
    BY <1>0, <1>1, <2>2, RestFrom
  <2> QED
    BY <1>0, <1>1, <2>2, <2>3, <2>4, <2>5, TypesFrom DEF Inv
<1> QED
  BY <1>3, <1>4 DEF Locks, Unlocks

(* launchd, a client, the commands and the world outside.                  *)
LEMMA OutsideKeeps ==
  ASSUME Inv, Spawn \/ Human \/ CliStep PROVE Inv'
<1>0. /\ TypeOK /\ ProcInv /\ ProcTyped /\ FilesTyped /\ RestTyped /\ job \in Job
      /\ owed \in SUBSET Pid /\ acts \in 0 .. MaxActs /\ faults \in 0 .. MaxFaults
      /\ MaxActs \in Nat /\ intent \in Intents
      /\ cred \in {"none", "good", "dead"} /\ disk \in Binary
      /\ recHash \in Binary \cup {"none"}
      /\ cli \in [pc : {"idle", "record", "bootstrap", "kick", "signal"}, todo : SUBSET Pid]
  BY InvIs DEF RestTyped
<1>1. Act => acts' \in 0 .. MaxActs
  BY <1>0 DEF Act
<1>2. \A pc \in {"idle", "record", "bootstrap", "kick", "signal"} : Cli(pc) =>
        cli' \in [pc : {"idle", "record", "bootstrap", "kick", "signal"}, todo : SUBSET Pid]
  BY DEF Cli
(* A step that touches no process.                                         *)
<1>3. ASSUME UNCHANGED <<proc, sock, pidFile, lockRec, owed>>, job' \in Job,
             job'.pid = job.pid, intent' \in Intents,
             \/ intent' = intent /\ job' = job
             \/ intent' \notin {"hopeless", "stopped"},
             cred' \in {"none", "good", "dead"}, disk' \in Binary,
             recHash' \in Binary \cup {"none"},
             cli' \in [pc : {"idle", "record", "bootstrap", "kick", "signal"}, todo : SUBSET Pid],
             acts' \in 0 .. MaxActs, faults' = faults
      PROVE  Inv'
  <2>1. ProcInv'
    BY <1>0, <1>3, Rests
  <2>2. ProcTyped' /\ FilesTyped' /\ RestTyped'
    BY <1>0, <1>3 DEF ProcTyped, FilesTyped, RestTyped, Intents
  <2> QED
    BY <1>3, <2>1, <2>2, TypesFrom DEF Inv
(* A step that goes through launchd.                                       *)
<1>4. ASSUME \/ Kickstart
             \/ \E plist \in BOOLEAN : Bootout(plist) /\ intent' = "none",
             cred' \in {"none", "good", "dead"}, disk' = disk, recHash' = recHash,
             cli' \in [pc : {"idle", "record", "bootstrap", "kick", "signal"}, todo : SUBSET Pid],
             acts' \in 0 .. MaxActs, faults' = faults
      PROVE  Inv'
  <2>1. /\ ProcTyped' /\ job' \in Job /\ FilesTyped' /\ owed' \in SUBSET Pid
        /\ intent' \in {"up", "none"}
        /\ \/ UNCHANGED <<proc, sock, lockRec>> /\ job'.pid = job.pid
           \/ /\ job.pid \in Pid /\ job'.pid = NoPid /\ Orphans(job.pid)
              /\ Becomes(job.pid, "daemon", "gone", FALSE, 0)
           \/ /\ job.pid \in Pid /\ job'.pid = job.pid /\ UNCHANGED <<sock, lockRec>>
              /\ proc' = Cancelled(job.pid)
    <3>1. CASE Kickstart
      BY <1>0, <3>1, KickstartIs
    <3>2. CASE \E plist \in BOOLEAN : Bootout(plist) /\ intent' = "none"
      BY <1>0, <3>2, BootoutIs
    <3> QED
      BY <1>4, <3>1, <3>2
  <2>2. ProcInv'
    BY <1>0, <2>1, ToldToStop
  <2>3. RestTyped'
    BY <1>0, <1>4, <2>1 DEF RestTyped
  <2> QED
    BY <2>1, <2>2, <2>3, TypesFrom DEF Inv
<1>5. CASE Spawn
  <2>1. PICK p \in Pid : /\ ~Alive(p) /\ Start("daemon", p)
                         /\ job' = [job EXCEPT !.pid = p, !.due = "no"]
    <3>1. \E q \in FreePids : \A r \in FreePids : q <= r
      <4>1. FreePids \subseteq Pid /\ FreePids # {}
        BY <1>5 DEF Spawn, FreePids
      <4> QED
        BY <4>1, LeastExists
    <3>2. PICK p : /\ p = CHOOSE q \in FreePids : \A r \in FreePids : q <= r
                   /\ Start("daemon", p) /\ job' = [job EXCEPT !.pid = p, !.due = "no"]
      BY <1>5 DEF Spawn
    <3>3. p \in FreePids
      BY <3>1, <3>2
    <3> QED
      BY <3>2, <3>3 DEF FreePids
  <2>2. /\ job.pid = NoPid /\ job.due # "no"
        /\ UNCHANGED <<sock, pidFile, lockRec, cred, disk, recHash, cli, intent, owed, acts, faults>>
    BY <1>5 DEF Spawn, files, world, bounds
  <2>3. job' \in Job /\ job'.pid = p
    BY <1>0, <2>1 DEF Job
  <2>4. Becomes(p, "daemon", IF "daemon" = "daemon" THEN "boot" ELSE "stored", FALSE, 0)
    BY <1>0, <2>1, StartIs
  <2>5. ProcInv'
    BY <1>0, <2>1, <2>2, <2>3, <2>4, Starts
  <2>6. ProcTyped' /\ FilesTyped' /\ RestTyped'
    BY <1>0, <2>2, <2>4 DEF Becomes, FilesTyped, RestTyped
  <2> QED
    BY <2>3, <2>5, <2>6, TypesFrom DEF Inv
<1>6. CASE StartStdio
  <2>1. PICK p \in Pid : ~Alive(p) /\ Start("stdio", p)
    <3>1. \E q \in FreePids : \A r \in FreePids : q <= r
      <4>1. FreePids \subseteq Pid /\ FreePids # {}
        BY <1>6 DEF StartStdio, FreePids
      <4> QED
        BY <4>1, LeastExists
    <3>2. PICK p : /\ p = CHOOSE q \in FreePids : \A r \in FreePids : q <= r
                   /\ Start("stdio", p)
      BY <1>6 DEF StartStdio
    <3>3. p \in FreePids
      BY <3>1, <3>2
    <3> QED
      BY <3>2, <3>3 DEF FreePids
  <2>2. UNCHANGED <<job, sock, pidFile, lockRec, cred, disk, recHash, cli, intent, owed, faults>>
        /\ Act
    BY <1>6 DEF StartStdio, files, world
  <2>3. Becomes(p, "stdio", IF "stdio" = "daemon" THEN "boot" ELSE "stored", FALSE, 0)
    BY <1>0, <2>1, StartIs
  <2>4. ProcInv'
    BY <1>0, <2>1, <2>2, <2>3, Starts
  <2>5. ProcTyped' /\ FilesTyped' /\ RestTyped'
    BY <1>0, <1>1, <2>2, <2>3 DEF Becomes, FilesTyped, RestTyped
  <2> QED
    BY <1>0, <2>2, <2>4, <2>5, TypesFrom DEF Inv
<1>7. CASE InstallBegin \/ Uninstall
  <2>1. CASE InstallBegin
    BY <1>0, <1>1, <1>2, <1>4, <2>1 DEF InstallBegin, Command, world
  <2>2. CASE Uninstall
    BY <1>0, <1>1, <1>4, <2>2 DEF Uninstall, Command, world
  <2> QED
    BY <1>7, <2>1, <2>2
<1>8. CASE StartCommand
  BY <1>0, <1>1, <1>4, <1>8 DEF StartCommand, Command, world
<1>9. CASE Login
  <2>1. CASE job.label = "yes"
    BY <1>0, <1>1, <1>4, <1>9, <2>1 DEF Login, Command
  <2>2. CASE job.label # "yes"
    BY <1>0, <1>1, <1>3, <1>9, <2>2 DEF Login, Command, files
  <2> QED
    BY <2>1, <2>2
<1>10. CASE LoseLogin
  BY <1>0, <1>1, <1>3, <1>10 DEF LoseLogin, files
<1>11. CASE ReplaceBinary
  BY <1>0, <1>1, <1>3, <1>11 DEF ReplaceBinary, files
<1>12. CASE LockCommand
  <2>1. FindRunningPIDs \in SUBSET Pid
    BY DEF FindRunningPIDs, IsRuntimeProcess
  <2>2. /\ cli' \in [pc : {"idle", "record", "bootstrap", "kick", "signal"}, todo : SUBSET Pid]
        /\ owed' \in SUBSET Pid /\ Act
        /\ UNCHANGED <<proc, job, sock, pidFile, lockRec, cred, disk, recHash, intent, faults>>
    BY <1>0, <1>12, <2>1 DEF LockCommand, Command, files, world
  <2>3. ProcInv'
    BY <1>0, <2>2, Rests
  <2>4. ProcTyped' /\ FilesTyped' /\ RestTyped'
    BY <1>0, <1>1, <2>2 DEF ProcTyped, FilesTyped, RestTyped
  <2> QED
    BY <1>0, <2>2, <2>3, <2>4, TypesFrom DEF Inv
<1>13. ASSUME NEW next \in {"idle", "kick"}, StopCommand(next) PROVE Inv'
  <2>0. /\ Act /\ job.pid \in Pid /\ Cli(next) /\ UNCHANGED <<cred, disk, recHash, faults>>
        /\ acts' \in 0 .. MaxActs
        /\ cli' \in [pc : {"idle", "record", "bootstrap", "kick", "signal"}, todo : SUBSET Pid]
    BY <1>0, <1>1, <1>2, <1>13 DEF StopCommand, Command, world, Job
  <2>1. CASE DiesOfTerm(job.pid)
    <3>1. Exit(job.pid, 1) /\ Orphans(job.pid) /\ intent' = "none"
      BY <1>13, <2>1 DEF StopCommand, Dies
    <3>2. Becomes(job.pid, "daemon", "gone", FALSE, 0) /\ JobAfter(job.pid, 1)
          /\ owed' \in SUBSET Pid
      BY <1>0, <2>0, <3>1, ExitIs
    <3>3. FilesTyped' /\ ProcTyped' /\ job' \in Job /\ job'.pid = NoPid
      BY <1>0, <2>0, <3>1, <3>2, OrphansIs DEF Becomes, JobAfter
    <3>4. ProcInv'
      BY <1>0, <2>0, <3>1, <3>2, <3>3, ToldToStop
    <3>5. RestTyped'
      BY <1>0, <2>0, <3>1, <3>2 DEF RestTyped
    <3> QED
      BY <3>3, <3>4, <3>5, TypesFrom DEF Inv
  <2>2. CASE ~DiesOfTerm(job.pid)
    <3>1. /\ proc' = Cancelled(job.pid) /\ UNCHANGED <<job, sock, pidFile, lockRec, owed>>
          /\ intent' = IF next = "idle" /\ Serves(job.pid) THEN "stopped" ELSE "none"
      BY <1>13, <2>2 DEF StopCommand, files
    <3>2. FilesTyped' /\ RestTyped'
      BY <1>0, <2>0, <3>1 DEF FilesTyped, RestTyped
    <3>3. Becomes(job.pid, proc[job.pid].kind, proc[job.pid].pc, proc[job.pid].locked,
                  proc[job.pid].code)
      BY <1>0, <2>0, <3>1, CancelledIs
    <3>4. CASE intent' = "none"
      <4>1. ProcInv'
        BY <1>0, <2>0, <3>1, <3>4, ToldToStop
      <4> QED
        BY <1>0, <3>1, <3>2, <3>3, <4>1, TypesFrom DEF Inv, Becomes
    <3>5. CASE intent' = "stopped"
      <4>1. PICK p \in Pid : p = job.pid
        BY <2>0
      <4>2. /\ proc[p].pc = "ready" /\ job.due = "no" /\ Alive(p) /\ proc[p].kind = "daemon"
            /\ proc[p].code = 0 /\ sock = p /\ proc[p].locked \in BOOLEAN
        <5>1. proc[p].pc = "ready" /\ job.due = "no" /\ Alive(p)
          BY <3>1, <3>5, <4>1 DEF Serves, At
        <5>2. proc[p].kind = "daemon" /\ proc[p].code = 0 /\ proc[p].locked \in BOOLEAN
          BY <1>0, <4>1, <5>1, FieldsOf DEF ProcInv, OneDaemon, Codes
        <5>3. sock = p
          BY <1>0, <5>1, <5>2 DEF ProcInv, Reachable, Listening
        <5> QED
          BY <5>1, <5>2, <5>3
      <4>3. /\ Handles(p)' /\ (lockRec.pid = p /\ lockRec.locked => proc[p].locked)
        BY <1>0, <3>3, <4>1, <4>2 DEF ProcInv, RecordOfLive, Handles, Becomes
      <4>4. ProcInv'
        BY <1>0, <3>1, <3>3, <3>5, <4>1, <4>2, <4>3, Moves DEF Pcs
      <4> QED
        BY <1>0, <3>1, <3>2, <3>3, <4>4, TypesFrom DEF Inv, Becomes
    <3> QED
      BY <3>1, <3>4, <3>5
  <2> QED
    BY <2>1, <2>2
<1>14. CASE InstallRecord
  BY <1>0, <1>2, <1>3, <1>14 DEF InstallRecord, files, bounds
<1>15. CASE InstallBootstrap
  <2>1. /\ job' \in Job /\ job'.pid = job.pid /\ intent' \in Intents
        /\ \/ intent' = intent /\ job' = job
           \/ intent' \notin {"hopeless", "stopped"}
    BY <1>0, <1>15 DEF InstallBootstrap, Job, Intents
  <2> QED
    BY <1>0, <1>2, <1>3, <1>15, <2>1 DEF InstallBootstrap, files, world, bounds
<1>16. CASE RestartKick
  <2>1. CASE job.label = "yes"
    BY <1>0, <1>2, <1>4, <1>16, <2>1 DEF RestartKick, world, bounds
  <2>2. CASE job.label # "yes"
    BY <1>0, <1>2, <1>3, <1>16, <2>2 DEF RestartKick, files, world, bounds
  <2> QED
    BY <2>1, <2>2
<1>17. ASSUME NEW p \in Pid, SendSignal(p) PROVE Inv'
  <2>1. /\ UNCHANGED <<job, sock, pidFile, lockRec, cred, disk, recHash, intent, owed, acts, faults>>
        /\ cli' = [pc |-> IF cli.todo = {p} THEN "idle" ELSE "signal", todo |-> cli.todo \ {p}]
    BY <1>17 DEF SendSignal, files, world, bounds
  <2>2. cli' \in [pc : {"idle", "record", "bootstrap", "kick", "signal"}, todo : SUBSET Pid]
    BY <1>0, <2>1
  <2>3. CASE proc' = proc
    BY <1>0, <1>3, <2>1, <2>2, <2>3
  <2>4. CASE Alive(p) /\ Handles(p) /\ proc' = [proc EXCEPT ![p].sig = TRUE]
    <3>1. Becomes(p, proc[p].kind, proc[p].pc, proc[p].locked, proc[p].code)
      BY <1>0, <2>4, SignalIs
    <3>2. /\ proc[p].pc \in Pcs /\ proc[p].pc # "gone" /\ proc[p].locked \in BOOLEAN
          /\ proc[p].code \in {0, 1} /\ Handles(p)'
      BY <1>0, <2>4, <3>1, FieldsOf DEF Alive, Handles, Becomes
    <3>3. /\ proc[p].pc \in {"boot", "probe", "bind", "unlink"} => proc[p].kind = "daemon"
          /\ proc[p].pc \notin {"unlink", "unpid", "unrec"} => proc[p].code = 0
          /\ proc[p].pc = "ready" /\ proc[p].kind = "daemon" => sock' = p
          /\ lockRec.pid = p /\ lockRec.locked => proc[p].locked
          /\ intent = "stopped" /\ job.pid = p =>
               proc[p].pc \in {"ready", "unlink", "unpid", "unrec"} /\ proc[p].code = 0
      BY <1>0, <2>1, <2>4
      DEF ProcInv, DaemonPcs, Codes, Reachable, Listening, RecordOfLive, Stopped, Leaves
    <3>4. ProcInv'
      BY <1>0, <2>1, <2>4, <3>1, <3>2, <3>3, Moves
    <3>5. ProcTyped' /\ FilesTyped' /\ RestTyped'
      BY <1>0, <2>1, <2>2, <3>1 DEF Becomes, FilesTyped, RestTyped
    <3> QED
      BY <1>0, <2>1, <3>4, <3>5, TypesFrom DEF Inv
  <2> QED
    BY <1>17, <2>3, <2>4 DEF SendSignal
<1> QED
  BY <1>5, <1>6, <1>7, <1>8, <1>9, <1>10, <1>11, <1>12, <1>13, <1>14, <1>15, <1>16, <1>17
  DEF Human, CliStep

LEMMA InvInit == Init => Inv
<1> SUFFICES ASSUME Init PROVE Inv
  OBVIOUS
<1>1. \A p \in Pid : proc[p] = Gone
  BY DEF Init
<1>2. /\ Gone.pc = "gone" /\ Gone.kind = "daemon" /\ Gone.code = 0 /\ Gone \in Process
  BY DEF Gone, Process, Pcs
<1>3. ProcTyped
  BY <1>2 DEF Init, ProcTyped
<1>4. job \in Job /\ job.pid = NoPid
  BY DEF Init, Job
<1>5. FilesTyped /\ lockRec.pid = NoPid
  BY Pids DEF Init, FilesTyped, NoRec
<1>6. RestTyped
  BY ConstantsAssumption DEF Init, RestTyped, Binary
<1>7. ProcInv
  <2>1. OneDaemon /\ DaemonPcs /\ Codes /\ Reachable
    BY <1>1, <1>2, <1>4, Pids
    DEF OneDaemon, DaemonPcs, Codes, Reachable, Alive, Listening
  <2>2. RecordOfLive /\ Hopeless /\ Stopped
    BY <1>5, Pids DEF Init, RecordOfLive, Hopeless, Stopped
  <2> QED
    BY <2>1, <2>2 DEF ProcInv
<1> QED
  BY <1>3, <1>4, <1>5, <1>6, <1>7, TypeParts DEF Inv

LEMMA InvNext == Inv /\ [Next]_vars => Inv'
<1> SUFFICES ASSUME Inv, [Next]_vars PROVE Inv'
  OBVIOUS
<1>1. CASE UNCHANGED vars
  BY <1>1 DEF Inv, vars, TypeOK, ProcInv, OneDaemon, DaemonPcs, Codes, Reachable, RecordOfLive,
              Hopeless, Stopped, Leaves, Alive, Listening, Handles
<1> QED
  BY <1>1, OutsideKeeps, StartUpKeeps, FailureKeeps, TeardownKeeps, LockKeeps DEF Next

LEMMA Invariant == Spec => []Inv
  BY InvInit, InvNext, PTL DEF Spec

(* launchd's instance comes from Spawn alone.                              *)
LEMMA OnlySpawn ==
  ASSUME Inv, Next, job.pid = NoPid, job'.pid # NoPid PROVE Spawn
<1>0. NoPid \notin Pid /\ job \in Job /\ \A p \in Pid : job.pid # p
  BY Pids, InvIs
<1>1. \A p \in Pid : \A code : Exit(p, code) => job' = job
  BY <1>0 DEF Exit, AfterExit
<1>2. \A p \in Pid : /\ \A code : Dies(p, code) => job' = job
                     /\ GiveUp(p) => job' = job
  BY <1>1 DEF Dies, GiveUp
<1>3. ASSUME NEW p \in Pid PROVE ~StartUp(p)
  BY <1>0, <1>2 DEF StartUp, Boot, CheckStored, Resumed, ResumeFails, WritePIDFile, Wired,
     PublishStart, ProbeSocket, BindSocket
<1>4. ASSUME NEW p \in Pid
      PROVE  ~(Teardown(p) \/ SetupFails(p) \/ Crash(p) \/ PromptApproved(p) \/ PromptFails(p)
               \/ StopServing(p) \/ Locks(p) \/ Unlocks(p))
  BY <1>0, <1>1, <1>2 DEF Teardown, RemoveSocket, RemovePIDFile, RemoveLockState, SetupFails,
     EarlySetupFails, PolicyFails, WireFails, Crash, PromptApproved, PromptFails, StopServing,
     Locks, Unlocks
<1>5. ~Kickstart /\ \A plist \in BOOLEAN : ~Bootout(plist)
  BY <1>0, InvIs, KickstartIs, BootoutIs
<1>6. ~CliStep
  BY <1>0, <1>5 DEF CliStep, InstallRecord, InstallBootstrap, RestartKick, SendSignal, Job
<1>7. ~Human
  BY <1>0, <1>5 DEF Human, InstallBegin, Uninstall, StartCommand, StopCommand, Login, LoseLogin,
     ReplaceBinary, StartStdio, LockCommand
<1> QED
  BY <1>3, <1>4, <1>6, <1>7 DEF Next

----------------------------------------------------------------------------
(* What cmd/protonmcpd and the daemon commands promise. *)

(* Whoever is killed, torn down or started beside it, the files that the   *)
(* processes of cmd/protonmcpd share name a process, a gone one, or none.  *)
THEOREM ProcessTypes == Spec => []TypeOK
<1>1. Inv => TypeOK
  BY DEF Inv
<1> QED
  BY <1>1, Invariant, PTL

(* openSocket and the deferred os.Remove never take the node away from a   *)
(* daemon in its accept loop.                                              *)
THEOREM ReadyStaysReachable == Spec => []ReadyIsReachable
<1>1. Inv => ReadyIsReachable
  BY DEF Inv, ProcInv, Reachable, ReadyIsReachable
<1> QED
  BY <1>1, Invariant, PTL

(* When doctor prints LOCKED a live runtime is locked, whoever wrote       *)
(* lockstate.json last and whoever crashed since.                          *)
THEOREM DoctorTellsTheTruth == Spec => []LockedLineIsTrue
<1>1. Inv => LockedLineIsTrue
  BY DEF Inv, ProcInv, RecordOfLive, LockedLineIsTrue, DoctorLockState, IsRuntimeProcess
<1> QED
  BY <1>1, Invariant, PTL

(* D44: once an exit left only a human able to mend the start, launchd     *)
(* brings no dialog up until a human acts.                                 *)
THEOREM NoDialogReturns == Spec => NoPromptLoop
<1>1. Inv /\ [Next]_vars =>
        [\A p \in Pid :
            job.pid = p /\ proc[p].pc # "prompt" /\ proc'[p].pc = "prompt"
                => intent # "hopeless"]_vars
  BY Pids DEF Inv, ProcInv, Hopeless
<1> QED
  BY <1>1, Invariant, PTL DEF Spec, NoPromptLoop

(* `daemon stop` of a daemon that serves ends in an exit after which       *)
(* launchd does not start it again.                                        *)
THEOREM StopsForGood == Spec => StopStops
<1>1. Inv /\ [Next]_vars =>
        [job.pid = NoPid /\ job'.pid # NoPid => intent # "stopped"]_vars
  <2> SUFFICES ASSUME Inv, Next, job.pid = NoPid, job'.pid # NoPid PROVE intent # "stopped"
    BY DEF vars
  <2>1. Spawn
    BY OnlySpawn
  <2> QED
    BY <2>1 DEF Spawn, Inv, ProcInv, Stopped
<1> QED
  BY <1>1, Invariant, PTL DEF Spec, StopStops
=============================================================================
