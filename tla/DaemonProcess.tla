---------------------------- MODULE DaemonProcess ----------------------------
(***************************************************************************)
(* The processes that host a runtime, and the files they share.            *)
(*                                                                         *)
(* launchd keeps one instance of protonmcpd, and respawns it after every   *)
(* exit that is not 0; a client may start `protonmcp serve-stdio` beside   *)
(* it, which runs the same serve.Setup.  All of them write one PID file    *)
(* and one lock-state file; the daemon also owns the socket.  The CLI      *)
(* (install, start, stop, restart, login, lock, doctor) acts on what it    *)
(* finds on disk and in launchd.                                           *)
(*                                                                         *)
(* Failures covered: a crash at any step, a declined or timed-out prompt,  *)
(* a login that is gone, a Setup that fails half-way, a replaced binary, a *)
(* SIGTERM at any step.  Not covered: a daemon started by hand beside      *)
(* launchd's; a PID taken over by another program.                         *)
(***************************************************************************)
EXTENDS Naturals, FiniteSets

CONSTANTS
    MaxPid,     \* bound: processes at a time
    MaxActs,    \* bound: commands, serve-stdio starts, changes from outside
    MaxFaults,  \* bound: crashes and failed start-up steps
    MaxStdio    \* bound: serve-stdio instances at a time

ASSUME ConstantsAssumption ==
    /\ MaxPid \in Nat \ {0}
    /\ MaxActs \in Nat
    /\ MaxFaults \in Nat
    /\ MaxStdio \in Nat

Pid == 1 .. MaxPid
NoPid == 0
Stale == MaxPid + 1     \* in a file: the PID of a process that has gone
Named == Pid \cup {NoPid, Stale}

Binary == {"old", "new", "foreign"}     \* what protonmcpd's file holds
Signed == {"old", "new"}                \* valid Developer ID signature

VARIABLES
    proc,       \* proc[p]: a process that hosts, or will host, a runtime
    job,        \* launchd's entry for the label
    sock,       \* the process that bound the node at the socket path
    pidFile,    \* serve-stdio.pid
    lockRec,    \* lockstate.json
    cred,       \* the stored login
    disk,       \* the protonmcpd binary on disk
    recHash,    \* expected_sha256
    cli,        \* the command the user is running
    intent,     \* ghost: what the last human act, or a final exit, left
    owed,       \* ghost: runtimes a lock command must reach
    acts, faults    \* what has been used of the bounds

vars == <<proc, job, sock, pidFile, lockRec, cred, disk, recHash, cli, intent,
          owed, acts, faults>>
files == <<sock, pidFile, lockRec>>
world == <<cred, disk, recHash>>
bounds == <<acts, faults>>

Gone == [kind |-> "daemon", pc |-> "gone", term |-> FALSE, locked |-> FALSE,
         sig |-> FALSE, code |-> 0]
Pcs == {"boot", "stored", "prompt", "resume", "files", "wire", "publish",
        "probe", "bind", "ready", "unlink", "unpid", "unrec", "gone"}
NoRec == [pid |-> NoPid, locked |-> FALSE]

TypeOK ==
    /\ proc \in [Pid -> [kind : {"daemon", "stdio"}, pc : Pcs, term : BOOLEAN,
                         locked : BOOLEAN, sig : BOOLEAN, code : {0, 1}]]
    /\ job \in [plist : BOOLEAN, label : {"no", "yes", "leaving"},
                pid : Pid \cup {NoPid}, due : {"no", "respawn", "start"}]
    /\ sock \in Named
    /\ pidFile \in Named
    /\ lockRec \in [pid : Named, locked : BOOLEAN]
    /\ cred \in {"none", "good", "dead"}
    /\ disk \in Binary
    /\ recHash \in Binary \cup {"none"}
    /\ cli \in [pc : {"idle", "record", "bootstrap", "kick", "signal"},
                todo : SUBSET Pid]
    /\ intent \in {"none", "up", "stopped", "hopeless"}
    /\ owed \in SUBSET Pid
    /\ acts \in 0 .. MaxActs
    /\ faults \in 0 .. MaxFaults

\* The daemon was just installed, and launchd is about to start it.
Init ==
    /\ proc = [p \in Pid |-> Gone]
    /\ job = [plist |-> TRUE, label |-> "yes", pid |-> NoPid, due |-> "start"]
    /\ sock = NoPid /\ pidFile = NoPid /\ lockRec = NoRec
    /\ cred = "good" /\ disk = "old" /\ recHash = "old"
    /\ cli = [pc |-> "idle", todo |-> {}]
    /\ intent = "up" /\ owed = {}
    /\ acts = 0 /\ faults = 0

----------------------------------------------------------------------------
(* Processes *)

Alive(p) == proc[p].pc # "gone"
At(p, pc) == Alive(p) /\ proc[p].pc = pc

\* SIGHUP and SIGUSR1/2 are handled from the end of Setup on; before that the
\* Go runtime swallows SIGUSR1/2.
Handles(p) == proc[p].pc \in {"publish", "probe", "bind", "ready", "unlink",
                              "unpid", "unrec"}

Goto(p, pc) == proc' = [proc EXCEPT ![p].pc = pc]

FreePids == {p \in Pid : ~Alive(p)}

Start(kind, p) ==
    proc' = [proc EXCEPT ![p] =
        [Gone EXCEPT !.kind = kind,
                     !.pc = IF kind = "daemon" THEN "boot" ELSE "stored"]]

\* launchd's view of an exit: KeepAlive{SuccessfulExit: false}
AfterExit(p, code) ==
    IF job.pid # p THEN job
    ELSE [job EXCEPT !.pid = NoPid,
                     !.label = IF @ = "leaving" THEN "no" ELSE @,
                     !.due = IF job.label = "leaving" THEN "no"
                             ELSE IF code # 0 /\ @ = "no" THEN "respawn" ELSE @]

Fails == faults < MaxFaults /\ faults' = faults + 1

Left(q, p) == IF q = p THEN Stale ELSE q

\* What a process leaves behind that no longer removes its files.
Orphans(p) ==
    /\ sock' = Left(sock, p)
    /\ pidFile' = Left(pidFile, p)
    /\ lockRec' = [lockRec EXCEPT !.pid = Left(@, p)]

Exit(p, code) ==
    /\ proc' = [proc EXCEPT ![p] = Gone]
    /\ job' = AfterExit(p, code)
    /\ owed' = owed \ {p}

Dies(p, code) == Exit(p, code) /\ Orphans(p)

\* The exits main() makes with status 0 on purpose: launchd leaves it down.
Fault_GiveUp(p) ==
    /\ Dies(p, 1)
    /\ intent' = IF job.pid = p /\ job.due = "no" THEN "hopeless" ELSE intent

GiveUp(p) ==
    /\ Dies(p, IF proc[p].kind = "daemon" THEN 0 ELSE 1)
    /\ intent' = IF job.pid = p /\ job.due = "no" THEN "hopeless" ELSE intent

\* What a SIGTERM does to p: kill it before signal.NotifyContext, cancel the
\* context after it.
DiesOfTerm(p) == proc[p].pc = "boot"
Cancelled(p) == [proc EXCEPT ![p].term = TRUE]

----------------------------------------------------------------------------
(* Start-up: main() and serve.Setup *)

\* VerifyBinaryIntegrity: the recorded hash, or else the signature.
IntegrityHolds == recHash \in {"none", disk} \/ disk \in Signed

\* After an upgrade that the signature vouches for; the write may fail.
RewriteExpectedSha256 ==
    \/ recHash' = IF recHash = "none" THEN recHash ELSE disk
    \/ UNCHANGED recHash

Boot(p) ==
    /\ At(p, "boot")
    /\ \/ /\ IntegrityHolds
          /\ Goto(p, "stored")
          /\ RewriteExpectedSha256
          /\ UNCHANGED <<job, files, intent, owed>>
       \/ /\ ~IntegrityHolds
          /\ GiveUp(p)
          /\ UNCHANGED recHash
    /\ UNCHANGED <<cred, disk, cli, bounds>>

\* session.CheckStored, then Setup: store, sweep, helper; the dialog goes up.
CheckStored(p) ==
    /\ At(p, "stored")
    /\ IF cred = "none" THEN GiveUp(p)
       ELSE Goto(p, "prompt") /\ UNCHANGED <<job, files, intent, owed>>
    /\ UNCHANGED <<world, cli, bounds>>

\* store.Open or ResolveHelperPath fails.
EarlySetupFails(p) ==
    /\ At(p, "stored")
    /\ cred # "none"
    /\ Fails
    /\ Dies(p, 1)
    /\ UNCHANGED <<world, cli, intent, acts>>

PromptApproved(p) ==
    /\ At(p, "prompt")
    /\ ~proc[p].term
    /\ Goto(p, "resume")
    /\ UNCHANGED <<job, files, world, cli, intent, owed, bounds>>

\* Declined, timed out, or its context cancelled: an error that is not
\* ErrLoginRequired, so status 1.
PromptFails(p) ==
    /\ At(p, "prompt")
    /\ Dies(p, 1)
    /\ UNCHANGED <<world, cli, intent, bounds>>

Resumed(p) ==
    /\ At(p, "resume")
    /\ cred = "good" /\ ~proc[p].term
    /\ Goto(p, "files")
    /\ UNCHANGED <<job, files, world, cli, intent, owed, bounds>>

\* AcquireResumeOnly maps every failure to ErrLoginRequired: a login that is
\* gone, a cancelled context, an outage.
ResumeFails(p) ==
    /\ At(p, "resume")
    /\ GiveUp(p)
    /\ UNCHANGED <<world, cli, bounds>>

\* policy.New, then WritePIDFile: the last writer wins.
WritePIDFile(p) ==
    /\ At(p, "files")
    /\ pidFile' = p
    /\ Goto(p, "wire")
    /\ UNCHANGED <<job, sock, lockRec, world, cli, intent, owed, bounds>>

PolicyFails(p) ==
    /\ At(p, "files")
    /\ Fails
    /\ Dies(p, 1)
    /\ UNCHANGED <<world, cli, intent, acts>>

\* Audit writer, broker, SIGHUP, server, tools, SIGUSR1/2, goroutines.
Wired(p) ==
    /\ At(p, "wire")
    /\ Goto(p, "publish")
    /\ UNCHANGED <<job, files, world, cli, intent, owed, bounds>>

\* A failed audit writer or broker removes the PID file again; a failed
\* policy coverage leaves it.
WireFails(p) ==
    /\ At(p, "wire")
    /\ Fails
    /\ Exit(p, 1)
    /\ pidFile' \in {NoPid, Left(pidFile, p)}
    /\ UNCHANGED <<sock, lockRec, world, cli, intent, acts>>

\* The last statement of Setup records "unlocked", whatever happened since
\* the signal handlers were installed.
PublishStart(p) ==
    /\ At(p, "publish")
    /\ lockRec' = [pid |-> p, locked |-> FALSE]
    /\ Goto(p, IF proc[p].kind = "daemon" THEN "probe" ELSE "ready")
    /\ UNCHANGED <<job, sock, pidFile, world, cli, intent, owed, bounds>>

----------------------------------------------------------------------------
(* The socket, the accept loop, the teardown *)

Listening(p) == p \in Pid /\ proc[p].pc = "ready" /\ proc[p].kind = "daemon"

Shutdown(p, pc, code) == proc' = [proc EXCEPT ![p].pc = pc, ![p].code = code]

\* openSocket: a node nobody answers on is removed, a live one is an error.
Fault_ProbeSocket(p) ==
    /\ At(p, "probe")
    /\ IF sock # NoPid THEN Shutdown(p, "unpid", 1) ELSE Goto(p, "bind")
    /\ UNCHANGED <<job, files, world, cli, intent, owed, bounds>>

ProbeSocket(p) ==
    /\ At(p, "probe")
    /\ IF Listening(sock)
       THEN Shutdown(p, "unpid", 1) /\ UNCHANGED sock
       ELSE Goto(p, "bind") /\ sock' = NoPid
    /\ UNCHANGED <<job, pidFile, lockRec, world, cli, intent, owed, bounds>>

BindSocket(p) ==
    /\ At(p, "bind")
    /\ IF sock # NoPid
       THEN Shutdown(p, "unpid", 1) /\ UNCHANGED sock
       ELSE Goto(p, "ready") /\ sock' = p
    /\ UNCHANGED <<job, pidFile, lockRec, world, cli, intent, owed, bounds>>

Fault_StopServing(p) ==
    /\ At(p, "ready")
    /\ proc[p].term \/ proc[p].kind = "stdio"
    /\ IF proc[p].kind = "daemon"
       THEN sock' = NoPid /\ Shutdown(p, "unlink", 1)
       ELSE UNCHANGED sock /\ Shutdown(p, "unpid", 0)
    /\ UNCHANGED <<job, pidFile, lockRec, world, cli, intent, owed, bounds>>

\* SIGTERM, or a client that closes serve-stdio's stdin.  Closing the listener
\* unlinks its path; the drain is bounded (5 s) and changes nothing here.
StopServing(p) ==
    /\ At(p, "ready")
    /\ proc[p].term \/ proc[p].kind = "stdio"
    /\ IF proc[p].kind = "daemon"
       THEN sock' = NoPid /\ Shutdown(p, "unlink", 0)
       ELSE UNCHANGED sock /\ Shutdown(p, "unpid", 0)
    /\ UNCHANGED <<job, pidFile, lockRec, world, cli, intent, owed, bounds>>

\* run()'s deferred os.Remove(sockPath): whoever bound it.
RemoveSocket(p) ==
    /\ At(p, "unlink")
    /\ sock' = NoPid
    /\ Goto(p, "unpid")
    /\ UNCHANGED <<job, pidFile, lockRec, world, cli, intent, owed, bounds>>

\* Runtime.Close: the PID file, then the lock record, whoever wrote them.
Fault_RemovePIDFile(p) ==
    /\ At(p, "unpid")
    /\ pidFile' = NoPid /\ sock' = NoPid
    /\ Goto(p, "unrec")
    /\ UNCHANGED <<job, lockRec, world, cli, intent, owed, bounds>>

RemovePIDFile(p) ==
    /\ At(p, "unpid")
    /\ pidFile' = NoPid
    /\ Goto(p, "unrec")
    /\ UNCHANGED <<job, sock, lockRec, world, cli, intent, owed, bounds>>

RemoveLockState(p) ==
    /\ At(p, "unrec")
    /\ lockRec' = NoRec
    /\ Exit(p, proc[p].code)
    /\ sock' = Left(sock, p) /\ pidFile' = Left(pidFile, p)
    /\ UNCHANGED <<world, cli, intent, bounds>>

Crash(p) ==
    /\ Alive(p)
    /\ Fails
    /\ Dies(p, 1)
    /\ intent' = IF job.pid = p /\ intent = "stopped" THEN "none" ELSE intent
    /\ UNCHANGED <<world, cli, acts>>

----------------------------------------------------------------------------
(* The lock flag: RuntimeLock has the detail, here it is one step *)

SetLock(p, b) ==
    /\ proc' = [proc EXCEPT ![p].locked = b, ![p].sig = FALSE]
    /\ lockRec' = [pid |-> p, locked |-> b]
    /\ owed' = owed \ {p}

\* The signal goroutine; or the screen, the idle tracker.
Locks(p) ==
    /\ Handles(p)
    /\ IF proc[p].locked
       THEN /\ proc[p].sig
            /\ proc' = [proc EXCEPT ![p].sig = FALSE]
            /\ owed' = owed \ {p}
            /\ UNCHANGED lockRec
       ELSE SetLock(p, TRUE)
    /\ UNCHANGED <<job, sock, pidFile, world, cli, intent, bounds>>

Unlocks(p) ==
    /\ At(p, "ready")
    /\ proc[p].locked
    /\ ~proc[p].sig
    /\ SetLock(p, FALSE)
    /\ UNCHANGED <<job, sock, pidFile, world, cli, intent, bounds>>

----------------------------------------------------------------------------
(* launchd *)

Spawn ==
    /\ job.label = "yes" /\ job.pid = NoPid /\ job.due # "no"
    /\ FreePids # {}
    /\ LET p == CHOOSE q \in FreePids : \A r \in FreePids : q <= r
       IN  Start("daemon", p) /\ job' = [job EXCEPT !.pid = p, !.due = "no"]
    /\ UNCHANGED <<files, world, cli, intent, owed, bounds>>

\* kickstart -k: a running instance goes first, killed or terminated.
Kickstart ==
    /\ intent' = "up"
    /\ LET j == [job EXCEPT !.due = "start"]
           p == job.pid
       IN  IF p = NoPid
           THEN job' = j /\ UNCHANGED <<proc, files, owed>>
           ELSE \/ /\ proc' = [proc EXCEPT ![p] = Gone]
                   /\ job' = [j EXCEPT !.pid = NoPid]
                   /\ owed' = owed \ {p}
                   /\ Orphans(p)
                \/ /\ ~DiesOfTerm(p)
                   /\ proc' = Cancelled(p)
                   /\ job' = j
                   /\ UNCHANGED <<files, owed>>

\* launchctl bootout: SIGTERM, and the label goes when the process has gone.
Bootout(plist) ==
    LET p == job.pid
        j == [job EXCEPT !.plist = plist, !.due = "no"]
    IN  IF job.label # "yes" \/ p = NoPid
        THEN /\ job' = [j EXCEPT !.label = IF @ = "yes" THEN "no" ELSE @]
             /\ UNCHANGED <<proc, files, owed>>
        ELSE IF DiesOfTerm(p)
        THEN /\ job' = [j EXCEPT !.label = "no", !.pid = NoPid]
             /\ proc' = [proc EXCEPT ![p] = Gone]
             /\ owed' = owed \ {p}
             /\ Orphans(p)
        ELSE /\ job' = [j EXCEPT !.label = "leaving"]
             /\ proc' = Cancelled(p)
             /\ UNCHANGED <<files, owed>>

----------------------------------------------------------------------------
(* The CLI and the world outside *)

Act == acts < MaxActs /\ acts' = acts + 1
Command == Act /\ cli.pc = "idle"
Cli(pc) == cli' = [pc |-> pc, todo |-> {}]

\* daemon install: plist, bootout; then the hash record; then bootstrap.
InstallBegin ==
    /\ Command
    /\ Bootout(TRUE)
    /\ Cli("record")
    /\ intent' = "none"
    /\ UNCHANGED <<world, faults>>

InstallRecord ==
    /\ cli.pc = "record"
    /\ recHash' \in {disk, recHash}
    /\ Cli("bootstrap")
    /\ UNCHANGED <<proc, job, files, cred, disk, intent, owed, bounds>>

\* Waits for the old label to go, gives up after about 12 s.
InstallBootstrap ==
    /\ cli.pc = "bootstrap"
    /\ \/ /\ job.label = "no"
          /\ job' = [job EXCEPT !.label = "yes", !.due = "start"]
          /\ intent' = "up"
       \/ job.label = "leaving" /\ UNCHANGED <<job, intent>>
    /\ Cli("idle")
    /\ UNCHANGED <<proc, files, world, owed, bounds>>

Uninstall ==
    /\ Command
    /\ Bootout(FALSE)
    /\ intent' = "none"
    /\ UNCHANGED <<world, cli, faults>>

StartCommand ==
    /\ Command
    /\ job.label = "yes"
    /\ Kickstart
    /\ UNCHANGED <<world, cli, faults>>

\* daemon stop, and the first half of daemon restart.  A daemon that serves
\* handles the SIGTERM; one that still starts up may end with status 1.
Serves(p) == At(p, "ready") /\ job.due = "no"

StopCommand(next) ==
    /\ Command
    /\ job.label = "yes"
    /\ job.pid # NoPid
    /\ IF DiesOfTerm(job.pid)
       THEN Dies(job.pid, 1) /\ intent' = "none"
       ELSE /\ proc' = Cancelled(job.pid)
            /\ intent' = IF next = "idle" /\ Serves(job.pid) THEN "stopped" ELSE "none"
            /\ UNCHANGED <<job, files, owed>>
    /\ Cli(next)
    /\ UNCHANGED <<world, faults>>

RestartKick ==
    /\ cli.pc = "kick"
    /\ IF job.label = "yes" THEN Kickstart
       ELSE UNCHANGED <<proc, job, files, intent, owed>>
    /\ Cli("idle")
    /\ UNCHANGED <<world, bounds>>

\* runLogin ends with a kickstart of a loaded label.
Login ==
    /\ Command
    /\ cred' = "good"
    /\ IF job.label = "yes" THEN Kickstart
       ELSE UNCHANGED <<proc, job, files, intent, owed>>
    /\ UNCHANGED <<disk, recHash, cli, faults>>

\* Logout; or the session is revoked at Proton.
LoseLogin ==
    /\ Act
    /\ cred' \in {"none", "dead"}
    /\ UNCHANGED <<proc, job, files, disk, recHash, cli, intent, owed,
                   faults>>

ReplaceBinary ==
    /\ Act
    /\ disk' \in Binary \ {disk}
    /\ UNCHANGED <<proc, job, files, cred, recHash, cli, intent, owed,
                   faults>>

StartStdio ==
    /\ Act
    /\ Cardinality({p \in Pid : Alive(p) /\ proc[p].kind = "stdio"}) < MaxStdio
    /\ FreePids # {}
    /\ Start("stdio", CHOOSE q \in FreePids : \A r \in FreePids : q <= r)
    /\ UNCHANGED <<job, files, world, cli, intent, owed, faults>>

\* hasExecutableNamed: a live process that runs one of the two binaries.
IsRuntimeProcess(p) == p \in Pid /\ Alive(p)

\* FindRunningPIDs: two pgreps and the PID file, each checked against the
\* executable of the process.
Fault_PIDFileOnly == {p \in {pidFile} : IsRuntimeProcess(p)}

FindRunningPIDs ==
    {p \in Pid : Alive(p)} \cup {p \in {pidFile} : IsRuntimeProcess(p)}

\* protonmcp lock: find, then signal one after the other.
LockCommand ==
    /\ Command
    /\ FindRunningPIDs # {}
    /\ cli' = [pc |-> "signal", todo |-> FindRunningPIDs]
    /\ owed' = owed \cup {p \in Pid : Handles(p) /\ ~proc[p].locked}
    /\ UNCHANGED <<proc, job, files, world, intent, faults>>

SendSignal(p) ==
    /\ cli.pc = "signal"
    /\ p \in cli.todo
    /\ proc' = IF Alive(p) /\ Handles(p)
               THEN [proc EXCEPT ![p].sig = TRUE] ELSE proc
    /\ cli' = [pc |-> IF cli.todo = {p} THEN "idle" ELSE "signal",
               todo |-> cli.todo \ {p}]
    /\ UNCHANGED <<job, files, world, intent, owed, bounds>>

----------------------------------------------------------------------------
(* protonmcp doctor: its line on the lock *)

\* Silent without a record, or when its process has gone.
Fault_DoctorLockState ==
    IF lockRec = NoRec THEN "silent"
    ELSE IF lockRec.locked THEN "LOCKED" ELSE "unlocked"

DoctorLockState ==
    IF lockRec = NoRec \/ ~IsRuntimeProcess(lockRec.pid) THEN "silent"
    ELSE IF lockRec.locked THEN "LOCKED" ELSE "unlocked"

----------------------------------------------------------------------------
(* Specification *)

StartUp(p) ==
    \/ Boot(p) \/ CheckStored(p) \/ Resumed(p) \/ ResumeFails(p)
    \/ WritePIDFile(p) \/ Wired(p) \/ PublishStart(p)
    \/ ProbeSocket(p) \/ BindSocket(p)

Teardown(p) == RemoveSocket(p) \/ RemovePIDFile(p) \/ RemoveLockState(p)

SetupFails(p) == EarlySetupFails(p) \/ PolicyFails(p) \/ WireFails(p)

CliStep ==
    \/ InstallRecord \/ InstallBootstrap \/ RestartKick
    \/ \E p \in Pid : SendSignal(p)

Human ==
    \/ InstallBegin \/ Uninstall \/ StartCommand
    \/ StopCommand("idle") \/ StopCommand("kick")
    \/ Login \/ LoseLogin \/ ReplaceBinary \/ StartStdio \/ LockCommand

Next ==
    \/ Spawn
    \/ Human
    \/ CliStep
    \/ \E p \in Pid :
          \/ StartUp(p) \/ Teardown(p) \/ SetupFails(p) \/ Crash(p)
          \/ PromptApproved(p) \/ PromptFails(p)
          \/ StopServing(p) \/ Locks(p) \/ Unlocks(p)

\* What process p does by itself, in the order of its code.
OwnStep(p) ==
    \/ StartUp(p) \/ PromptFails(p) \/ Teardown(p)
    \/ proc[p].term /\ StopServing(p)

Fairness ==
    /\ WF_vars(Spawn)
    /\ WF_vars(CliStep)
    /\ \A p \in Pid : WF_vars(OwnStep(p)) /\ WF_vars(proc[p].sig /\ Locks(p))
    /\ SF_vars(\E p \in Pid : PromptApproved(p))

Spec == Init /\ [][Next]_vars
FairSpec == Spec /\ Fairness

----------------------------------------------------------------------------
(* Properties *)

\* A daemon in its accept loop that nobody told to stop is the one that answers
\* at the socket path: no teardown of another runtime takes its node away.
ReadyIsReachable ==
    \A p \in Pid : Listening(p) /\ ~proc[p].term => sock = p

\* D44, PROTO-113: once a start has ended for a reason only a human can mend,
\* no dialog comes up again until a human acts.
NoPromptLoop ==
    [][\A p \in Pid :
          job.pid = p /\ proc[p].pc # "prompt" /\ proc'[p].pc = "prompt"
              => intent # "hopeless"]_vars

\* PROTO-152: whatever the shared PID file says, a lock command locks every
\* runtime that could take a signal when the command was given.
LockCommandReaches == \A p \in Pid : p \in owed ~> p \notin owed

\* When doctor prints LOCKED, a live runtime is locked: records of processes
\* that crashed, and of runtimes that were unlocked since, do not count.
LockedLineIsTrue ==
    DoctorLockState = "LOCKED" => \E p \in Pid : Alive(p) /\ proc[p].locked

\* After an install, a start, a restart or a login the daemon comes up and can
\* be reached, if its dialog is approved when it is asked again and again,
\* over crashes, stale sockets and signed upgrades, unless it gives up for a
\* reason only a human can mend or a human stops it.
ComesUp ==
    intent = "up" /\ job.label = "yes" ~>
        intent # "up" \/ job.label # "yes" \/ Listening(sock)

\* `daemon stop` of a daemon that serves is no stealth restart: whatever its
\* teardown meets, launchd does not start it again by itself, unless it
\* crashes on its way out (daemon.go:377-378).
StopStops ==
    [][job.pid = NoPid /\ job'.pid # NoPid => intent # "stopped"]_vars
=============================================================================
