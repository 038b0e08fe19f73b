------------------------------ MODULE ToolCall ------------------------------
(***************************************************************************)
(* The pipeline around every tool call: Middleware.runTool of              *)
(* internal/mcp/middleware.go with the approval broker and its cache       *)
(* (internal/approval), the policy engine and its SIGHUP reload            *)
(* (internal/policy, serve.Setup) and the audit row (internal/audit), run  *)
(* by concurrent connections while the daemon locks and unlocks.           *)
(*                                                                         *)
(* The lock is DaemonLock, which RuntimeLock implements.  A call is one    *)
(* tools/call request; it goes through the pipeline once.                  *)
(***************************************************************************)
EXTENDS DaemonLock, FiniteSets

CONSTANTS
    Calls,         \* the tools/call requests
    Tools, Pids, Args,
    Requests,      \* what a client may ask: [tool, pid, args]
    SessionTools,  \* the tools whose handler uses the Proton session
    Policies,      \* the policy documents a reload may load
    MaxTime,       \* bound on the clock
    MaxSession,    \* bound on the sessions acquired
    MaxCrash       \* bound on the crashes of the daemon

Decisions == {"allow", "prompt", "deny"}
(* ToolPolicy: ttl in ticks, and the argument values whose recipients are  *)
(* all on allowed_recipients; restricted tells a non-empty allowlist.      *)
ToolPolicies ==
    [decision : Decisions, ttl : Nat, restricted : BOOLEAN, allowed : SUBSET Args]

ASSUME PipelineAssumption ==
    /\ Requests \subseteq [tool : Tools, pid : Pids, args : Args]
    /\ SessionTools \subseteq Tools
    /\ Policies \subseteq [Tools -> ToolPolicies]
    /\ Policies # {}
    /\ MaxTime \in Nat /\ MaxSession \in Nat /\ MaxCrash \in Nat

VARIABLES
    clock,
    request,    \* what each call asks; the client chose it
    policy,     \* the document policy.Engine serves
    hup,        \* where the SIGHUP goroutine is
    expires,    \* approval cache: key -> expiry, Absent when there is no entry
    step,       \* where each call is in the pipeline
    tool,       \* the session generation its handler is bound to; 0 before and after
    rule,       \* the ToolPolicy Decide returned to it
    result,     \* its outcome so far
    ran,        \* its handler has run
    row,        \* its audit row: absent, open (NULL outcome) or the outcome
    recorded,   \* policy_decision of that row
    crashes

lockVars == <<locked, session, bound, open>>
auditVars == <<row, recorded>>
callVars == <<step, tool, rule, result, ran>>
vars == <<clock, request, lockVars, policy, hup, expires, callVars, auditVars, crashes>>

----------------------------------------------------------------------------
Steps == {"new", "dispatched", "locked", "admitted", "begun", "decided",
          "asking", "prompting", "approved", "handler", "complete",
          "done", "refused", "crashed"}
Over == {"done", "refused", "crashed"}
Outcomes == {"ok", "denied", "error"}
Absent == 0

(* cacheKey hashes the tool, the caller's PID and the arguments. *)
CacheKey(c) == request[c]

NoRule == [decision |-> "deny", ttl |-> 0, restricted |-> FALSE, allowed |-> {}]

(* Every variable has its type; the cache has room for every request. *)
TypeOK ==
    /\ DLTypeOK
    /\ clock \in Nat
    /\ request \in [Calls -> Requests]
    /\ policy \in Policies
    /\ hup \in {"wait", "invalidate"}
    /\ expires \in [Requests -> Nat]
    /\ step \in [Calls -> Steps]
    /\ tool \in [Calls -> Nat]
    /\ rule \in [Calls -> ToolPolicies]
    /\ result \in [Calls -> Outcomes]
    /\ ran \in [Calls -> BOOLEAN]
    /\ row \in [Calls -> Outcomes \cup {"absent", "open"}]
    /\ recorded \in [Calls -> Decisions \cup {"none"}]
    /\ crashes \in Nat

EmptyCache == [k \in Requests |-> Absent]

Init ==
    /\ DLInit
    /\ clock = 0
    /\ request \in [Calls -> Requests]
    /\ policy \in Policies
    /\ hup = "wait"
    /\ expires = EmptyCache
    /\ step = [c \in Calls |-> "new"]
    /\ tool = [c \in Calls |-> 0]
    /\ rule = [c \in Calls |-> NoRule]
    /\ result = [c \in Calls |-> "error"]     \* runTool's pessimistic default
    /\ ran = [c \in Calls |-> FALSE]
    /\ row = [c \in Calls |-> "absent"]
    /\ recorded = [c \in Calls |-> "none"]
    /\ crashes = 0

Tick ==
    /\ clock < MaxTime
    /\ clock' = clock + 1
    /\ UNCHANGED <<request, lockVars, policy, hup, expires, callVars, auditVars, crashes>>

----------------------------------------------------------------------------
(* The lock, the policy reload and the process around the calls. *)

(* Broker.Invalidate. *)
Fault_PurgeNothing == expires
Fault_NilMap == [k \in {} |-> Absent]
Purged == EmptyCache

(* Runtime.Lock closes the session and drops the cached approvals. *)
Lock ==
    /\ DLLock
    /\ expires' = Purged
    /\ UNCHANGED <<clock, request, policy, hup, callVars, auditVars, crashes>>

Unlock ==
    /\ session < MaxSession
    /\ session' = session + 1
    /\ DLUnlock
    /\ UNCHANGED <<clock, request, policy, hup, expires, callVars, auditVars, crashes>>

(* SIGHUP: a document that loads replaces the old one, then the cached     *)
(* approvals go.  One that does not load changes nothing.                  *)
Reload ==
    /\ hup = "wait"
    /\ policy' \in Policies
    /\ hup' = "invalidate"
    /\ UNCHANGED <<clock, request, lockVars, expires, callVars, auditVars, crashes>>

Invalidate ==
    /\ hup = "invalidate"
    /\ expires' = Purged
    /\ hup' = "wait"
    /\ UNCHANGED <<clock, request, lockVars, policy, callVars, auditVars, crashes>>

(* The daemon dies with its calls and its cache; the audit rows stay as    *)
(* they are.  launchd starts it again, with a session of its own and the   *)
(* policy then on disk.                                                    *)
Crash ==
    /\ crashes < MaxCrash /\ session < MaxSession
    /\ crashes' = crashes + 1
    /\ step' = [c \in Calls |->
                   IF step[c] \in Over \cup {"new"} THEN step[c] ELSE "crashed"]
    /\ expires' = EmptyCache
    /\ policy' \in Policies
    /\ hup' = "wait"
    /\ locked' = FALSE /\ open' = TRUE
    /\ session' = session + 1 /\ bound' = session + 1
    /\ UNCHANGED <<clock, request, tool, rule, result, ran, auditVars>>

----------------------------------------------------------------------------
(* One action per step of runTool. *)
Goto(c, s) == step' = [step EXCEPT ![c] = s]

(* Leave the pipeline with outcome o, for the deferred audit.Complete. *)
Settle(c, o) ==
    /\ Goto(c, "complete")
    /\ result' = [result EXCEPT ![c] = o]

Dispatch(c) ==
    /\ step[c] = "new"
    /\ Goto(c, "dispatched")
    /\ tool' = [tool EXCEPT ![c] = bound]
    /\ UNCHANGED <<clock, request, lockVars, policy, hup, expires, rule, result, ran,
                   auditVars, crashes>>

CheckLock(c) ==
    /\ step[c] = "dispatched"
    /\ Goto(c, IF locked THEN "locked" ELSE "admitted")
    /\ UNCHANGED <<clock, request, lockVars, policy, hup, expires, tool, rule, result,
                   ran, auditVars, crashes>>

(* resolveLock: refused, or unlocked in time and looked up again.  Neither *)
(* leaves an audit row until the call is admitted.  The re-read of the     *)
(* flag and the lookup are one step: the registry changes only in Unlock,  *)
(* so a lock between the two is as good as one right after (RuntimeLock    *)
(* has them apart).                                                        *)
RefusedLocked(c) ==
    /\ step[c] = "locked"
    /\ Goto(c, "refused")
    /\ UNCHANGED <<clock, request, lockVars, policy, hup, expires, tool, rule, result,
                   ran, auditVars, crashes>>

Resume(c) ==
    /\ step[c] = "locked"
    /\ ~locked
    /\ Goto(c, "admitted")
    /\ tool' = [tool EXCEPT ![c] = bound]
    /\ UNCHANGED <<clock, request, lockVars, policy, hup, expires, rule, result, ran,
                   auditVars, crashes>>

(* audit.Begin; when the insert fails the call goes on without a row. *)
AuditBegin(c) ==
    /\ step[c] = "admitted"
    /\ Goto(c, "begun")
    /\ row' \in {[row EXCEPT ![c] = s] : s \in {"open", "absent"}}
    /\ UNCHANGED <<clock, request, lockVars, policy, hup, expires, tool, rule, result,
                   ran, recorded, crashes>>

(* Engine.Decide, written back to the row by an UPDATE whose failure is    *)
(* ignored.                                                                *)
Decide(c) ==
    /\ step[c] = "begun"
    /\ LET r == policy[request[c].tool] IN
       /\ rule' = [rule EXCEPT ![c] = r]
       /\ \/ /\ row[c] = "open"
             /\ recorded' = [recorded EXCEPT ![c] = r.decision]
          \/ UNCHANGED recorded
    /\ Goto(c, "decided")
    /\ UNCHANGED <<clock, request, lockVars, policy, hup, expires, tool, result, ran,
                   row, crashes>>

(* The rate limiter may deny any call (RateLimit models when). *)
RateDenied(c) ==
    /\ step[c] = "decided"
    /\ Settle(c, "denied")
    /\ UNCHANGED <<clock, request, lockVars, policy, hup, expires, tool, rule, ran,
                   auditVars, crashes>>

RecipientsOK(c) ==
    rule[c].restricted => request[c].args \in rule[c].allowed

(* The recipient allowlist, then the decision itself. *)
Judge(c) ==
    /\ step[c] = "decided"
    /\ IF ~RecipientsOK(c) \/ rule[c].decision = "deny"
       THEN Settle(c, "denied")
       ELSE /\ Goto(c, IF rule[c].decision = "prompt" THEN "asking" ELSE "handler")
            /\ UNCHANGED result
    /\ UNCHANGED <<clock, request, lockVars, policy, hup, expires, tool, rule, ran,
                   auditVars, crashes>>

(* PromptSnapshot fails: the call cannot be shown, so it is not run. *)
SnapshotFails(c) ==
    /\ step[c] = "asking"
    /\ Settle(c, "denied")
    /\ UNCHANGED <<clock, request, lockVars, policy, hup, expires, tool, rule, ran,
                   auditVars, crashes>>

(* cache.hit: an entry counts up to its expiry, and an expired one is      *)
(* deleted on the way.                                                     *)
Fresh(k) == expires[k] # Absent /\ clock <= expires[k]

Ask(c) ==
    /\ step[c] = "asking"
    /\ LET k == CacheKey(c) IN
       IF rule[c].ttl > 0
       THEN /\ Goto(c, IF Fresh(k) THEN "handler" ELSE "prompting")
            /\ expires' = IF Fresh(k) THEN expires
                          ELSE [expires EXCEPT ![k] = Absent]
       ELSE /\ Goto(c, "prompting")
            /\ UNCHANGED expires
    /\ UNCHANGED <<clock, request, lockVars, policy, hup, tool, rule, result, ran,
                   auditVars, crashes>>

(* The helper exits 0: the user touched the sensor. *)
Touch(c) ==
    /\ step[c] = "prompting"
    /\ Goto(c, IF rule[c].ttl > 0 THEN "approved" ELSE "handler")
    /\ UNCHANGED <<clock, request, lockVars, policy, hup, expires, tool, rule, result,
                   ran, auditVars, crashes>>

(* It exits otherwise, or is killed after helperTimeout. *)
Fault_NoHelperTimeout(c) == FALSE
PromptEnds(c) == step[c] = "prompting"

Declined(c) ==
    /\ PromptEnds(c)
    /\ Settle(c, "denied")
    /\ UNCHANGED <<clock, request, lockVars, policy, hup, expires, tool, rule, ran,
                   auditVars, crashes>>

(* cache.set, once the helper is back. *)
CacheApproval(c) ==
    /\ step[c] = "approved"
    /\ expires' = [expires EXCEPT ![CacheKey(c)] = clock + rule[c].ttl]
    /\ Goto(c, "handler")
    /\ UNCHANGED <<clock, request, lockVars, policy, hup, tool, rule, result, ran,
                   auditVars, crashes>>

(* The handler.  One that needs the session it was bound to before a lock  *)
(* finds it closed: it fails, or panics, which runTool recovers from.      *)
SessionUsable(c) == open /\ tool[c] = session

Run(c) ==
    /\ step[c] = "handler"
    /\ ran' = [ran EXCEPT ![c] = TRUE]
    /\ \E o \in {"ok", "error"} :
          /\ o = "ok" /\ request[c].tool \in SessionTools => SessionUsable(c)
          /\ Settle(c, o)
    /\ tool' = [tool EXCEPT ![c] = 0]
    /\ UNCHANGED <<clock, request, lockVars, policy, hup, expires, rule,
                   auditVars, crashes>>

(* The deferred audit.Complete writes the outcome; an UPDATE that fails    *)
(* leaves it NULL.                                                         *)
Fault_OutcomeNotFlipped(c) == "ok"
OutcomeOf(c) == result[c]

AuditComplete(c) ==
    /\ step[c] = "complete"
    /\ Goto(c, "done")
    /\ \/ /\ row[c] = "open"
          /\ row' = [row EXCEPT ![c] = OutcomeOf(c)]
       \/ UNCHANGED row
    /\ rule' = [rule EXCEPT ![c] = NoRule]
    /\ result' = [result EXCEPT ![c] = "error"]
    /\ UNCHANGED <<clock, request, lockVars, policy, hup, expires, tool, ran,
                   recorded, crashes>>

----------------------------------------------------------------------------
Pipeline(c) ==
    \/ CheckLock(c) \/ RefusedLocked(c) \/ AuditBegin(c)
    \/ Decide(c) \/ Judge(c) \/ Ask(c) \/ CacheApproval(c) \/ Run(c)
    \/ AuditComplete(c)

CallStep(c) ==
    \/ Dispatch(c) \/ Resume(c) \/ RateDenied(c) \/ SnapshotFails(c)
    \/ Touch(c) \/ Declined(c) \/ Pipeline(c)

Next ==
    \/ Tick \/ Lock \/ Unlock \/ Reload \/ Invalidate \/ Crash
    \/ \E c \in Calls : CallStep(c)

Spec == Init /\ [][Next]_vars

(* A call that started goes on, and its prompt ends: the helper is killed  *)
(* after 30s even when nobody touches the sensor.                          *)
Fairness ==
    /\ WF_vars(Invalidate)
    /\ \A c \in Calls : WF_vars(Pipeline(c)) /\ WF_vars(Declined(c))

FairSpec == Spec /\ Fairness

----------------------------------------------------------------------------
(* The audit log tells what happened: a row says denied only of a call     *)
(* whose handler never ran, ok or a second handler outcome only of one     *)
(* whose handler did, and never ok of a call policy denied; a handler that *)
(* ran without a finished row lost it to a failed write or a crash.        *)
AuditTellsWhatRan ==
    \A c \in Calls :
        /\ row[c] = "denied" => ~ran[c]
        /\ row[c] \in {"ok", "error"} => ran[c]
        /\ row[c] = "ok" => recorded[c] # "deny"
        /\ recorded[c] # "none" => row[c] # "absent"
        /\ recorded[c] = "deny" => ~ran[c]
        /\ step[c] = "refused" => row[c] = "absent" /\ ~ran[c]

(* Every call that enters the pipeline leaves it, whatever the user does:  *)
(* no call is stranded behind an approval prompt (helperTimeout), or else  *)
(* the daemon itself died.                                                 *)
CallCompletes ==
    \A c \in Calls : step[c] = "dispatched" ~> step[c] \in Over
=============================================================================
