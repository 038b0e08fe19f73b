--------------------------- MODULE ToolCallProofs ---------------------------
(***************************************************************************)
(* Proofs about the pipeline of a tool call: about ToolCall and the        *)
(* approvals MCToolCall records, for any calls, requests, policies,        *)
(* sessions and crashes, and about the rate limiter in the pipeline, which *)
(* RateLimit models on its own, for any limits, keys and failures.         *)
(***************************************************************************)
EXTENDS MCToolCall, RateLimit, TLAPS, FiniteSetTheorems, WellFoundedInduction

USE DEF Steps, Over, Outcomes, Decisions, Absent, Goto, Settle, CacheKey,
        lockVars, auditVars, callVars, dlVars

----------------------------------------------------------------------------
(* Types. *)

LEMMA NoRuleIsRule == NoRule \in ToolPolicies
  BY DEF NoRule, ToolPolicies

LEMMA RequestHasTool == \A r \in Requests : r.tool \in Tools
  BY PipelineAssumption

LEMMA PolicyGivesRule == \A p \in Policies, t \in Tools : p[t] \in ToolPolicies
  BY PipelineAssumption

LEMMA TypesInit == Init => TypeOK
<1> SUFFICES ASSUME Init PROVE TypeOK
  OBVIOUS
<1>1. rule \in [Calls -> ToolPolicies]
  BY NoRuleIsRule DEF Init
<1>2. DLTypeOK
  BY DEF Init, DLInit, DLTypeOK
<1>3. expires \in [Requests -> Nat] /\ clock \in Nat /\ crashes \in Nat
  BY DEF Init, EmptyCache
<1>4. /\ step \in [Calls -> Steps] /\ tool \in [Calls -> Nat]
      /\ result \in [Calls -> Outcomes] /\ ran \in [Calls -> BOOLEAN]
      /\ row \in [Calls -> Outcomes \cup {"absent", "open"}]
      /\ recorded \in [Calls -> Decisions \cup {"none"}]
  BY DEF Init
<1>5. request \in [Calls -> Requests] /\ policy \in Policies /\ hup \in {"wait", "invalidate"}
  BY DEF Init
<1> QED
  BY <1>1, <1>2, <1>3, <1>4, <1>5 DEF TypeOK

CallTypes ==
    /\ step \in [Calls -> Steps]
    /\ tool \in [Calls -> Nat]
    /\ rule \in [Calls -> ToolPolicies]
    /\ result \in [Calls -> Outcomes]
    /\ ran \in [Calls -> BOOLEAN]
    /\ row \in [Calls -> Outcomes \cup {"absent", "open"}]
    /\ recorded \in [Calls -> Decisions \cup {"none"}]

LEMMA CallTypesKept ==
  ASSUME TypeOK, NEW c \in Calls, CallStep(c) PROVE CallTypes'
<1>0. CallTypes /\ bound \in Nat /\ request[c] \in Requests /\ policy \in Policies
  BY DEF TypeOK, CallTypes, DLTypeOK
<1>1. CASE Dispatch(c)
  BY <1>0, <1>1 DEF Dispatch, CallTypes
<1>2. CASE CheckLock(c)
  BY <1>0, <1>2 DEF CheckLock, CallTypes
<1>3. CASE RefusedLocked(c)
  BY <1>0, <1>3 DEF RefusedLocked, CallTypes
<1>4. CASE Resume(c)
  BY <1>0, <1>4 DEF Resume, CallTypes
<1>5. CASE AuditBegin(c)
  BY <1>0, <1>5 DEF AuditBegin, CallTypes
<1>6. CASE Decide(c)
  <2>1. PICK r \in ToolPolicies : r = policy[request[c].tool]
    BY <1>0, RequestHasTool, PolicyGivesRule
  <2>2. r.decision \in Decisions
    BY DEF ToolPolicies
  <2> QED
    BY <1>0, <1>6, <2>1, <2>2 DEF Decide, CallTypes
<1>7. CASE RateDenied(c)
  BY <1>0, <1>7 DEF RateDenied, CallTypes
<1>8. CASE Judge(c)
  BY <1>0, <1>8 DEF Judge, CallTypes
<1>9. CASE SnapshotFails(c)
  BY <1>0, <1>9 DEF SnapshotFails, CallTypes
<1>10. CASE Ask(c)
  BY <1>0, <1>10 DEF Ask, CallTypes
<1>11. CASE Touch(c)
  BY <1>0, <1>11 DEF Touch, CallTypes
<1>12. CASE Declined(c)
  BY <1>0, <1>12 DEF Declined, PromptEnds, CallTypes
<1>13. CASE CacheApproval(c)
  BY <1>0, <1>13 DEF CacheApproval, CallTypes
<1>14. CASE Run(c)
  BY <1>0, <1>14 DEF Run, CallTypes
<1>15. CASE AuditComplete(c)
  <2>1. result[c] \in Outcomes /\ NoRule \in ToolPolicies
    BY <1>0, NoRuleIsRule DEF CallTypes
  <2> QED
    BY <1>0, <1>15, <2>1 DEF AuditComplete, OutcomeOf, CallTypes
<1> QED
  BY <1>1, <1>2, <1>3, <1>4, <1>5, <1>6, <1>7, <1>8, <1>9, <1>10, <1>11, <1>12, <1>13,
     <1>14, <1>15 DEF CallStep, Pipeline

LEMMA CallWorldKept ==
  ASSUME TypeOK, NEW c \in Calls, CallStep(c)
  PROVE  /\ UNCHANGED <<clock, request, locked, session, bound, open, policy, hup, crashes>>
         /\ expires' \in [Requests -> Nat]
<1>0. /\ expires \in [Requests -> Nat] /\ clock \in Nat /\ request[c] \in Requests
      /\ rule[c] \in ToolPolicies
  BY DEF TypeOK
<1>1. UNCHANGED <<clock, request, locked, session, bound, open, policy, hup, crashes>>
  BY DEF CallStep, Pipeline, Dispatch, CheckLock, RefusedLocked, Resume, AuditBegin, Decide,
     RateDenied, Judge, SnapshotFails, Ask, Touch, Declined, CacheApproval, Run, AuditComplete
<1>2. CASE CacheApproval(c)
  <2>1. clock + rule[c].ttl \in Nat
    BY <1>0 DEF ToolPolicies
  <2> QED
    BY <1>0, <1>1, <1>2, <2>1 DEF CacheApproval
<1>3. CASE Ask(c)
  BY <1>0, <1>1, <1>3 DEF Ask
<1>4. CASE expires' = expires
  BY <1>0, <1>1, <1>4
<1> QED
  BY <1>2, <1>3, <1>4 DEF CallStep, Pipeline, Dispatch, CheckLock, RefusedLocked, Resume,
     AuditBegin, Decide, RateDenied, Judge, SnapshotFails, Touch, Declined, Run, AuditComplete

LEMMA TypesStep == ASSUME TypeOK, [Next]_vars PROVE TypeOK'
<1>0. EmptyCache \in [Requests -> Nat]
  BY DEF EmptyCache
<1>1. CASE Tick
  BY <1>1 DEF Tick, TypeOK, DLTypeOK
<1>2. CASE Lock
  BY <1>0, <1>2 DEF Lock, DLLock, Purged, TypeOK, DLTypeOK
<1>3. CASE Unlock
  BY <1>3 DEF Unlock, DLUnlock, TypeOK, DLTypeOK
<1>4. CASE Reload
  BY <1>4 DEF Reload, TypeOK, DLTypeOK
<1>5. CASE Invalidate
  BY <1>0, <1>5 DEF Invalidate, Purged, TypeOK, DLTypeOK
<1>6. CASE Crash
  <2>1. step' \in [Calls -> Steps]
    BY <1>6 DEF Crash, TypeOK
  <2>2. DLTypeOK' /\ crashes' \in Nat
    <3>1. session \in Nat /\ crashes \in Nat
      BY DEF TypeOK, DLTypeOK
    <3>2. /\ locked' = FALSE /\ open' = TRUE
          /\ session' = session + 1 /\ bound' = session + 1 /\ crashes' = crashes + 1
      BY <1>6 DEF Crash
    <3>3. session' \in Nat /\ bound' \in Nat /\ crashes' \in Nat
      BY <3>1, <3>2
    <3>4. locked' \in BOOLEAN /\ open' \in BOOLEAN
      BY <3>2
    <3> QED
      BY <3>3, <3>4 DEF DLTypeOK
  <2>3. expires' \in [Requests -> Nat] /\ policy' \in Policies /\ hup' = "wait"
    BY <1>0, <1>6 DEF Crash
  <2>4. UNCHANGED <<clock, request, tool, rule, result, ran, row, recorded>>
    BY <1>6 DEF Crash
  <2> QED
    BY <2>1, <2>2, <2>3, <2>4 DEF TypeOK
<1>7. ASSUME NEW c \in Calls, CallStep(c) PROVE TypeOK'
  BY <1>7, CallTypesKept, CallWorldKept DEF TypeOK, CallTypes, DLTypeOK
<1>8. CASE UNCHANGED vars
  BY <1>8 DEF vars, TypeOK, DLTypeOK
<1> QED
  BY <1>1, <1>2, <1>3, <1>4, <1>5, <1>6, <1>7, <1>8 DEF Next

(* Every variable keeps its type.                                          *)
THEOREM PipelineTypes == Spec => []TypeOK
  BY TypesInit, TypesStep, PTL DEF Spec

----------------------------------------------------------------------------
(* What a call carries from step to step, for the audit row. *)

Decided == {"decided", "asking", "prompting", "approved", "handler", "complete"}

CallAudit(c) ==
    (* The row is written at the start and closed at the end. *)
    /\ step[c] \in {"new", "dispatched", "locked", "admitted", "refused"} => row[c] = "absent"
    /\ step[c] # "done" => row[c] \in {"absent", "open"}
    /\ row[c] \in {"ok", "error"} => ran[c]
    /\ row[c] = "denied" => ~ ran[c]
    (* What it records is the rule the call goes by. *)
    /\ recorded[c] # "none" => row[c] # "absent"
    /\ step[c] \in Decided => recorded[c] \in {"none", rule[c].decision}
    /\ step[c] \notin Decided \cup {"done", "crashed"} => recorded[c] = "none"
    /\ recorded[c] = "deny" => ~ ran[c]
    (* No call that was denied runs. *)
    /\ ran[c] => step[c] \in {"complete", "done", "crashed"}
    /\ step[c] \in {"asking", "prompting", "approved", "handler"} => rule[c].decision # "deny"
    /\ step[c] = "complete" => (ran[c] <=> result[c] # "denied")

AuditInv == \A c \in Calls : CallAudit(c)

LEMMA OtherCallsKeep ==
  ASSUME TypeOK, NEW c \in Calls, CallStep(c)
  PROVE  \A d \in Calls : d # c =>
           /\ step'[d] = step[d] /\ rule'[d] = rule[d] /\ result'[d] = result[d]
           /\ ran'[d] = ran[d] /\ row'[d] = row[d] /\ recorded'[d] = recorded[d]
<1>0. CallTypes
  BY DEF TypeOK, CallTypes
<1> QED
  BY <1>0 DEF CallTypes, CallStep, Pipeline, Dispatch, CheckLock, RefusedLocked, Resume,
     AuditBegin, Decide, RateDenied, Judge, SnapshotFails, Ask, Touch, Declined, PromptEnds,
     CacheApproval, Run, AuditComplete

LEMMA CallAuditKept ==
  ASSUME TypeOK, NEW c \in Calls, CallStep(c), CallAudit(c) PROVE CallAudit(c)'
<1>0. CallTypes /\ ran[c] \in BOOLEAN /\ request[c] \in Requests /\ policy \in Policies
  BY DEF TypeOK, CallTypes
<1> USE DEF Decided
<1>1. CASE Dispatch(c)
  BY <1>0, <1>1 DEF Dispatch, CallTypes, CallAudit
<1>2. CASE CheckLock(c)
  BY <1>0, <1>2 DEF CheckLock, CallTypes, CallAudit
<1>3. CASE RefusedLocked(c)
  BY <1>0, <1>3 DEF RefusedLocked, CallTypes, CallAudit
<1>4. CASE Resume(c)
  BY <1>0, <1>4 DEF Resume, CallTypes, CallAudit
<1>5. CASE AuditBegin(c)
  BY <1>0, <1>5 DEF AuditBegin, CallTypes, CallAudit
<1>6. CASE Decide(c)
  BY <1>0, <1>6 DEF Decide, CallTypes, CallAudit
<1>7. CASE RateDenied(c)
  BY <1>0, <1>7 DEF RateDenied, CallTypes, CallAudit
<1>8. CASE Judge(c)
  BY <1>0, <1>8 DEF Judge, CallTypes, CallAudit
<1>9. CASE SnapshotFails(c)
  BY <1>0, <1>9 DEF SnapshotFails, CallTypes, CallAudit
<1>10. CASE Ask(c)
  BY <1>0, <1>10 DEF Ask, CallTypes, CallAudit
<1>11. CASE Touch(c)
  BY <1>0, <1>11 DEF Touch, CallTypes, CallAudit
<1>12. CASE Declined(c)
  BY <1>0, <1>12 DEF Declined, PromptEnds, CallTypes, CallAudit
<1>13. CASE CacheApproval(c)
  BY <1>0, <1>13 DEF CacheApproval, CallTypes, CallAudit
<1>14. CASE Run(c)
  BY <1>0, <1>14 DEF Run, CallTypes, CallAudit
<1>15. CASE AuditComplete(c)
  BY <1>0, <1>15 DEF AuditComplete, OutcomeOf, CallTypes, CallAudit
<1> QED
  BY <1>1, <1>2, <1>3, <1>4, <1>5, <1>6, <1>7, <1>8, <1>9, <1>10, <1>11, <1>12, <1>13,
     <1>14, <1>15 DEF CallStep, Pipeline

LEMMA AuditStep == ASSUME TypeOK, AuditInv, [Next]_vars PROVE AuditInv'
<1>1. CASE UNCHANGED <<callVars, auditVars>>
  BY <1>1 DEF AuditInv, CallAudit, Decided
<1>2. CASE Crash
  <2>1. UNCHANGED <<rule, result, ran, row, recorded>>
    BY <1>2 DEF Crash
  <2>2. \A c \in Calls : step'[c] = step[c] \/ (step'[c] = "crashed" /\ step[c] \notin Over)
    <3>1. step' = [c \in Calls |->
                     IF step[c] \in Over \cup {"new"} THEN step[c] ELSE "crashed"]
      BY <1>2 DEF Crash
    <3> SUFFICES ASSUME NEW c \in Calls
                 PROVE  step'[c] = step[c] \/ (step'[c] = "crashed" /\ step[c] \notin Over)
      OBVIOUS
    <3>2. step'[c] = IF step[c] \in Over \cup {"new"} THEN step[c] ELSE "crashed"
      BY <3>1
    <3> QED
      BY <3>2
  <2> QED
    BY <2>1, <2>2 DEF AuditInv, CallAudit, Decided
<1>3. ASSUME NEW c \in Calls, CallStep(c) PROVE AuditInv'
  <2>1. CallAudit(c)'
    BY <1>3, CallAuditKept DEF AuditInv
  <2>2. ASSUME NEW d \in Calls, d # c PROVE CallAudit(d)'
    BY <1>3, <2>2, OtherCallsKeep DEF AuditInv, CallAudit
  <2> QED
    BY <2>1, <2>2 DEF AuditInv
<1> QED
  BY <1>1, <1>2, <1>3 DEF Next, Tick, Lock, Unlock, Reload, Invalidate, vars

LEMMA AuditInvariant == Spec => [](TypeOK /\ AuditInv)
<1>1. Init => AuditInv
  BY DEF Init, AuditInv, CallAudit, Decided
<1> QED
  BY <1>1, TypesInit, TypesStep, AuditStep, PTL DEF Spec

(* A row says denied only of a call whose handler never ran, ok or error   *)
(* only of one whose handler did, and never ok of a call the policy denied *)
(* (middleware.go, audit.Begin to audit.Complete).                         *)
THEOREM AuditIsTrue == Spec => []AuditTellsWhatRan
<1>1. TypeOK /\ AuditInv => AuditTellsWhatRan
  BY DEF TypeOK, AuditInv, CallAudit, Decided, AuditTellsWhatRan
<1> QED
  BY <1>1, AuditInvariant, PTL

----------------------------------------------------------------------------
(* Approvals.  grants holds what a person's touch allows; the cache never  *)
(* allows more.                                                            *)

(* From the judgement to the prompt's end the rule asks for a prompt and   *)
(* accepts the recipients.                                                 *)
Judged(c) ==
    step[c] \in {"asking", "prompting", "approved"} =>
        rule[c].decision = "prompt" /\ RecipientsOK(c)

CacheInv == \A k \in Requests : Fresh(k) => grants[k] = expires[k]

GrantInv ==
    /\ TypeOK
    /\ \A c \in Calls : Judged(c)
    /\ CacheInv

Authorized(c) ==
    step[c] # "handler" /\ step'[c] = "handler" =>
        /\ rule[c].restricted => request[c].args \in rule[c].allowed
        /\ \/ rule[c].decision = "allow"
           \/ /\ rule[c].decision = "prompt"
              /\ \/ step[c] \in {"prompting", "approved"}
                 \/ grants[request[c]] # Absent

(* How one call's step changes the cache. *)
LEMMA CallAndCache ==
  ASSUME TypeOK, NEW c \in Calls, CallStep(c)
  PROVE  /\ \A d \in Calls : d # c => step'[d] = step[d]
         /\ Caches(c) => expires' = [expires EXCEPT ![request[c]] = clock + rule[c].ttl]
         /\ ~ Caches(c) => \A k \in Requests : expires'[k] \in {expires[k], Absent}
<1>0. /\ step \in [Calls -> Steps] /\ expires \in [Requests -> Nat]
      /\ request[c] \in Requests
  BY DEF TypeOK
<1>1. CASE CacheApproval(c)
  BY <1>0, <1>1 DEF CacheApproval, Caches
<1>2. CASE Ask(c)
  BY <1>0, <1>2 DEF Ask, Caches
<1>3. CASE ~ CacheApproval(c) /\ ~ Ask(c)
  <2>1. expires' = expires /\ step[c] # "approved"
    BY <1>3 DEF CallStep, Pipeline, Dispatch, CheckLock, RefusedLocked, Resume,
       AuditBegin, Decide, RateDenied, Judge, SnapshotFails, Touch, Declined, PromptEnds, Run,
       AuditComplete
  <2> QED
    BY <2>1, OtherCallsKeep DEF Caches
<1>4. \A d \in Calls : d # c => step'[d] = step[d]
  BY OtherCallsKeep
<1> QED
  BY <1>1, <1>2, <1>3, <1>4

LEMMA GrantsOfCall ==
  ASSUME GrantInv, Record, NEW c \in Calls, CallStep(c) PROVE CacheInv'
<1>0. /\ TypeOK /\ CacheInv /\ request[c] \in Requests /\ expires \in [Requests -> Nat]
      /\ clock \in Nat
  BY DEF GrantInv, TypeOK
<1>1. /\ UNCHANGED <<clock, request, locked, hup, crashes>>
      /\ expires' \in [Requests -> Nat]
  BY <1>0, CallWorldKept
<1>2. ~ Revoked
  BY <1>1 DEF Revoked
<1>3. \A d \in Calls : Caches(d) => d = c
  BY <1>0, CallAndCache DEF Caches
<1> SUFFICES ASSUME NEW k \in Requests, Fresh(k)' PROVE grants'[k] = expires'[k]
  BY DEF CacheInv
<1>4. grants'[k] =
        IF \E d \in Calls : Caches(d) /\ request[d] = k
        THEN clock + rule[CHOOSE d \in Calls : Caches(d)].ttl
        ELSE IF clock' > grants[k] THEN Absent ELSE grants[k]
  BY <1>2 DEF Record
<1>5. CASE Caches(c) /\ request[c] = k
  <2>1. (CHOOSE d \in Calls : Caches(d)) = c
    BY <1>3, <1>5
  <2>2. expires'[k] = clock + rule[c].ttl
    BY <1>0, <1>5, CallAndCache
  <2> QED
    BY <1>4, <1>5, <2>1, <2>2
<1>6. CASE ~ (Caches(c) /\ request[c] = k)
  <2>1. expires'[k] \in {expires[k], Absent}
    BY <1>0, <1>6, CallAndCache
  <2>2. expires'[k] = expires[k] /\ Fresh(k)
    BY <2>1, <1>1 DEF Fresh
  <2>3. grants[k] = expires[k] /\ clock <= expires[k]
    BY <2>2, <1>0 DEF CacheInv, Fresh
  <2>4. ~ \E d \in Calls : Caches(d) /\ request[d] = k
    BY <1>3, <1>6
  <2> QED
    BY <1>0, <1>1, <1>4, <2>2, <2>3, <2>4
<1> QED
  BY <1>5, <1>6

LEMMA JudgedKept ==
  ASSUME TypeOK, NEW c \in Calls, CallStep(c), \A d \in Calls : Judged(d)
  PROVE  /\ \A d \in Calls : Judged(d)'
         /\ CacheInv => Authorized(c)
<1>0. /\ step \in [Calls -> Steps] /\ rule \in [Calls -> ToolPolicies] /\ request[c] \in Requests
      /\ UNCHANGED request
  BY CallWorldKept DEF TypeOK
<1>1. ASSUME NEW d \in Calls, d # c PROVE Judged(d)'
  BY <1>0, <1>1, OtherCallsKeep DEF Judged, RecipientsOK
<1>2. Judged(c)' /\ (CacheInv => Authorized(c))
  <2>0. rule[c].decision \in Decisions
    BY <1>0 DEF ToolPolicies
  <2>1. CASE Judge(c)
    BY <1>0, <2>0, <2>1 DEF Judge, Judged, RecipientsOK, Authorized
  <2>2. CASE Ask(c)
    BY <1>0, <2>2 DEF Ask, Judged, RecipientsOK, Authorized, CacheInv, Fresh
  <2>3. CASE Touch(c) \/ CacheApproval(c)
    BY <1>0, <2>3 DEF Touch, CacheApproval, Judged, RecipientsOK, Authorized
  <2>4. CASE Decide(c)
    BY <1>0, <2>4 DEF Decide, Judged, Authorized
  <2>5. CASE ~ (Judge(c) \/ Ask(c) \/ Touch(c) \/ CacheApproval(c) \/ Decide(c))
    <3>1. step'[c] \notin {"asking", "prompting", "approved", "handler"}
      BY <1>0, <2>5 DEF CallStep, Pipeline, Dispatch, CheckLock, RefusedLocked, Resume,
         AuditBegin, RateDenied, SnapshotFails, Declined, PromptEnds, Run, AuditComplete
    <3> QED
      BY <3>1 DEF Judged, Authorized
  <2> QED
    BY <2>1, <2>2, <2>3, <2>4, <2>5
<1> QED
  BY <1>1, <1>2

LEMMA GrantStep ==
  ASSUME GrantInv, [HNext]_hvars PROVE GrantInv' /\ \A c \in Calls : Authorized(c)
<1>0. TypeOK /\ (\A c \in Calls : Judged(c)) /\ CacheInv
      /\ expires \in [Requests -> Nat] /\ clock \in Nat
  BY DEF GrantInv, TypeOK
<1>1. TypeOK'
  BY <1>0, TypesStep DEF HNext, hvars
<1>2. CASE UNCHANGED hvars
  BY <1>0, <1>1, <1>2
     DEF hvars, vars, GrantInv, Judged, RecipientsOK, CacheInv, Fresh, Authorized
<1>3. ASSUME Next, Record, UNCHANGED <<step, rule, request>>
      PROVE  (\A c \in Calls : Judged(c)') /\ \A c \in Calls : Authorized(c)
  BY <1>0, <1>3 DEF Judged, RecipientsOK, Authorized
<1>4. ASSUME Next, Record, expires' = EmptyCache PROVE CacheInv'
  BY <1>4 DEF CacheInv, Fresh, EmptyCache
<1>5. ASSUME Record, Tick PROVE CacheInv'
  <2>1. UNCHANGED <<locked, hup, crashes, step, expires>> /\ clock' = clock + 1
    BY <1>5 DEF Tick
  <2>2. ~ Revoked /\ \A c \in Calls : ~ Caches(c)
    BY <2>1 DEF Revoked, Caches
  <2> SUFFICES ASSUME NEW k \in Requests, Fresh(k)' PROVE grants'[k] = expires'[k]
    BY DEF CacheInv
  <2>3. grants'[k] = IF clock' > grants[k] THEN Absent ELSE grants[k]
    BY <1>5, <2>2 DEF Record
  <2>4. Fresh(k) /\ expires[k] \in Nat /\ clock' <= expires[k]
    BY <1>0, <2>1 DEF Fresh
  <2> QED
    BY <1>0, <2>1, <2>3, <2>4 DEF CacheInv
<1>6. ASSUME Record, Unlock \/ Reload PROVE CacheInv'
  <2>1. /\ UNCHANGED <<clock, crashes, step, expires>>
        /\ ~ (~locked /\ locked') /\ ~ (hup = "invalidate" /\ hup' = "wait")
    BY <1>6 DEF Unlock, DLUnlock, Reload
  <2>2. ~ Revoked /\ \A c \in Calls : ~ Caches(c)
    BY <2>1 DEF Revoked, Caches
  <2> SUFFICES ASSUME NEW k \in Requests, Fresh(k)' PROVE grants'[k] = expires'[k]
    BY DEF CacheInv
  <2>3. grants'[k] = IF clock' > grants[k] THEN Absent ELSE grants[k]
    BY <1>6, <2>2 DEF Record
  <2>4. Fresh(k) /\ expires[k] \in Nat /\ clock' <= expires[k]
    BY <1>0, <2>1 DEF Fresh
  <2> QED
    BY <1>0, <2>1, <2>3, <2>4 DEF CacheInv
<1>7. CASE HNext /\ (Tick \/ Lock \/ Unlock \/ Reload \/ Invalidate)
  <2>1. UNCHANGED <<step, rule, request>>
    BY <1>7 DEF Tick, Lock, Unlock, Reload, Invalidate
  <2>2. CacheInv'
    <3>1. Next /\ Record
      BY <1>7 DEF HNext
    <3>2. CASE Lock \/ Invalidate
      BY <3>1, <3>2, <1>4 DEF Lock, Invalidate, Purged
    <3> QED
      BY <3>1, <3>2, <1>5, <1>6, <1>7
  <2> QED
    BY <1>1, <1>3, <1>7, <2>1, <2>2 DEF GrantInv, HNext
<1>8. CASE HNext /\ Crash
  <2>1. expires' = EmptyCache /\ UNCHANGED <<rule, request>>
    BY <1>8 DEF Crash
  <2>2. step' = [c \in Calls |->
                   IF step[c] \in Over \cup {"new"} THEN step[c] ELSE "crashed"]
    BY <1>8 DEF Crash
  <2>3. \A c \in Calls : step'[c] \notin {"asking", "prompting", "approved", "handler"}
    BY <2>2
  <2> QED
    BY <1>1, <1>4, <1>8, <2>1, <2>3 DEF GrantInv, HNext, Judged, Authorized
<1>9. ASSUME HNext, NEW c \in Calls, CallStep(c)
      PROVE  GrantInv' /\ \A d \in Calls : Authorized(d)
  <2>1. CacheInv'
    BY <1>9, GrantsOfCall DEF HNext
  <2>2. (\A d \in Calls : Judged(d)') /\ Authorized(c)
    BY <1>0, <1>9, JudgedKept
  <2>3. \A d \in Calls : d # c => Authorized(d)
    BY <1>0, <1>9, OtherCallsKeep DEF Authorized
  <2> QED
    BY <1>1, <2>1, <2>2, <2>3 DEF GrantInv
<1> QED
  BY <1>2, <1>7, <1>8, <1>9 DEF HNext, Next

(* No handler starts unless its rule allows the call, or a person touched  *)
(* the sensor for it or for one with the same tool, process and arguments, *)
(* and no lock, reload, restart or expiry came between (broker.go).        *)
THEOREM OnlyAuthorizedRuns == HSpec => RunsOnlyAuthorized
<1>1. HInit => GrantInv
  <2> SUFFICES ASSUME HInit PROVE GrantInv
    OBVIOUS
  <2>1. TypeOK
    BY TypesInit DEF HInit
  <2>2. (\A c \in Calls : Judged(c)) /\ CacheInv
    BY DEF HInit, Init, Judged, CacheInv, Fresh, EmptyCache
  <2> QED
    BY <2>1, <2>2 DEF GrantInv
<1>2. GrantInv /\ [HNext]_hvars =>
        [\A c \in Calls :
            step[c] # "handler" /\ step'[c] = "handler" =>
            /\ rule[c].restricted => request[c].args \in rule[c].allowed
            /\ \/ rule[c].decision = "allow"
               \/ /\ rule[c].decision = "prompt"
                  /\ \/ step[c] \in {"prompting", "approved"}
                     \/ grants[request[c]] # Absent]_hvars
  BY GrantStep DEF Authorized
<1>3. GrantInv /\ [HNext]_hvars => GrantInv'
  BY GrantStep
<1> QED
  BY <1>1, <1>2, <1>3, PTL DEF HSpec, RunsOnlyAuthorized

----------------------------------------------------------------------------
(* The rate limiter (RateLimit), which RateDenied stands for.              *)

(* A nonempty finite set of numbers has a greatest one: the numbers from   *)
(* it on are the smallest of the sets {n \in S : n >= m}.                  *)
LEMMA FiniteSetHasGreatest ==
  ASSUME NEW S, IsFiniteSet(S), S \subseteq Nat, S # {}
  PROVE  \E m \in S : \A n \in S : n <= m
<1> DEFINE From(m) == {n \in S : n >= m}
           Tails == {From(m) : m \in S}
<1>1. Tails \subseteq FiniteSubsetsOf(S) /\ Tails # {}
  <2>1. \A m \in S : From(m) \subseteq S /\ IsFiniteSet(From(m))
    BY FS_Subset
  <2> QED
    BY <2>1 DEF FiniteSubsetsOf
<1>2. IsWellFoundedOn(StrictSubsetOrdering(S), FiniteSubsetsOf(S))
  BY FS_StrictSubsetOrderingWellFounded
<1> HIDE DEF Tails
<1>3. PICK s \in Tails : \A t \in Tails : ~ (<<t, s>> \in StrictSubsetOrdering(S))
  BY <1>1, <1>2, WFMin, Zenon
<1> USE DEF Tails
<1>4. PICK m \in S : s = From(m)
  BY <1>3
<1>5. ASSUME NEW n \in S, n > m PROVE FALSE
  <2>1. n \in Nat /\ m \in Nat /\ \A x \in S : x \in Nat
    OBVIOUS
  <2>2. \A x \in S : x >= n => x >= m
    BY <1>5, <2>1
  <2>3. From(n) \subseteq From(m) /\ From(n) \subseteq S /\ From(m) \subseteq S
    BY <2>2
  <2>4. m \in From(m) /\ m \notin From(n)
    BY <1>5, <2>1
  <2>5. From(n) \in Tails
    OBVIOUS
  <2>6. <<From(n), s>> \in StrictSubsetOrdering(S)
    BY <1>4, <2>3, <2>4 DEF StrictSubsetOrdering
  <2> QED
    BY <1>3, <2>5, <2>6
<1> QED
  BY <1>4, <1>5

LEMMA LimitTypes ==
  ASSUME NEW l \in Limits
  PROVE  Capacity(l) \in Nat /\ Capacity(l) >= One /\ Rate(l) \in Nat
<1>1. One \in Nat /\ One > 0 /\ l.capacity \in Nat /\ l.capacity > 0
      /\ l.unit \in {1, 60, 3600, 86400} /\ Sec \in Nat /\ Sec > 0
  BY RateLimitAssumption
<1>2. l.capacity * One \in Nat /\ l.capacity * One >= One
  BY <1>1
<1>3. l.unit * Sec \in Nat /\ l.unit * Sec > 0
  BY <1>1
<1>4. \A a, b \in Nat : b > 0 => a \div b \in Nat
  OBVIOUS
<1> QED
  BY <1>2, <1>3, <1>4 DEF Capacity, Rate

(* MaxCapacity and MaxRate are what their names say. *)
LEMMA GreatestLimits ==
  /\ MaxCapacity \in Nat /\ MaxRate \in Nat
  /\ \A l \in Limits : Capacity(l) <= MaxCapacity /\ Rate(l) <= MaxRate
<1>1. /\ IsFiniteSet({Capacity(l) : l \in Limits})
      /\ IsFiniteSet({Rate(l) : l \in Limits})
  <2>1. IsFiniteSet(Limits)
    BY RateLimitAssumption
  <2>2. [l \in Limits |-> Capacity(l)]
           \in Surjection(Limits, {Capacity(l) : l \in Limits})
    BY DEF Surjection
  <2>3. [l \in Limits |-> Rate(l)]
           \in Surjection(Limits, {Rate(l) : l \in Limits})
    BY DEF Surjection
  <2>4. IsFiniteSet({Capacity(l) : l \in Limits})
    BY <2>1, <2>2, FS_Surjection
  <2> QED
    BY <2>1, <2>3, <2>4, FS_Surjection
<1>2. PICK m \in {Capacity(l) : l \in Limits} : \A l \in Limits : Capacity(l) <= m
  <2>1. {Capacity(l) : l \in Limits} \subseteq Nat /\ {Capacity(l) : l \in Limits} # {}
    BY LimitTypes, RateLimitAssumption
  <2> QED
    BY <1>1, <2>1, FiniteSetHasGreatest
<1>3. PICK n \in {Rate(l) : l \in Limits} : \A l \in Limits : Rate(l) <= n
  <2>1. {Rate(l) : l \in Limits} \subseteq Nat /\ {Rate(l) : l \in Limits} # {}
    BY LimitTypes, RateLimitAssumption
  <2> QED
    BY <1>1, <2>1, FiniteSetHasGreatest
<1>4. /\ MaxCapacity \in {Capacity(l) : l \in Limits}
      /\ \A l \in Limits : Capacity(l) <= MaxCapacity
  BY <1>2 DEF MaxCapacity
<1>5. /\ MaxRate \in {Rate(l) : l \in Limits}
      /\ \A l \in Limits : Rate(l) <= MaxRate
  BY <1>3 DEF MaxRate
<1> QED
  BY <1>4, <1>5, LimitTypes

(* A time in whole seconds is at most a second early. *)
LEMMA SecondsRoundDown ==
  ASSUME NEW t \in Nat
  PROVE  Seconds(t) \in Nat /\ Seconds(t) <= t /\ t <= Seconds(t) + (Sec - 1)
<1>1. Sec \in Nat /\ Sec > 0
  BY RateLimitAssumption
<1>2. /\ t \div Sec \in Nat /\ t % Sec \in 0 .. (Sec - 1)
      /\ t = Sec * (t \div Sec) + (t % Sec)
  BY <1>1
<1>3. Seconds(t) = Sec * (t \div Sec) /\ Seconds(t) \in Nat
  BY <1>1, <1>2 DEF Seconds
<1> QED
  BY <1>1, <1>2, <1>3

(* What the limiter computes: a refill adds no more than the fastest limit *)
(* does, no bucket exceeds the largest, and a new one grants the call.     *)
LEMMA RefillIsBounded ==
  ASSUME RLTypeOK, NEW k \in Keys, configured # Unlimited, lastRefill[k] <= now
  PROVE  /\ Refilled(k) \in Nat /\ Refilled(k) <= MaxCapacity
         /\ HasBucket(k) =>
              Refilled(k) <= tokens[k] + MaxRate * (now - lastRefill[k])
         /\ ~HasBucket(k) => Refilled(k) >= One
<1>1. configured \in Limits /\ LimitNow(k) = configured
  BY DEF RLTypeOK, LimitNow
<1> DEFINE cap == Capacity(configured)
           rate == Rate(configured)
           gap == Elapsed(k)
<1>2. /\ cap \in Nat /\ cap >= One /\ cap <= MaxCapacity
      /\ rate \in Nat /\ rate <= MaxRate /\ MaxRate \in Nat /\ MaxCapacity \in Nat
  BY <1>1, LimitTypes, GreatestLimits
<1>3. now \in Nat /\ lastRefill[k] \in Nat /\ tokens[k] \in Nat
  BY DEF RLTypeOK
<1>4. gap \in Nat /\ (HasBucket(k) => gap = now - lastRefill[k])
  BY <1>3 DEF Elapsed
<1>5. Carried(k) \in Nat /\ (HasBucket(k) => Carried(k) <= tokens[k])
      /\ (~HasBucket(k) => Carried(k) = cap)
  BY <1>2, <1>3 DEF Carried, Least
<1> HIDE DEF cap, rate, gap
<1>6. gap * rate \in Nat /\ gap * rate <= MaxRate * gap
  BY <1>2, <1>4
<1>7. Refilled(k) = Least(Carried(k) + gap * rate, cap)
  BY <1>1 DEF Refilled, cap, rate, gap
<1>8. /\ Refilled(k) \in Nat /\ Refilled(k) <= cap
      /\ Refilled(k) <= Carried(k) + gap * rate
      /\ Carried(k) = cap => Refilled(k) = cap
  BY <1>2, <1>5, <1>6, <1>7 DEF Least
<1>9. HasBucket(k) => Refilled(k) <= tokens[k] + MaxRate * (now - lastRefill[k])
  <2> SUFFICES ASSUME HasBucket(k)
               PROVE  Refilled(k) <= tokens[k] + MaxRate * (now - lastRefill[k])
    OBVIOUS
  <2>1. MaxRate * gap = MaxRate * (now - lastRefill[k]) /\ MaxRate * gap \in Nat
    BY <1>2, <1>4
  <2>2. Carried(k) <= tokens[k]
    BY <1>5
  <2> HIDE DEF HasBucket
  <2> QED
    BY <1>3, <1>5, <1>6, <1>8, <2>1, <2>2
<1>10. One \in Nat
  BY RateLimitAssumption
<1> QED
  BY <1>2, <1>5, <1>8, <1>9, <1>10

(* The inductive invariant of the budget, key by key.  What a key was      *)
(* granted and what its bucket still holds is paid for by its credit (a    *)
(* bucket, one more per restart that forgot it, what rounding and failed   *)
(* Saves gave back) and by the refill since its first call; the saved row  *)
(* obeys the same bound, so that a restart from it does.                   *)
Credit(k) ==
    (1 + forgotten) * MaxCapacity + MaxRate * (Sec - 1) * restarts + One * unsaved[k]

Paid(k) == One * spent[k] + MaxRate * first[k]

PastTimes(k) == first[k] <= now /\ lastRefill[k] <= now /\ savedRefill[k] <= now

EmptyLedger(k) ==
    /\ HasBucket(k) \/ savedLimit[k] # Unlimited => spent[k] > 0
    /\ savedLimit[k] = Unlimited => spent[k] <= unsaved[k]

LiveBudget(k) ==
    IF HasBucket(k)
    THEN tokens[k] + Paid(k) <= Credit(k) + MaxRate * lastRefill[k]
    ELSE MaxCapacity + Paid(k) <= Credit(k) + MaxRate * now

SavedBudget(k) ==
    savedLimit[k] # Unlimited =>
        savedTokens[k] + Paid(k) <= Credit(k) + MaxRate * (savedRefill[k] + (Sec - 1))

BudgetInv ==
    /\ RLTypeOK
    /\ \A k \in Keys :
        PastTimes(k) /\ EmptyLedger(k) /\ LiveBudget(k) /\ SavedBudget(k)


LEMMA InitBudget == RLInit => BudgetInv
<1> SUFFICES ASSUME RLInit PROVE BudgetInv
  OBVIOUS
<1>1. RLTypeOK
  BY DEF RLInit, RLTypeOK, Zero, NoBuckets
<1>2. ASSUME NEW k \in Keys PROVE PastTimes(k) /\ EmptyLedger(k) /\ SavedBudget(k)
  BY DEF RLInit, Zero, NoBuckets, PastTimes, EmptyLedger, SavedBudget, HasBucket
<1>3. ASSUME NEW k \in Keys PROVE LiveBudget(k)
  <2>1. One \in Nat /\ Sec \in Nat /\ MaxCapacity \in Nat /\ MaxRate \in Nat
    BY RateLimitAssumption, GreatestLimits
  <2>2. /\ ~HasBucket(k) /\ now = 0 /\ first[k] = 0 /\ spent[k] = 0
        /\ unsaved[k] = 0 /\ forgotten = 0 /\ restarts = 0
    BY DEF RLInit, Zero, NoBuckets, HasBucket
  <2> QED
    BY <2>1, <2>2 DEF LiveBudget, Credit, Paid
<1> QED
  BY <1>1, <1>2, <1>3 DEF BudgetInv

(* The numbers of a key, and the products they are weighed with. *)
LEMMA BudgetNumbers ==
  ASSUME RLTypeOK, NEW k \in Keys
  PROVE  /\ One \in Nat /\ Sec \in Nat /\ Sec > 0
         /\ MaxCapacity \in Nat /\ MaxRate \in Nat
         /\ now \in Nat /\ restarts \in Nat /\ forgotten \in Nat
         /\ tokens[k] \in Nat /\ lastRefill[k] \in Nat
         /\ savedTokens[k] \in Nat /\ savedRefill[k] \in Nat
         /\ first[k] \in Nat /\ spent[k] \in Nat /\ unsaved[k] \in Nat
  BY RateLimitAssumption, GreatestLimits DEF RLTypeOK

LEMMA CreditTypes ==
  ASSUME RLTypeOK, NEW k \in Keys
  PROVE  /\ Credit(k) \in Nat /\ Paid(k) \in Nat
         /\ Credit(k) = MaxCapacity + MaxCapacity * forgotten
                        + (MaxRate * (Sec - 1)) * restarts + One * unsaved[k]
<1>1. \A a, b \in Nat : a * b \in Nat
  OBVIOUS
<1>2. (1 + forgotten) * MaxCapacity = MaxCapacity + MaxCapacity * forgotten
  BY BudgetNumbers
<1>3. Sec - 1 \in Nat
  BY BudgetNumbers
<1>4. /\ (1 + forgotten) * MaxCapacity \in Nat /\ One * unsaved[k] \in Nat
      /\ MaxRate * (Sec - 1) \in Nat /\ (MaxRate * (Sec - 1)) * restarts \in Nat
      /\ One * spent[k] \in Nat /\ MaxRate * first[k] \in Nat
  BY <1>1, <1>3, BudgetNumbers
<1> QED
  BY <1>2, <1>4 DEF Credit, Paid

(* A restart is worth less than a second of refill, a forgotten bucket one *)
(* bucket.                                                                 *)
LEMMA RestartCredit ==
  ASSUME RLTypeOK, RLTypeOK', NEW k \in Keys, restarts' = restarts + 1,
         UNCHANGED <<first, spent, unsaved>>
  PROVE  /\ Paid(k)' = Paid(k) /\ MaxRate * (Sec - 1) \in Nat
         /\ forgotten' = forgotten =>
              Credit(k)' = Credit(k) + MaxRate * (Sec - 1)
         /\ forgotten' = forgotten + 1 =>
              Credit(k)' = Credit(k) + MaxCapacity + MaxRate * (Sec - 1)
<1> DEFINE slack == MaxRate * (Sec - 1)
<1>1. slack \in Nat
  <2>1. Sec - 1 \in Nat /\ MaxRate \in Nat
    BY BudgetNumbers
  <2> QED
    BY <2>1
<1>2. Credit(k) = (1 + forgotten) * MaxCapacity + slack * restarts + One * unsaved[k]
  BY DEF Credit
<1>3. Credit(k)' = (1 + forgotten') * MaxCapacity + slack * (restarts + 1)
                   + One * unsaved[k]
  BY DEF Credit
<1>4. Paid(k)' = Paid(k)
  BY DEF Paid
<1> HIDE DEF slack
<1>5. slack * (restarts + 1) = slack * restarts + slack /\ slack * restarts \in Nat
  BY <1>1, BudgetNumbers
<1>6. /\ (1 + forgotten) * MaxCapacity \in Nat /\ One * unsaved[k] \in Nat
      /\ (1 + (forgotten + 1)) * MaxCapacity
            = (1 + forgotten) * MaxCapacity + MaxCapacity
  BY BudgetNumbers
<1>7. forgotten' = forgotten => Credit(k)' = Credit(k) + slack
  BY <1>1, <1>2, <1>3, <1>5, <1>6
<1>8. forgotten' = forgotten + 1 => Credit(k)' = Credit(k) + MaxCapacity + slack
  BY <1>1, <1>2, <1>3, <1>5, <1>6, BudgetNumbers
<1> QED
  BY <1>1, <1>4, <1>7, <1>8 DEF slack

LEMMA TimePassesKeepsBudget ==
  ASSUME BudgetInv, TimePasses PROVE BudgetInv'
<1> USE DEF bucketVars, savedVars, ghostVars
<1>1. now' = now + 1 /\ UNCHANGED <<configured, bucketVars, savedVars, restarts,
                                    faults, ghostVars>>
  BY DEF TimePasses
<1>2. RLTypeOK /\ RLTypeOK'
  BY <1>1 DEF BudgetInv, RLTypeOK
<1>3. ASSUME NEW k \in Keys
      PROVE  (PastTimes(k) /\ EmptyLedger(k) /\ LiveBudget(k) /\ SavedBudget(k))'
  <2>1. PastTimes(k) /\ EmptyLedger(k) /\ LiveBudget(k) /\ SavedBudget(k)
    BY DEF BudgetInv
  <2>2. /\ Credit(k)' = Credit(k) /\ Paid(k)' = Paid(k)
        /\ HasBucket(k)' = HasBucket(k)
    BY <1>1 DEF Credit, Paid, HasBucket
  <2>3. EmptyLedger(k)' /\ SavedBudget(k)'
    BY <1>1, <2>1, <2>2 DEF EmptyLedger, SavedBudget
  <2>4. PastTimes(k)'
    BY <1>1, <1>2, <2>1, BudgetNumbers DEF PastTimes
  <2>5. MaxRate * (now + 1) >= MaxRate * now /\ Credit(k) \in Nat /\ Paid(k) \in Nat
    BY <1>2, BudgetNumbers, CreditTypes
  <2>6. MaxRate * (now + 1) \in Nat /\ MaxRate * now \in Nat
    BY <1>2, BudgetNumbers
  <2>7. LiveBudget(k)'
    BY <1>1, <1>2, <2>1, <2>2, <2>5, <2>6, BudgetNumbers DEF LiveBudget
  <2> QED
    BY <2>3, <2>4, <2>7
<1> QED
  BY <1>2, <1>3 DEF BudgetInv

LEMMA ReloadKeepsBudget ==
  ASSUME BudgetInv, ReloadLimit \/ UNCHANGED rlVars PROVE BudgetInv'
<1> USE DEF bucketVars, savedVars, ghostVars
<1>1. /\ UNCHANGED <<now, bucketVars, savedVars, restarts, faults, ghostVars>>
      /\ configured' \in Limits \cup {Unlimited}
  BY DEF ReloadLimit, rlVars, BudgetInv, RLTypeOK
<1>2. RLTypeOK'
  BY <1>1 DEF BudgetInv, RLTypeOK
<1>3. ASSUME NEW k \in Keys
      PROVE  (PastTimes(k) /\ EmptyLedger(k) /\ LiveBudget(k) /\ SavedBudget(k))'
  BY <1>1 DEF BudgetInv, PastTimes, EmptyLedger, LiveBudget, SavedBudget,
     Credit, Paid, HasBucket
<1> QED
  BY <1>2, <1>3 DEF BudgetInv

(* A restart from the saved rows pays for the rounding with its own        *)
(* credit; a key without a row has had nothing but unsaved calls.          *)
LEMMA RestoreKeepsBudget ==
  ASSUME BudgetInv, Restart,
         limit' = savedLimit, tokens' = savedTokens, lastRefill' = savedRefill,
         UNCHANGED forgotten
  PROVE  BudgetInv'
<1> USE DEF savedVars
<1>1. /\ UNCHANGED <<now, savedLimit, savedTokens, savedRefill, first, spent, unsaved>>
      /\ configured' \in Limits \cup {Unlimited} /\ restarts' = restarts + 1
      /\ faults' \in Nat
  BY DEF Restart, BudgetInv, RLTypeOK
<1>2. RLTypeOK /\ RLTypeOK'
  BY <1>1 DEF BudgetInv, RLTypeOK
<1>3. ASSUME NEW k \in Keys
      PROVE  (PastTimes(k) /\ EmptyLedger(k) /\ LiveBudget(k) /\ SavedBudget(k))'
  <2>1. PastTimes(k) /\ EmptyLedger(k) /\ LiveBudget(k) /\ SavedBudget(k)
    BY DEF BudgetInv
  <2>2. HasBucket(k)' <=> savedLimit[k] # Unlimited
    BY DEF HasBucket
  <2>3. PastTimes(k)' /\ EmptyLedger(k)'
    BY <1>1, <2>1, <2>2 DEF PastTimes, EmptyLedger
  <2>4. /\ Credit(k)' = Credit(k) + MaxRate * (Sec - 1)
        /\ Paid(k)' = Paid(k) /\ MaxRate * (Sec - 1) \in Nat
        /\ Credit(k) \in Nat /\ Paid(k) \in Nat
    BY <1>1, <1>2, RestartCredit, CreditTypes
  <2>5. /\ MaxRate * (savedRefill[k] + (Sec - 1))
             = MaxRate * savedRefill[k] + MaxRate * (Sec - 1)
        /\ MaxRate * savedRefill[k] \in Nat
    BY <1>2, BudgetNumbers
  <2>6. SavedBudget(k)'
    BY <1>1, <1>2, <2>1, <2>4, <2>5, BudgetNumbers DEF SavedBudget
  <2>7. CASE savedLimit[k] # Unlimited
    <3>1. savedTokens[k] + Paid(k)
             <= Credit(k) + MaxRate * savedRefill[k] + MaxRate * (Sec - 1)
      BY <2>1, <2>4, <2>5, <2>7 DEF SavedBudget
    <3>2. savedTokens[k] + Paid(k)' <= Credit(k)' + MaxRate * savedRefill[k]
      BY <1>2, <2>4, <2>5, <3>1, BudgetNumbers
    <3> QED
      BY <2>2, <2>3, <2>6, <2>7, <3>2 DEF LiveBudget
  <2>8. CASE savedLimit[k] = Unlimited
    <3>1. spent[k] <= unsaved[k] /\ first[k] <= now
      BY <2>1, <2>8 DEF EmptyLedger, PastTimes
    <3>2. One * spent[k] <= One * unsaved[k] /\ MaxRate * first[k] <= MaxRate * now
      BY <1>2, <3>1, BudgetNumbers
    <3>3. /\ MaxRate * now \in Nat /\ MaxRate * first[k] \in Nat
          /\ One * spent[k] \in Nat /\ One * unsaved[k] \in Nat
      BY <1>2, BudgetNumbers
    <3>4. Credit(k) >= MaxCapacity + One * unsaved[k]
      <4>1. MaxCapacity * forgotten \in Nat
        BY <1>2, BudgetNumbers
      <4>2. (MaxRate * (Sec - 1)) * restarts \in Nat
        BY <1>2, <2>4, BudgetNumbers
      <4> QED
        BY <1>2, <3>3, <4>1, <4>2, CreditTypes, BudgetNumbers
    <3>5. MaxCapacity + Paid(k)' <= Credit(k)' + MaxRate * now
      BY <1>2, <2>4, <3>2, <3>3, <3>4, BudgetNumbers DEF Paid
    <3> QED
      BY <1>1, <2>2, <2>3, <2>6, <2>8, <3>5 DEF LiveBudget
  <2> QED
    BY <2>7, <2>8
<1> QED
  BY <1>2, <1>3 DEF BudgetInv

(* What a key was granted is within its credit and its refill. *)
LEMMA PaidIsCovered ==
  ASSUME BudgetInv, NEW k \in Keys PROVE Paid(k) <= Credit(k) + MaxRate * now
<1>1. RLTypeOK /\ LiveBudget(k) /\ lastRefill[k] <= now
  BY DEF BudgetInv, PastTimes
<1>2. MaxRate * lastRefill[k] <= MaxRate * now
  BY <1>1, BudgetNumbers
<1>3. /\ MaxRate * lastRefill[k] \in Nat /\ MaxRate * now \in Nat
      /\ Paid(k) \in Nat /\ Credit(k) \in Nat
  BY <1>1, BudgetNumbers, CreditTypes
<1> QED
  BY <1>1, <1>2, <1>3, BudgetNumbers DEF LiveBudget

(* A restart that could not load the rows pays with a bucket of credit. *)
LEMMA ForgetKeepsBudget ==
  ASSUME BudgetInv, Restart, limit' = NoBuckets, tokens' = Zero,
         lastRefill' = Zero, forgotten' = forgotten + 1
  PROVE  BudgetInv'
<1> USE DEF savedVars
<1>1. /\ UNCHANGED <<now, savedLimit, savedTokens, savedRefill, first, spent, unsaved>>
      /\ configured' \in Limits \cup {Unlimited} /\ restarts' = restarts + 1
      /\ faults' \in Nat
  BY DEF Restart, BudgetInv, RLTypeOK
<1>2. RLTypeOK /\ RLTypeOK'
  BY <1>1 DEF BudgetInv, RLTypeOK, NoBuckets, Zero
<1>3. ASSUME NEW k \in Keys
      PROVE  (PastTimes(k) /\ EmptyLedger(k) /\ LiveBudget(k) /\ SavedBudget(k))'
  <2>1. PastTimes(k) /\ EmptyLedger(k) /\ LiveBudget(k) /\ SavedBudget(k)
    BY DEF BudgetInv
  <2>2. ~HasBucket(k)' /\ lastRefill'[k] = 0
    BY DEF HasBucket, NoBuckets, Zero
  <2>3. PastTimes(k)' /\ EmptyLedger(k)'
    BY <1>1, <1>2, <2>1, <2>2, BudgetNumbers DEF PastTimes, EmptyLedger
  <2>4. /\ Credit(k)' = Credit(k) + MaxCapacity + MaxRate * (Sec - 1)
        /\ Paid(k)' = Paid(k) /\ MaxRate * (Sec - 1) \in Nat
        /\ Credit(k) \in Nat /\ Paid(k) \in Nat
    BY <1>1, <1>2, RestartCredit, CreditTypes
  <2>5. MaxRate * (savedRefill[k] + (Sec - 1)) \in Nat /\ MaxRate * now \in Nat
    BY <1>2, BudgetNumbers
  <2>6. SavedBudget(k)'
    BY <1>1, <1>2, <2>1, <2>4, <2>5, BudgetNumbers DEF SavedBudget
  <2>7. LiveBudget(k)'
    BY <1>1, <1>2, <2>2, <2>4, <2>5, PaidIsCovered, BudgetNumbers DEF LiveBudget
  <2> QED
    BY <2>3, <2>6, <2>7
<1> QED
  BY <1>2, <1>3 DEF BudgetInv

(* An Allow leaves the other keys alone. *)
LEMMA AllowLeavesOthers ==
  ASSUME BudgetInv, RLTypeOK', NEW k \in Keys, Allow(k), NEW j \in Keys, j # k
  PROVE  (PastTimes(j) /\ EmptyLedger(j) /\ LiveBudget(j) /\ SavedBudget(j))'
<1>1. /\ UNCHANGED <<now, restarts, forgotten>>
      /\ limit'[j] = limit[j] /\ tokens'[j] = tokens[j]
      /\ lastRefill'[j] = lastRefill[j] /\ first'[j] = first[j]
      /\ spent'[j] = spent[j] /\ unsaved'[j] = unsaved[j]
      /\ savedLimit'[j] = savedLimit[j] /\ savedTokens'[j] = savedTokens[j]
      /\ savedRefill'[j] = savedRefill[j]
  BY DEF Allow, Save, savedVars, BudgetInv, RLTypeOK
<1>2. PastTimes(j) /\ EmptyLedger(j) /\ LiveBudget(j) /\ SavedBudget(j)
  BY DEF BudgetInv
<1> QED
  BY <1>1, <1>2 DEF PastTimes, EmptyLedger, LiveBudget, SavedBudget, Credit,
     Paid, HasBucket

(* What an Allow does to its own key, saved or not. *)
LEMMA AllowEffect ==
  ASSUME BudgetInv, NEW k \in Keys, Allow(k)
  PROVE  /\ RLTypeOK' /\ Left(k) \in Nat /\ now' = now
         /\ restarts' = restarts /\ forgotten' = forgotten
         /\ limit'[k] = configured /\ configured \in Limits
         /\ tokens'[k] = Left(k) /\ lastRefill'[k] = now
         /\ spent'[k] = spent[k] + (IF Granted(k) THEN 1 ELSE 0)
         /\ first'[k] = (IF spent[k] = 0 /\ ~HasBucket(k) THEN now ELSE first[k])
         /\ \/ /\ savedLimit'[k] = configured /\ savedTokens'[k] = Left(k)
               /\ savedRefill'[k] = Seconds(now) /\ unsaved'[k] = unsaved[k]
            \/ /\ UNCHANGED savedVars
               /\ unsaved'[k] = unsaved[k] + (IF Granted(k) THEN 1 ELSE 0)
<1>1. RLTypeOK /\ lastRefill[k] <= now /\ configured # Unlimited
  BY DEF BudgetInv, PastTimes, Allow
<1>2. configured \in Limits /\ LimitNow(k) = configured
  BY <1>1 DEF RLTypeOK, LimitNow
<1>3. Left(k) \in Nat
  <2>1. Refilled(k) \in Nat /\ One \in Nat
    BY <1>1, RefillIsBounded, RateLimitAssumption
  <2> QED
    BY <2>1 DEF Left, Granted
<1>4. now \in Nat /\ Seconds(now) \in Nat
  BY <1>1, SecondsRoundDown DEF RLTypeOK
<1>5. /\ now' \in Nat /\ restarts' \in Nat /\ faults' \in Nat /\ forgotten' \in Nat
      /\ configured' \in Limits \cup {Unlimited}
  BY <1>1 DEF Allow, RLTypeOK
<1>6. /\ limit' \in [Keys -> Limits \cup {Unlimited}]
      /\ tokens' \in [Keys -> Nat] /\ lastRefill' \in [Keys -> Nat]
      /\ first' \in [Keys -> Nat] /\ spent' \in [Keys -> Nat]
  BY <1>1, <1>2, <1>3, <1>4 DEF Allow, RLTypeOK
<1>7. /\ savedLimit' \in [Keys -> Limits \cup {Unlimited}]
      /\ savedTokens' \in [Keys -> Nat] /\ savedRefill' \in [Keys -> Nat]
      /\ unsaved' \in [Keys -> Nat]
  BY <1>1, <1>2, <1>3, <1>4 DEF Allow, Save, savedVars, RLTypeOK
<1>8. RLTypeOK'
  BY <1>5, <1>6, <1>7 DEF RLTypeOK
<1>9. /\ limit'[k] = configured /\ tokens'[k] = Left(k) /\ lastRefill'[k] = now
      /\ spent'[k] = spent[k] + (IF Granted(k) THEN 1 ELSE 0)
      /\ first'[k] = (IF spent[k] = 0 /\ ~HasBucket(k) THEN now ELSE first[k])
      /\ UNCHANGED <<now, restarts, forgotten>>
  BY <1>1, <1>2 DEF Allow, RLTypeOK
<1>10. \/ /\ savedLimit'[k] = configured /\ savedTokens'[k] = Left(k)
          /\ savedRefill'[k] = Seconds(now) /\ unsaved'[k] = unsaved[k]
       \/ /\ UNCHANGED savedVars
          /\ unsaved'[k] = unsaved[k] + (IF Granted(k) THEN 1 ELSE 0)
  BY <1>1, <1>2 DEF Allow, Save, RLTypeOK
<1> QED
  BY <1>2, <1>3, <1>8, <1>9, <1>10

(* Before the call is charged: the refilled bucket is within the budget,   *)
(* which a key's first call starts now.                                    *)
LEMMA RefillIsCovered ==
  ASSUME BudgetInv, NEW k \in Keys, configured # Unlimited
  PROVE  Refilled(k) + One * spent[k]
           + MaxRate * (IF spent[k] = 0 /\ ~HasBucket(k) THEN now ELSE first[k])
         <= Credit(k) + MaxRate * now
<1>1. RLTypeOK /\ PastTimes(k) /\ LiveBudget(k)
  BY DEF BudgetInv
<1>2. /\ Refilled(k) \in Nat /\ Refilled(k) <= MaxCapacity
      /\ HasBucket(k) =>
           Refilled(k) <= tokens[k] + MaxRate * (now - lastRefill[k])
  BY <1>1, RefillIsBounded DEF PastTimes
<1>3. /\ MaxRate * now \in Nat /\ MaxRate * lastRefill[k] \in Nat
      /\ MaxRate * first[k] \in Nat /\ One * spent[k] \in Nat
      /\ MaxRate * (now - lastRefill[k]) = MaxRate * now - MaxRate * lastRefill[k]
  BY <1>1, BudgetNumbers
<1>4. CASE HasBucket(k)
  <2>1. tokens[k] + (One * spent[k] + MaxRate * first[k])
          <= Credit(k) + MaxRate * lastRefill[k]
    BY <1>1, <1>4 DEF LiveBudget, Paid
  <2>2. Refilled(k) <= tokens[k] + (MaxRate * now - MaxRate * lastRefill[k])
    BY <1>2, <1>3, <1>4
  <2>3. Refilled(k) + One * spent[k] + MaxRate * first[k]
          <= Credit(k) + MaxRate * now
    BY <1>1, <1>2, <1>3, <2>1, <2>2, CreditTypes, BudgetNumbers
  <2> QED
    BY <1>4, <2>3
<1>5. CASE ~HasBucket(k) /\ spent[k] # 0
  <2>1. MaxCapacity + (One * spent[k] + MaxRate * first[k])
          <= Credit(k) + MaxRate * now
    BY <1>1, <1>5 DEF LiveBudget, Paid
  <2>2. Refilled(k) + One * spent[k] + MaxRate * first[k]
          <= Credit(k) + MaxRate * now
    BY <1>1, <1>2, <1>3, <2>1, CreditTypes, BudgetNumbers
  <2> QED
    BY <1>5, <2>2
<1>6. CASE ~HasBucket(k) /\ spent[k] = 0
  <2>1. MaxCapacity * forgotten \in Nat /\ One * unsaved[k] \in Nat
    BY <1>1, BudgetNumbers
  <2>2. (MaxRate * (Sec - 1)) * restarts \in Nat
    <3>1. Sec - 1 \in Nat /\ \A a, b \in Nat : a * b \in Nat
      BY <1>1, BudgetNumbers
    <3> QED
      BY <1>1, <3>1, BudgetNumbers
  <2>3. MaxCapacity <= Credit(k)
    BY <1>1, <2>1, <2>2, CreditTypes, BudgetNumbers
  <2>4. One * spent[k] = 0
    BY <1>1, <1>6, BudgetNumbers
  <2>5. Refilled(k) + One * spent[k] + MaxRate * now <= Credit(k) + MaxRate * now
    BY <1>1, <1>2, <1>3, <2>3, <2>4, CreditTypes, BudgetNumbers
  <2> QED
    BY <1>6, <2>5
<1> QED
  BY <1>4, <1>5, <1>6

(* An Allow charges its key: a granted call costs the token it was granted *)
(* for, and a Save that fails is put on the credit.                        *)
LEMMA AllowKeepsOwnBudget ==
  ASSUME BudgetInv, NEW k \in Keys, Allow(k)
  PROVE  (PastTimes(k) /\ EmptyLedger(k) /\ LiveBudget(k) /\ SavedBudget(k))'
<1> DEFINE one == IF Granted(k) THEN 1 ELSE 0
           start == IF spent[k] = 0 /\ ~HasBucket(k) THEN now ELSE first[k]
           due == One * spent[k] + MaxRate * start
<1>1. /\ RLTypeOK /\ PastTimes(k) /\ EmptyLedger(k) /\ SavedBudget(k)
      /\ configured # Unlimited /\ Unlimited \notin Limits
  BY RateLimitAssumption DEF BudgetInv, Allow
<1>2. /\ now' = now /\ restarts' = restarts /\ forgotten' = forgotten
      /\ limit'[k] # Unlimited /\ tokens'[k] = Left(k) /\ lastRefill'[k] = now
      /\ spent'[k] = spent[k] + one /\ first'[k] = start
      /\ RLTypeOK' /\ Left(k) \in Nat
  BY <1>1, AllowEffect
<1>3. one \in {0, 1} /\ start \in Nat /\ start <= now /\ One * one \in Nat
  BY <1>1, BudgetNumbers DEF PastTimes
<1>4. Refilled(k) \in Nat /\ (~HasBucket(k) => Granted(k))
  BY <1>1, RefillIsBounded DEF PastTimes, Granted
<1>5. Left(k) + One * one = Refilled(k)
  BY <1>1, <1>4, BudgetNumbers DEF Left
<1>6. Refilled(k) + due <= Credit(k) + MaxRate * now
  <2>1. Refilled(k) + One * spent[k] + MaxRate * start <= Credit(k) + MaxRate * now
    BY <1>1, RefillIsCovered
  <2>2. One * spent[k] \in Nat /\ MaxRate * start \in Nat
    BY <1>1, <1>3, BudgetNumbers
  <2> HIDE DEF start
  <2> QED
    BY <1>4, <2>1, <2>2
<1>7. Paid(k)' = due + One * one /\ due \in Nat
  <2>1. Paid(k)' = One * (spent[k] + one) + MaxRate * start
    BY <1>2 DEF Paid
  <2> HIDE DEF start, one
  <2>2. One * spent[k] \in Nat /\ MaxRate * start \in Nat
    BY <1>1, <1>3, BudgetNumbers
  <2>3. One * (spent[k] + one) = One * spent[k] + One * one
    BY <1>1, <1>3, BudgetNumbers
  <2> QED
    BY <1>3, <2>1, <2>2, <2>3
<1>8. unsaved'[k] \in {unsaved[k], unsaved[k] + one}
      /\ Credit(k)' = Credit(k) + One * (unsaved'[k] - unsaved[k])
  <2>1. unsaved'[k] \in {unsaved[k], unsaved[k] + one}
    BY AllowEffect
  <2>2. Credit(k)' = (1 + forgotten) * MaxCapacity
                     + MaxRate * (Sec - 1) * restarts + One * unsaved'[k]
    BY <1>2 DEF Credit
  <2>3. One * unsaved'[k] = One * unsaved[k] + One * (unsaved'[k] - unsaved[k])
        /\ One * unsaved[k] \in Nat /\ One * (unsaved'[k] - unsaved[k]) \in Nat
    BY <1>1, <1>3, <2>1, BudgetNumbers
  <2>4. (1 + forgotten) * MaxCapacity \in Nat
        /\ MaxRate * (Sec - 1) * restarts \in Nat
    <3>1. Sec - 1 \in Nat /\ 1 + forgotten \in Nat /\ \A a, b \in Nat : a * b \in Nat
      BY <1>1, BudgetNumbers
    <3> QED
      BY <1>1, <3>1, BudgetNumbers
  <2> QED
    BY <2>1, <2>2, <2>3, <2>4 DEF Credit
<1>9. Credit(k) \in Nat /\ Credit(k)' \in Nat /\ Credit(k)' >= Credit(k)
      /\ MaxRate * now \in Nat
  <2>1. One * (unsaved'[k] - unsaved[k]) \in Nat
    BY <1>1, <1>3, <1>8, BudgetNumbers
  <2> QED
    BY <1>1, <1>8, <2>1, CreditTypes, BudgetNumbers
<1>10. Left(k) + Paid(k)' <= Credit(k) + MaxRate * now
  <2> HIDE DEF due, one
  <2> QED
    BY <1>2, <1>3, <1>4, <1>5, <1>6, <1>7, <1>9
<1>11. LiveBudget(k)'
  <2>1. Left(k) + Paid(k)' <= Credit(k)' + MaxRate * now
    <3>1. Paid(k)' \in Nat
      BY <1>3, <1>7
    <3> QED
      BY <1>2, <1>9, <1>10, <3>1
  <2> QED
    BY <1>2, <2>1 DEF LiveBudget, HasBucket
<1>12. spent'[k] > 0
  BY <1>1, <1>2, <1>3, <1>4, BudgetNumbers DEF EmptyLedger
<1>13. CASE savedLimit'[k] = configured /\ savedTokens'[k] = Left(k)
            /\ savedRefill'[k] = Seconds(now)
  <2>1. /\ Seconds(now) \in Nat /\ Seconds(now) <= now
        /\ now <= Seconds(now) + (Sec - 1)
    BY <1>1, BudgetNumbers, SecondsRoundDown
  <2>2. MaxRate * now <= MaxRate * (Seconds(now) + (Sec - 1))
        /\ MaxRate * (Seconds(now) + (Sec - 1)) \in Nat
    BY <1>1, <2>1, BudgetNumbers
  <2>3. Left(k) + Paid(k)' <= Credit(k)' + MaxRate * (Seconds(now) + (Sec - 1))
    <3>1. Paid(k)' \in Nat
      BY <1>3, <1>7
    <3> QED
      BY <1>2, <1>9, <1>10, <2>2, <3>1
  <2>4. SavedBudget(k)'
    BY <1>13, <2>3 DEF SavedBudget
  <2>5. PastTimes(k)'
    BY <1>2, <1>3, <1>13, <2>1, BudgetNumbers, <1>1 DEF PastTimes
  <2>6. EmptyLedger(k)'
    BY <1>1, <1>12, <1>13 DEF EmptyLedger
  <2> QED
    BY <1>11, <2>4, <2>5, <2>6
<1>14. CASE UNCHANGED savedVars /\ unsaved'[k] = unsaved[k] + one
  <2>1. UNCHANGED <<savedLimit, savedTokens, savedRefill>>
    BY <1>14 DEF savedVars
  <2>2. PastTimes(k)'
    BY <1>1, <1>2, <1>3, <2>1, BudgetNumbers DEF PastTimes
  <2>3. EmptyLedger(k)'
    BY <1>1, <1>2, <1>3, <1>12, <1>14, <2>1, BudgetNumbers DEF EmptyLedger
  <2>4. ASSUME savedLimit[k] # Unlimited
        PROVE  savedTokens[k] + Paid(k)'
                 <= Credit(k)' + MaxRate * (savedRefill[k] + (Sec - 1))
    <3>1. start = first[k]
      BY <1>1, <2>4, BudgetNumbers DEF EmptyLedger
    <3>2. Paid(k)' = Paid(k) + One * one /\ Paid(k) = due
      BY <1>7, <3>1 DEF Paid
    <3>3. Credit(k)' = Credit(k) + One * one
      <4>1. unsaved'[k] - unsaved[k] = one
        BY <1>1, <1>3, <1>14, BudgetNumbers
      <4> QED
        BY <1>8, <4>1
    <3>4. savedTokens[k] + Paid(k)
            <= Credit(k) + MaxRate * (savedRefill[k] + (Sec - 1))
      BY <1>1, <2>4 DEF SavedBudget
    <3>5. MaxRate * (savedRefill[k] + (Sec - 1)) \in Nat
      <4>1. savedRefill[k] + (Sec - 1) \in Nat
        BY <1>1, BudgetNumbers
      <4> QED
        BY <1>1, <4>1, BudgetNumbers
    <3>6. savedTokens[k] \in Nat /\ Paid(k) \in Nat
      BY <1>1, CreditTypes, BudgetNumbers
    <3> HIDE DEF one
    <3> QED
      BY <1>3, <1>9, <3>2, <3>3, <3>4, <3>5, <3>6
  <2>5. SavedBudget(k)'
    BY <2>1, <2>4 DEF SavedBudget
  <2> QED
    BY <1>11, <2>2, <2>3, <2>5
<1> QED
  BY <1>13, <1>14, AllowEffect

LEMMA NextKeepsBudget == BudgetInv /\ [RLNext]_rlVars => BudgetInv'
<1> SUFFICES ASSUME BudgetInv, [RLNext]_rlVars PROVE BudgetInv'
  OBVIOUS
<1>1. CASE Restart
  BY <1>1, RestoreKeepsBudget, ForgetKeepsBudget DEF Restart
<1>2. ASSUME NEW k \in Keys, Allow(k) PROVE BudgetInv'
  <2>1. RLTypeOK'
    BY <1>2, AllowEffect
  <2> QED
    BY <1>2, <2>1, AllowKeepsOwnBudget, AllowLeavesOthers DEF BudgetInv
<1> QED
  BY <1>1, <1>2, TimePassesKeepsBudget, ReloadKeepsBudget DEF RLNext

(* No bucket and no saved row is ever overdrawn. *)
THEOREM BucketTypes == RLSpec => []RLTypeOK
<1>1. BudgetInv => RLTypeOK
  BY DEF BudgetInv
<1> QED
  BY <1>1, InitBudget, NextKeepsBudget, PTL DEF RLSpec

(* Over its whole life, across any restarts, reloads and failed database   *)
(* calls, a key is granted one bucket, the refill of the fastest limit and *)
(* the credit those failures give back (rateLimiter.Allow).                *)
THEOREM BudgetIsKept == RLSpec => []WithinBudget
<1>1. BudgetInv => WithinBudget
  <2> SUFFICES ASSUME BudgetInv, NEW k \in Keys
               PROVE  spent[k] * One <=
                        (1 + forgotten) * MaxCapacity
                        + MaxRate * (now - first[k])
                        + MaxRate * (Sec - 1) * restarts
                        + One * unsaved[k]
    BY DEF WithinBudget
  <2>1. One * spent[k] + MaxRate * first[k] <= Credit(k) + MaxRate * now
    BY PaidIsCovered DEF Paid
  <2>2. RLTypeOK
    BY DEF BudgetInv
  <2>3. /\ MaxRate * (now - first[k]) = MaxRate * now - MaxRate * first[k]
        /\ MaxRate * now \in Nat /\ MaxRate * first[k] \in Nat
        /\ One * spent[k] \in Nat /\ spent[k] * One = One * spent[k]
    BY <2>2, BudgetNumbers
  <2>4. spent[k] * One <= Credit(k) + MaxRate * (now - first[k])
    BY <2>1, <2>2, <2>3, CreditTypes
  <2>5. (1 + forgotten) * MaxCapacity \in Nat /\ One * unsaved[k] \in Nat
        /\ MaxRate * (Sec - 1) * restarts \in Nat
    <3>1. Sec - 1 \in Nat /\ 1 + forgotten \in Nat /\ \A a, b \in Nat : a * b \in Nat
      BY <2>2, BudgetNumbers
    <3> QED
      BY <2>2, <3>1, BudgetNumbers
  <2> QED
    BY <2>2, <2>3, <2>4, <2>5 DEF Credit
<1> QED
  BY <1>1, InitBudget, NextKeepsBudget, PTL DEF RLSpec
=============================================================================
