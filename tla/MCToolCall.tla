----------------------------- MODULE MCToolCall -----------------------------
(***************************************************************************)
(* ToolCall for TLC: the requests and policies of a small instance, and a  *)
(* history variable with the approvals that stand.                         *)
(***************************************************************************)
EXTENDS ToolCall, TLC

CONSTANTS send, list, alice, mallory

MCTools == {send, list}
MCArgs == {alice, mallory}
MCPids == {1}
(* Two sends that differ in their recipient, and a read. *)
MCSends == [tool : {send}, pid : MCPids, args : MCArgs]
MCRequests == MCSends \cup [tool : {list}, pid : MCPids, args : {alice}]

CallSymmetry == Permutations(Calls)

Rule(d, t, r, a) == [decision |-> d, ttl |-> t, restricted |-> r, allowed |-> a]
Sends(r) == send :> r @@ list :> Rule("allow", 0, FALSE, {})
MCPolicies ==
    {Sends(Rule("prompt", 1, FALSE, {})), Sends(Rule("prompt", 0, TRUE, {mallory})),
     Sends(Rule("deny", 0, FALSE, {}))}

VARIABLE grants        \* request -> end of the approval that stands, or Absent

hvars == <<vars, grants>>

Caches(c) == step[c] = "approved" /\ step'[c] = "handler"
Revoked == \/ ~locked /\ locked'
           \/ hup = "invalidate" /\ hup' = "wait"
           \/ crashes' # crashes

(* An approval is cached when its helper is back, for the TTL of the rule  *)
(* it was given under; a lock, a reload and a crash revoke all of them.    *)
Record ==
    grants' = [k \in Requests |->
        IF Revoked THEN Absent
        ELSE IF \E c \in Calls : Caches(c) /\ request[c] = k
        THEN clock + rule[CHOOSE c \in Calls : Caches(c)].ttl
        ELSE IF clock' > grants[k] THEN Absent
        ELSE grants[k]]

HInit == Init /\ grants = EmptyCache
HNext == Next /\ Record
HSpec == HInit /\ [][HNext]_hvars
HFairSpec == HSpec /\ Fairness

(* No handler starts unauthorized: its policy rule allows the call, or a   *)
(* person touched the sensor for it, or touched for a request with the     *)
(* same tool, process and arguments, in an approval that has not run out   *)
(* and that no lock, reload or restart has revoked.  Neither a touch nor a *)
(* cached approval carries a call past its rule's recipients.              *)
RunsOnlyAuthorized ==
    [][\A c \in Calls :
        step[c] # "handler" /\ step'[c] = "handler" =>
        /\ rule[c].restricted => request[c].args \in rule[c].allowed
        /\ \/ rule[c].decision = "allow"
           \/ /\ rule[c].decision = "prompt"
              /\ \/ step[c] \in {"prompting", "approved"}
                 \/ grants[request[c]] # Absent]_hvars
=============================================================================
