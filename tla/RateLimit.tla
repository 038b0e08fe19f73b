----------------------------- MODULE RateLimit ------------------------------
(***************************************************************************)
(* The token buckets of internal/mcp/rate_limit.go, one per tool|pid, and  *)
(* the rows of rate_limit_state they are saved to (internal/serve/         *)
(* rate_limit_persister.go, internal/store/rate_limit.go), across daemon   *)
(* restarts and policy reloads.                                            *)
(*                                                                         *)
(* Time passes in ticks, Sec of them to a second; a token is One units, so *)
(* that every refill is a whole number of units (the code uses float64).   *)
(* Allow holds the limiter's mutex from the lookup to the Save, and is one *)
(* step.  Failures covered: a Save or a LoadAll that fails (both ignored   *)
(* by the callers), a daemon that stops at any moment.  Not covered: a     *)
(* wall clock set back while the daemon is down.                           *)
(***************************************************************************)
EXTENDS Naturals, FiniteSets

CONSTANTS
    Keys,         \* tool|pid
    Limits,       \* the rate_limit values of the policy: [capacity, unit]
    Unlimited,    \* no rate_limit, or one parseLimitSpec does not accept
    One,          \* units in a token
    Sec,          \* ticks in a second
    MaxTicks,     \* bound on the clock
    MaxRestarts,  \* bound on the restarts
    MaxFaults     \* bound on the failed database calls

(* parseLimitSpec: "N/unit" is a bucket of N that refills N tokens in unit *)
(* seconds.                                                                *)
Capacity(l) == l.capacity * One
Rate(l) == (l.capacity * One) \div (l.unit * Sec)

ASSUME RateLimitAssumption ==
    /\ One \in Nat \ {0} /\ Sec \in Nat \ {0}
    /\ Limits \subseteq [capacity : Nat \ {0}, unit : {1, 60, 3600, 86400}]
    /\ Limits # {} /\ IsFiniteSet(Limits)
    /\ \A l \in Limits : One % (l.unit * Sec) = 0
    /\ Unlimited \notin Limits
    /\ MaxTicks \in Nat /\ MaxRestarts \in Nat /\ MaxFaults \in Nat

VARIABLES
    now,
    configured,   \* the tool's rate_limit in the policy now
    limit,        \* bucket.limitSpec; Unlimited where there is no bucket
    tokens,       \* bucket.tokens
    lastRefill,   \* bucket.lastRefill
    savedLimit,   \* limit_spec of the saved row; Unlimited where there is none
    savedTokens,  \* its tokens
    savedRefill,  \* its last_refill, whole seconds
    restarts,
    faults,
    (* What happened, for the properties: *)
    first,        \* when a key's first bucket was made
    spent,        \* calls granted under a limit
    unsaved,      \* of those, the ones whose Save failed
    forgotten     \* restarts whose LoadAll failed

bucketVars == <<limit, tokens, lastRefill>>
savedVars == <<savedLimit, savedTokens, savedRefill>>
ghostVars == <<first, spent, unsaved, forgotten>>
rlVars == <<now, configured, bucketVars, savedVars, restarts, faults, ghostVars>>

MaxCapacity == CHOOSE m \in {Capacity(l) : l \in Limits} :
                   \A l \in Limits : Capacity(l) <= m
MaxRate == CHOOSE m \in {Rate(l) : l \in Limits} : \A l \in Limits : Rate(l) <= m

(* Every variable has its type: no bucket and no saved row is overdrawn. *)
RLTypeOK ==
    /\ now \in Nat /\ restarts \in Nat /\ faults \in Nat /\ forgotten \in Nat
    /\ configured \in Limits \cup {Unlimited}
    /\ limit \in [Keys -> Limits \cup {Unlimited}]
    /\ savedLimit \in [Keys -> Limits \cup {Unlimited}]
    /\ tokens \in [Keys -> Nat] /\ savedTokens \in [Keys -> Nat]
    /\ lastRefill \in [Keys -> Nat] /\ savedRefill \in [Keys -> Nat]
    /\ first \in [Keys -> Nat] /\ spent \in [Keys -> Nat] /\ unsaved \in [Keys -> Nat]

Zero == [k \in Keys |-> 0]
NoBuckets == [k \in Keys |-> Unlimited]

RLInit ==
    /\ now = 0 /\ restarts = 0 /\ faults = 0 /\ forgotten = 0
    /\ configured \in Limits \cup {Unlimited}
    /\ limit = NoBuckets /\ tokens = Zero /\ lastRefill = Zero
    /\ savedLimit = NoBuckets /\ savedTokens = Zero /\ savedRefill = Zero
    /\ first = Zero /\ spent = Zero /\ unsaved = Zero

TimePasses ==
    /\ now < MaxTicks
    /\ now' = now + 1
    /\ UNCHANGED <<configured, bucketVars, savedVars, restarts, faults, ghostVars>>

(* SIGHUP: the policy's rate_limit changes; the buckets learn of it in     *)
(* their next Allow.                                                       *)
ReloadLimit ==
    /\ configured' \in Limits \cup {Unlimited}
    /\ UNCHANGED <<now, bucketVars, savedVars, restarts, faults, ghostVars>>

----------------------------------------------------------------------------
Least(a, b) == IF a <= b THEN a ELSE b

(* The bucket Allow works on: a new one is full; a changed limit keeps the *)
(* tokens.                                                                 *)
HasBucket(k) == limit[k] # Unlimited

Fault_ReloadRefills(k) == IF limit[k] = configured THEN tokens[k] ELSE Capacity(configured)
Carried(k) ==
    IF ~HasBucket(k) THEN Capacity(configured)
    ELSE IF limit[k] = configured THEN tokens[k] ELSE Least(tokens[k], Capacity(configured))

(* The limit the refill goes by: the policy's, also for an old bucket. *)
LimitNow(k) == configured

Elapsed(k) == IF HasBucket(k) THEN now - lastRefill[k] ELSE 0

Refilled(k) ==
    Least(Carried(k) + Elapsed(k) * Rate(LimitNow(k)), Capacity(LimitNow(k)))

Granted(k) == Refilled(k) >= One

Left(k) == IF Granted(k) THEN Refilled(k) - One ELSE Refilled(k)

(* SaveRateLimitBucket writes last_refill as Unix seconds. *)
Seconds(t) == (t \div Sec) * Sec

Save(k) ==
    /\ savedLimit' = [savedLimit EXCEPT ![k] = LimitNow(k)]
    /\ savedTokens' = [savedTokens EXCEPT ![k] = Left(k)]
    /\ savedRefill' = [savedRefill EXCEPT ![k] = Seconds(now)]

Allow(k) ==
    /\ configured # Unlimited    \* without a limit Allow changes nothing
    /\ limit' = [limit EXCEPT ![k] = LimitNow(k)]
    /\ tokens' = [tokens EXCEPT ![k] = Left(k)]
    /\ lastRefill' = [lastRefill EXCEPT ![k] = now]
    /\ spent' = [spent EXCEPT ![k] = IF Granted(k) THEN @ + 1 ELSE @]
    /\ first' = [first EXCEPT ![k] = IF spent[k] = 0 /\ ~HasBucket(k) THEN now ELSE @]
    /\ \/ /\ Save(k)
          /\ UNCHANGED <<faults, unsaved>>
       \/ /\ faults < MaxFaults
          /\ faults' = faults + 1
          /\ unsaved' = [unsaved EXCEPT ![k] = IF Granted(k) THEN @ + 1 ELSE @]
          /\ UNCHANGED savedVars
    /\ UNCHANGED <<now, configured, restarts, forgotten>>

(* The daemon stops, however it does, and starts: setPersister loads every *)
(* row.  Its error is dropped by mcp.New, and then there are no buckets.   *)
Restart ==
    /\ restarts < MaxRestarts
    /\ restarts' = restarts + 1
    /\ \/ /\ limit' = savedLimit /\ tokens' = savedTokens /\ lastRefill' = savedRefill
          /\ UNCHANGED <<faults, forgotten>>
       \/ /\ faults < MaxFaults
          /\ faults' = faults + 1
          /\ forgotten' = forgotten + 1
          /\ limit' = NoBuckets /\ tokens' = Zero /\ lastRefill' = Zero
    /\ configured' \in Limits \cup {Unlimited}
    /\ UNCHANGED <<now, savedVars, first, spent, unsaved>>

RLNext == TimePasses \/ ReloadLimit \/ Restart \/ \E k \in Keys : Allow(k)

RLSpec == RLInit /\ [][RLNext]_rlVars

----------------------------------------------------------------------------
(* Neither a restart nor a reload hands out a fresh budget: over its whole *)
(* life a key is granted one full bucket and what the fastest limit has    *)
(* refilled since.  What failures may add is bounded too: a restart adds   *)
(* back less than a second of refill (last_refill is saved in whole        *)
(* seconds), a failed Save at most the token it lost, a failed LoadAll at  *)
(* most one bucket.                                                        *)
WithinBudget ==
    \A k \in Keys :
        spent[k] * One <=
            (1 + forgotten) * MaxCapacity
            + MaxRate * (now - first[k])
            + MaxRate * (Sec - 1) * restarts
            + One * unsaved[k]
=============================================================================
