---------------------------- MODULE MCEventSync ----------------------------
(***************************************************************************)
(* EventSync with history variables, for TLC.                              *)
(***************************************************************************)
EXTENDS EventSync, TLC

VARIABLES
    filled,     \* a backfill finished
    shifted,    \* the server dropped a message while one was walking
    raced       \* messages whose body was updated under a reader

MessageSymmetry == Permutations(Messages)

hvars == <<vars, filled, shifted, raced>>

Record ==
    /\ filled' = (filled \/ \E b \in Backfills : pc[b] = "save" /\ cursor' # cursor)
    /\ shifted' = (shifted \/ /\ \E b \in Backfills : pc[b] # "idle"
                              /\ Latest' > Latest
                              /\ \E m \in Messages : m \in Listed /\ m \notin Listed')
    /\ raced' = {m \in Messages :
                    \/ m \in raced
                    \/ \E q \in Readers : /\ fetched[q][m] # None
                                          /\ fetched[q][m] # BodyAt(Latest, m)}

HInit == Init /\ filled = FALSE /\ shifted = FALSE /\ raced = {}
HNext == Next /\ Record
HSpec == HInit /\ [][HNext]_hvars
HFairSpec == HSpec /\ Fairness

(* Nothing is missing after a backfill: the cursor was captured before the *)
(* walk, so a message that came meanwhile is replayed by the next syncs,   *)
(* and a row is gone only when the server deleted the message.  (Not so    *)
(* for a message a page shift hid, as another one was deleted during the   *)
(* walk.)                                                                  *)
NothingMissing ==
    filled /\ ~shifted =>
        \A m \in Messages : \E i \in 0..Latest : i >= cursor /\ row[m] = At(i, m)

(* mail_read serves no body older than the mirror's cursor, unless it was  *)
(* fetched just before the update that the run then applied (the TTL is    *)
(* what bounds that one).                                                  *)
CachedBodyCurrent ==
    \A m \in Messages \ raced :
        body[m] # None /\ cursor # NoCursor => body[m] >= BodyAt(cursor, m)

(* backfill's advice when the database was locked: "Stop it, then re-run   *)
(* backfill (it's idempotent)".  After the second drain the mirror is what *)
(* one drain would have made it: it holds no row of a message that was     *)
(* gone from the server when that drain captured its cursor.               *)
RerunIsIdempotent ==
    filled => \A m \in Messages :
        row[m] # None => \E i \in 0..Latest : i >= cursor /\ row[m] = At(i, m)

(* The package comment: RunOnce "keeps the local SQLite mirror in lockstep *)
(* with the Proton server".  Between runs, with the cursor at the server's *)
(* last event, every mirrored envelope is the server's own, though several *)
(* processes call RunOnce.                                                 *)
InLockstep ==
    cursor = Latest /\ (\A w \in Writers : pc[w] = "idle") =>
        \A m \in Messages : row[m] # None => row[m] = At(Latest, m)
=============================================================================
