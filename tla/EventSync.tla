----------------------------- MODULE EventSync -----------------------------
(***************************************************************************)
(* The local mirror of the mailbox: sync.RunOnce of internal/sync/sync.go  *)
(* (called by the daemon's background loop, the mail_sync tool and         *)
(* `protonmcp sync`), `protonmcp backfill` of cmd/protonmcp/backfill.go    *)
(* and the body cache mail_read fills (internal/mcptools/mail_read.go),    *)
(* over the tables of internal/store/messages.go.                          *)
(*                                                                         *)
(* The server's event log is a sequence; event i is what GetEvent returns  *)
(* after cursor i - 1.  What a column holds is named by the event it was   *)
(* current at: row[m] = 3 is the envelope of m as of event 3.              *)
(***************************************************************************)
EXTENDS Integers, Sequences, FiniteSets

CONSTANTS
    Messages,
    Runners,        \* processes and goroutines that call RunOnce
    Backfills,      \* `protonmcp backfill` processes
    Readers,        \* mail_read calls
    Exclusive,      \* one RunOnce or backfill at a time
    CleanBackfill,  \* backfill starts on an empty mirror and is not cut off
    Paired,         \* bound: the actions an event of two diffs consists of
    MaxEvents, MaxAborts, MaxExpiries       \* bounds

Writers == Runners \cup Backfills
Actions == {"create", "update", "flags", "delete"}

ASSUME SyncAssumption ==
    /\ Runners \cap Backfills = {}
    /\ Paired \subseteq Actions
    /\ Exclusive \in BOOLEAN /\ CleanBackfill \in BOOLEAN
    /\ MaxEvents \in Nat /\ MaxAborts \in Nat /\ MaxExpiries \in Nat

VARIABLES
    log,        \* the server's events, each a sequence of message diffs
    horizon,    \* a cursor below it is too old for the server
    row,        \* messages: the envelope, None when there is no row
    tags,       \* message_labels
    body,       \* the cached body columns
    cursor,     \* sync_state.event_cursor
    pc,         \* where each writer is
    at,         \* its own copy of the cursor; backfill: the captured one
    upto,       \* the last event of the batch a runner fetched
    todo,       \* messages it has still to write before it moves on
    page,       \* the metadata page backfill asks for next
    fetched,    \* reader -> [message -> body it holds and has not cached]
    aborts, expiries

mirrorVars == <<row, tags, body>>
serverVars == <<log, horizon, expiries>>
writerVars == <<pc, at, upto, todo, page>>
vars == <<serverVars, mirrorVars, cursor, writerVars, fetched, aborts>>

None == 0
NoCursor == 0 - 1
Diffs == [msg : Messages, action : Actions]
PCs == {"idle", "seed", "fetch", "row", "tags", "body", "save", "walk"}

----------------------------------------------------------------------------
(* The server. *)
Latest == Len(log)
Does(i, m, acts) ==
    \E j \in DOMAIN log[i] : log[i][j].msg = m /\ log[i][j].action \in acts

(* The last event up to n that did one of acts to m. *)
LastDone(n, m, acts) ==
    LET S == {i \in 1..n : Does(i, m, acts)}
    IN IF S = {} THEN None ELSE CHOOSE i \in S : \A k \in S : k <= i

(* The envelope and the body of m as of event n; None if it did not exist. *)
At(n, m) ==
    LET i == LastDone(n, m, Actions)
    IN IF i # None /\ Does(i, m, {"delete"}) THEN None ELSE i
BodyAt(n, m) ==
    IF At(n, m) = None THEN None ELSE LastDone(n, m, {"create", "update"})

Listed == {m \in Messages : At(Latest, m) # None}
Born(m) == LastDone(Latest, m, {"create"})
(* Newer by the event that created it, and by its place in that event.     *)
Newer(n, m) ==
    \/ Born(n) > Born(m)
    \/ /\ Born(n) = Born(m)
       /\ \E j, k \in DOMAIN log[Born(m)] :
            j < k /\ log[Born(m)][j].msg = m /\ log[Born(m)][k].msg = n
(* GetMessageMetadataPage with Desc, a message per page: the one that p    *)
(* others are newer than.                                                  *)
Rank(m) == Cardinality({n \in Listed : Newer(n, m)})
Page(p) == {m \in Listed : Rank(m) = p}

(* A message id is used once. *)
Legal(d) ==
    IF d.action = "create" THEN Born(d.msg) = None ELSE d.msg \in Listed

Events ==
    {<<d>> : d \in {d \in Diffs : Legal(d)}} \cup
    {e \in {<<d, f>> : d, f \in {g \in Diffs : Legal(g) /\ g.action \in Paired}} :
        e[1].msg # e[2].msg}

Emit ==
    /\ Latest < MaxEvents
    /\ \E e \in Events : log' = Append(log, e)
    /\ UNCHANGED <<horizon, expiries, mirrorVars, cursor, writerVars, fetched, aborts>>

(* The server forgets the oldest events. *)
Expire ==
    /\ expiries < MaxExpiries
    /\ horizon' \in (horizon + 1)..Latest
    /\ expiries' = expiries + 1
    /\ UNCHANGED <<log, mirrorVars, cursor, writerVars, fetched, aborts>>

----------------------------------------------------------------------------
Fault_NextEventID == Latest + 1
LatestEventID == Latest

Init ==
    /\ log = <<>> /\ horizon = 0 /\ expiries = 0
    /\ row = [m \in Messages |-> None]
    /\ tags = [m \in Messages |-> None]
    /\ body = [m \in Messages |-> None]
    /\ cursor = NoCursor
    /\ pc = [w \in Writers |-> "idle"]
    /\ at = [w \in Writers |-> 0]
    /\ upto = [w \in Writers |-> 0]
    /\ todo = [w \in Writers |-> <<>>]
    /\ page = [w \in Writers |-> 0]
    /\ fetched = [q \in Readers |-> [m \in Messages |-> None]]
    /\ aborts = 0

MayStart(w) ==
    /\ pc[w] = "idle"
    /\ Exclusive => \A v \in Writers : pc[v] = "idle"

Goto(w, s) == pc' = [pc EXCEPT ![w] = s]

(* Back to the caller: what the run held is gone. *)
Return(w) ==
    /\ Goto(w, "idle")
    /\ at' = [at EXCEPT ![w] = 0]
    /\ upto' = [upto EXCEPT ![w] = 0]
    /\ todo' = [todo EXCEPT ![w] = <<>>]
    /\ page' = [page EXCEPT ![w] = 0]

(* Any call to the server or the store fails, the deadline passes, or the  *)
(* process dies: the run is over, and what it wrote stays written.         *)
Abort(w) ==
    /\ pc[w] # "idle"
    /\ w \in Backfills => ~CleanBackfill
    /\ aborts < MaxAborts
    /\ aborts' = aborts + 1
    /\ Return(w)
    /\ UNCHANGED <<serverVars, mirrorVars, cursor, fetched>>

----------------------------------------------------------------------------
(* sync.RunOnce.  Without a cursor it listens from now. *)
Begin(r) ==
    /\ MayStart(r)
    /\ IF cursor = NoCursor
       THEN Goto(r, "seed") /\ at' = [at EXCEPT ![r] = LatestEventID]
       ELSE Goto(r, "fetch") /\ at' = [at EXCEPT ![r] = cursor]
    /\ UNCHANGED <<serverVars, mirrorVars, cursor, upto, todo, page, fetched, aborts>>

Seed(r) ==
    /\ pc[r] = "seed"
    /\ cursor' = at[r]
    /\ Return(r)
    /\ UNCHANGED <<serverVars, mirrorVars, fetched, aborts>>

(* The writes event i asks for. *)
Writes(i) ==
    [j \in DOMAIN log[i] |->
        [msg |-> log[i][j].msg, action |-> log[i][j].action, ver |-> i]]

(* GetEvent from the run's own cursor: nothing new, a demand to refresh,   *)
(* or a batch of events.                                                   *)
Fetch(r) ==
    /\ pc[r] = "fetch"
    /\ IF at[r] >= Latest \/ at[r] < horizon
       THEN Return(r)
       ELSE /\ \E k \in (at[r] + 1)..Latest : upto' = [upto EXCEPT ![r] = k]
            /\ todo' = [todo EXCEPT ![r] = Writes(at[r] + 1)]
            /\ Goto(r, "row")
            /\ UNCHANGED <<at, page>>
    /\ UNCHANGED <<serverVars, mirrorVars, cursor, fetched, aborts>>

(* A write that is through: on to the next one, or to the end of the event *)
(* or page.                                                                *)
Done(w) ==
    /\ todo' = [todo EXCEPT ![w] = Tail(@)]
    /\ Goto(w, IF Len(todo[w]) > 1 THEN "row"
               ELSE IF w \in Runners THEN "save" ELSE "walk")

(* DeleteMessage (its labels go with it), or UpsertMessage, which leaves   *)
(* the body columns alone.                                                 *)
WriteRow(w) ==
    /\ pc[w] = "row"
    /\ LET d == todo[w][1] IN
       IF d.action = "delete"
       THEN /\ row' = [row EXCEPT ![d.msg] = None]
            /\ tags' = [tags EXCEPT ![d.msg] = None]
            /\ body' = [body EXCEPT ![d.msg] = None]
            /\ Done(w)
       ELSE /\ row' = [row EXCEPT ![d.msg] = d.ver]
            /\ Goto(w, "tags")
            /\ UNCHANGED <<tags, body, todo>>
    /\ UNCHANGED <<serverVars, cursor, at, upto, page, fetched, aborts>>

(* Only an update can have changed the body. *)
Fault_UpdateKeepsBody(d) == FALSE
ChangesBody(d) == d.action = "update"

(* SetMessageLabels, a transaction of its own; the foreign key fails when  *)
(* the row is gone, which ends the run (by Abort).                         *)
WriteTags(w) ==
    /\ pc[w] = "tags"
    /\ LET d == todo[w][1] IN
       /\ row[d.msg] # None
       /\ tags' = [tags EXCEPT ![d.msg] = d.ver]
       /\ IF ChangesBody(d)
          THEN Goto(w, "body") /\ UNCHANGED todo
          ELSE Done(w)
    /\ UNCHANGED <<serverVars, row, body, cursor, at, upto, page, fetched, aborts>>

InvalidateBodyCache(w) ==
    /\ pc[w] = "body"
    /\ body' = [body EXCEPT ![todo[w][1].msg] = None]
    /\ Done(w)
    /\ UNCHANGED <<serverVars, row, tags, cursor, at, upto, page, fetched, aborts>>

(* The cursor follows each event.  When the batch is through, the server's *)
(* `more` says whether to ask again.                                       *)
Fault_CursorOfBatch(r) == upto[r]
Fault_CursorKept(r) == cursor
NextCursor(r) == at[r] + 1

SaveCursor(r) ==
    /\ pc[r] = "save"
    /\ cursor' = NextCursor(r)
    /\ IF at[r] + 1 < upto[r]
       THEN /\ Goto(r, "row")
            /\ at' = [at EXCEPT ![r] = at[r] + 1]
            /\ todo' = [todo EXCEPT ![r] = Writes(at[r] + 2)]
            /\ UNCHANGED <<upto, page>>
       ELSE \E more \in BOOLEAN :
            IF more
            THEN /\ Goto(r, "fetch")
                 /\ at' = [at EXCEPT ![r] = at[r] + 1]
                 /\ UNCHANGED <<upto, todo, page>>
            ELSE Return(r)
    /\ UNCHANGED <<serverVars, mirrorVars, fetched, aborts>>

----------------------------------------------------------------------------
(* `protonmcp backfill`: capture the cursor, walk the metadata pages       *)
(* newest first, then store the captured cursor.                           *)
Capture(b) ==
    /\ MayStart(b)
    /\ CleanBackfill => \A m \in Messages : row[m] = None
    /\ at' = [at EXCEPT ![b] = LatestEventID]
    /\ Goto(b, "walk")
    /\ UNCHANGED <<serverVars, mirrorVars, cursor, upto, todo, page, fetched, aborts>>

Walk(b) ==
    /\ pc[b] = "walk"
    /\ IF Page(page[b]) = {}
       THEN /\ Goto(b, "save")
            /\ UNCHANGED <<todo, page>>
       ELSE /\ \E m \in Page(page[b]) :
                  todo' = [todo EXCEPT ![b] =
                      <<[msg |-> m, action |-> "flags", ver |-> At(Latest, m)]>>]
            /\ page' = [page EXCEPT ![b] = @ + 1]
            /\ Goto(b, "row")
    /\ UNCHANGED <<serverVars, mirrorVars, cursor, at, upto, fetched, aborts>>

Fault_CursorAfterDrain(b) == Latest
CapturedCursor(b) == at[b]

SaveCaptured(b) ==
    /\ pc[b] = "save"
    /\ cursor' = CapturedCursor(b)
    /\ Return(b)
    /\ UNCHANGED <<serverVars, mirrorVars, fetched, aborts>>

----------------------------------------------------------------------------
(* readOne: a body that is not cached (or `refresh`) is fetched from the   *)
(* server and decrypted, then cached.  SetCachedBody updates a row, so a   *)
(* message without one stays uncached.                                     *)
FetchBody(q, m) ==
    /\ \A n \in Messages : fetched[q][n] = None
    /\ m \in Listed
    /\ fetched' = [fetched EXCEPT ![q][m] = BodyAt(Latest, m)]
    /\ UNCHANGED <<serverVars, mirrorVars, cursor, writerVars, aborts>>

SetCachedBody(q, m) ==
    /\ fetched[q][m] # None
    /\ body' = [body EXCEPT ![m] = IF row[m] = None THEN None ELSE fetched[q][m]]
    /\ fetched' = [fetched EXCEPT ![q][m] = None]
    /\ UNCHANGED <<serverVars, row, tags, cursor, writerVars, aborts>>

----------------------------------------------------------------------------
Write(w) == WriteRow(w) \/ WriteTags(w) \/ InvalidateBodyCache(w)
RunOnce(r) == Begin(r) \/ Seed(r) \/ Fetch(r) \/ Write(r) \/ SaveCursor(r)
Backfill(b) == Walk(b) \/ Write(b) \/ SaveCaptured(b)
Read(q, m) == FetchBody(q, m) \/ SetCachedBody(q, m)

Next ==
    \/ Emit \/ Expire
    \/ \E w \in Writers : Abort(w)
    \/ \E r \in Runners : RunOnce(r)
    \/ \E b \in Backfills : Capture(b) \/ Backfill(b)
    \/ \E q \in Readers, m \in Messages : Read(q, m)

Spec == Init /\ [][Next]_vars

(* The background loop runs RunOnce every two minutes, and a run goes on   *)
(* until it returns; so does a backfill.                                   *)
Fairness ==
    /\ \A r \in Runners : SF_vars(Begin(r)) /\ WF_vars(RunOnce(r))
    /\ \A b \in Backfills : WF_vars(Backfill(b))

FairSpec == Spec /\ Fairness

----------------------------------------------------------------------------
(* Every variable has its type: no column, cursor or copy of one names an  *)
(* event the server has not had, and labels and body go with their row.    *)
TypeOK ==
    /\ log \in Seq(Seq(Diffs))
    /\ horizon \in 0..Latest
    /\ row \in [Messages -> 0..Latest]
    /\ tags \in [Messages -> 0..Latest]
    /\ body \in [Messages -> 0..Latest]
    /\ \A m \in Messages : row[m] = None => tags[m] = None /\ body[m] = None
    /\ cursor \in NoCursor..Latest
    /\ pc \in [Writers -> PCs]
    /\ at \in [Writers -> 0..Latest] /\ upto \in [Writers -> 0..Latest]
    /\ todo \in [Writers -> Seq([msg : Messages, action : Actions, ver : 1..Latest])]
    /\ page \in [Writers -> Nat]
    /\ fetched \in [Readers -> [Messages -> 0..Latest]]
    /\ aborts \in Nat /\ expiries \in Nat

(* Replaying the events after the stored cursor brings the mirror up to    *)
(* date: whatever it holds of a message is what the server held at the     *)
(* cursor or later, wherever a run was cut off.  (A row of a message the   *)
(* server had already deleted at the cursor would stay for ever.)          *)
NeverBehindCursor ==
    \A m \in Messages :
        /\ row[m] # None => \E i \in 0..Latest : i >= cursor /\ row[m] = At(i, m)
        /\ tags[m] # None => \E i \in 0..Latest : i >= cursor /\ tags[m] = At(i, m)

(* The mirror catches up with the server, or the server wants a refresh.   *)
CatchesUp == []<>(cursor = Latest \/ (cursor # NoCursor /\ cursor < horizon))
=============================================================================
