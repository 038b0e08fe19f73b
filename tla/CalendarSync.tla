---------------------------- MODULE CalendarSync ----------------------------
(***************************************************************************)
(* The calendar mirror: a poll of every calendar, the rows it keeps, and   *)
(* the texts the tools decrypt and cache in them.                          *)
(*                                                                         *)
(* The API has no delta.  A pass lists the calendars, then takes each one's *)
(* whole event list: an event whose LastEditTime is above the calendar's   *)
(* high-water mark is written, a row the list lacks is deleted, and the    *)
(* mark goes up last.  Every statement is a transaction of its own, so a   *)
(* crash, or the 90 s limit, can fall between any two.                     *)
(*                                                                         *)
(* Failures covered: an outage or a missing scope at any fetch, a pass cut  *)
(* off at any statement, changes at Proton at any time, a purge, reads     *)
(* beside a pass.  Not covered: two edits with one LastEditTime; two       *)
(* passes at once; what the decrypted text says.                           *)
(***************************************************************************)
EXTENDS Naturals, FiniteSets

CONSTANTS
    Calendars, Events,
    CalendarOf,     \* the calendar an event is in
    MaxEdit,        \* bound: the edit clock
    MaxChanges,     \* bound: other changes at Proton, purges
    MaxFaults,      \* bound: outages and passes cut off
    MaxReads        \* bound: reads that go to Proton

ASSUME ConstantsAssumption ==
    /\ CalendarOf \in [Events -> Calendars] /\ "none" \notin Calendars
    /\ IsFiniteSet(Calendars) /\ IsFiniteSet(Events)
    /\ MaxEdit \in Nat \ {0}
    /\ MaxChanges \in Nat /\ MaxFaults \in Nat /\ MaxReads \in Nat

Edit == 0 .. MaxEdit    \* 0: no such event, row, text or mark

VARIABLES
    listed,     \* the calendars Proton lists for this account
    srv,        \* srv[e]: LastEditTime at Proton
    clock,      \* the last edit time given
    scope,      \* whether the session may read events
    calendars,  \* the calendars table
    row,        \* row[e]: last_edit in calendar_events
    text,       \* text[e]: the edit whose decryption the row holds
    mark,       \* mark[c]: calendar_max_edit:<c>
    blocked,    \* calendar_events_blocked
    pass,       \* RunCalendarOnce
    reader,     \* a tool's fetch, or calendar-backfill's
    refused,    \* ghost: the last conclusive pass met a missing scope
    returned,   \* ghost: calendars that left the listing and came back
    raced,      \* ghost: rows a pass advanced under a reader
    changes, faults, reads  \* what has been used of the bounds

remote == <<listed, srv, clock, scope, returned>>
table == <<row, text, raced>>
bounds == <<changes, faults, reads>>
vars == <<remote, calendars, table, mark, blocked, pass, reader, refused,
          bounds>>

Nothing == [e \in Events |-> 0]
NoPass == [pc |-> "idle", cals |-> {}, left |-> {}, todo |-> {}, cal |-> "none",
           got |-> Nothing, max |-> 0, gone |-> {}]
NoRead == [pc |-> "idle", todo |-> {}, got |-> Nothing]

PassPcs == {"idle", "rows", "vanished", "fetch", "mark", "upsert", "list",
            "delete", "save", "clear", "refused"}

TypeOK ==
    /\ listed \subseteq Calendars
    /\ srv \in [Events -> Edit]
    /\ clock \in Edit
    /\ scope \in BOOLEAN /\ blocked \in BOOLEAN /\ refused \in BOOLEAN
    /\ calendars \subseteq Calendars
    /\ row \in [Events -> Edit]
    /\ text \in [Events -> Edit]
    /\ mark \in [Calendars -> Edit]
    /\ raced \subseteq Events /\ returned \subseteq Calendars
    /\ pass \in [pc : PassPcs, cals : SUBSET Calendars,
                 left : SUBSET Calendars, todo : SUBSET Calendars,
                 cal : Calendars \cup {"none"}, got : [Events -> Edit],
                 max : Edit, gone : SUBSET Events]
    /\ pass.cal = "none" <=> pass.pc \notin {"mark", "upsert", "list",
                                             "delete", "save"}
    /\ reader \in [pc : {"idle", "fill"}, todo : SUBSET Events,
                   got : [Events -> Edit]]
    /\ \A e \in Events : row[e] # 0 => CalendarOf[e] \in calendars
    /\ changes \in 0 .. MaxChanges
    /\ faults \in 0 .. MaxFaults
    /\ reads \in 0 .. MaxReads

\* An account with a calendar, and a mirror that has never been filled.
Init ==
    /\ listed = Calendars
    /\ srv = Nothing /\ clock = 0 /\ scope = TRUE
    /\ calendars = {} /\ row = Nothing /\ text = Nothing
    /\ mark = [c \in Calendars |-> 0]
    /\ blocked = FALSE /\ refused = FALSE /\ raced = {} /\ returned = {}
    /\ pass = NoPass /\ reader = NoRead
    /\ changes = 0 /\ faults = 0 /\ reads = 0

Of(c) == {e \in Events : CalendarOf[e] = c}
Rows(c) == {e \in Of(c) : row[e] # 0}

----------------------------------------------------------------------------
(* Proton *)

Change == changes < MaxChanges /\ changes' = changes + 1
local == <<calendars, table, mark, blocked, pass, reader, refused>>

\* An event is created, or edited: the clock moves on.
EditEvent(e) ==
    /\ clock < MaxEdit
    /\ CalendarOf[e] \in listed
    /\ clock' = clock + 1
    /\ srv' = [srv EXCEPT ![e] = clock']
    /\ UNCHANGED <<listed, scope, returned, local, bounds>>

DeleteEvent(e) ==
    /\ srv[e] # 0
    /\ Change
    /\ srv' = [srv EXCEPT ![e] = 0]
    /\ UNCHANGED <<listed, clock, scope, returned, local, faults, reads>>

\* Left, unshared or unsubscribed; later perhaps joined again.
UnlistCalendar(c) ==
    /\ c \in listed
    /\ Change
    /\ listed' = listed \ {c}
    /\ UNCHANGED <<srv, clock, scope, returned, local, faults, reads>>

RelistCalendar(c) ==
    /\ c \notin listed
    /\ Change
    /\ listed' = listed \cup {c}
    /\ returned' = returned \cup {c}
    /\ UNCHANGED <<srv, clock, scope, local, faults, reads>>

\* The scope comes with the session, and may change with it.
ChangeScope ==
    /\ Change
    /\ scope' = ~scope
    /\ UNCHANGED <<listed, srv, clock, returned, local, faults, reads>>

----------------------------------------------------------------------------
(* A pass *)

Fault == faults < MaxFaults /\ faults' = faults + 1
Pass(r) == pass' = r

\* An outage, the 90 s limit, a lock that closes the session, a crash.
CutOff ==
    /\ pass.pc # "idle"
    /\ Fault
    /\ Pass(NoPass)
    /\ UNCHANGED <<remote, calendars, table, mark, blocked, reader, refused,
                   changes, reads>>

GetCalendars ==
    /\ pass.pc = "idle"
    /\ Pass([NoPass EXCEPT !.pc = "rows", !.cals = listed, !.left = listed,
                           !.todo = listed])
    /\ UNCHANGED <<remote, calendars, table, mark, blocked, reader, refused,
                   bounds>>

\* syncCalendarRows, a row at a time; then the list for reconcileCalendars.
UpsertCalendar(c) ==
    /\ pass.pc = "rows" /\ c \in pass.todo
    /\ calendars' = calendars \cup {c}
    /\ Pass([pass EXCEPT !.todo = @ \ {c}])
    /\ UNCHANGED <<remote, table, mark, blocked, reader, refused, bounds>>

ListCalendars ==
    /\ pass.pc = "rows" /\ pass.todo = {}
    /\ Pass([pass EXCEPT !.pc = "vanished", !.todo = calendars \ pass.cals])
    /\ UNCHANGED <<remote, calendars, table, mark, blocked, reader, refused,
                   bounds>>

\* The foreign key takes the events along; the mark stays.
DeleteCalendar(c) ==
    /\ pass.pc = "vanished" /\ c \in pass.todo
    /\ calendars' = calendars \ {c}
    /\ row' = [e \in Events |-> IF e \in Of(c) THEN 0 ELSE row[e]]
    /\ text' = [e \in Events |-> IF e \in Of(c) THEN 0 ELSE text[e]]
    /\ raced' = raced \ Of(c)
    /\ Pass([pass EXCEPT !.todo = @ \ {c}])
    /\ UNCHANGED <<remote, mark, blocked, reader, refused, bounds>>

NextPhase ==
    /\ pass.pc = "vanished" /\ pass.todo = {}
    /\ Pass([pass EXCEPT !.pc = IF pass.left = {} THEN "clear" ELSE "fetch"])
    /\ UNCHANGED <<remote, calendars, table, mark, blocked, reader, refused,
                   bounds>>

\* The fetch comes before the mark is read and before any write.
FetchEvents(c) ==
    /\ pass.pc = "fetch" /\ c \in pass.left
    /\ IF ~scope THEN Pass([pass EXCEPT !.pc = "refused"])
       ELSE IF c \notin listed THEN Pass(NoPass)
       ELSE Pass([pass EXCEPT !.pc = "mark", !.cal = c, !.left = @ \ {c},
                     !.got = [e \in Events |-> IF e \in Of(c) THEN srv[e]
                                                              ELSE 0]])
    /\ UNCHANGED <<remote, calendars, table, mark, blocked, reader, refused,
                   bounds>>

ReadMaxEdit ==
    /\ pass.pc = "mark"
    /\ Pass([pass EXCEPT !.pc = "upsert", !.max = mark[pass.cal],
                         !.gone = {e \in Events : pass.got[e] > mark[pass.cal]}])
    /\ UNCHANGED <<remote, calendars, table, mark, blocked, reader, refused,
                   bounds>>

\* The text of an older edit goes with the row's old last_edit (#130).
Fault_KeptText(e, edit) == text[e]

KeptText(e, edit) == IF edit > row[e] THEN 0 ELSE text[e]

\* gone: what is left to write, and then what is left to delete.
UpsertEvent(e) ==
    /\ pass.pc = "upsert" /\ e \in pass.gone
    /\ row' = [row EXCEPT ![e] = pass.got[e]]
    /\ text' = [text EXCEPT ![e] = KeptText(e, pass.got[e])]
    /\ raced' = IF e \in reader.todo /\ reader.got[e] < pass.got[e]
                THEN raced \cup {e}
                ELSE IF pass.got[e] > row[e] THEN raced \ {e} ELSE raced
    /\ Pass([pass EXCEPT !.gone = @ \ {e}])
    /\ UNCHANGED <<remote, calendars, mark, blocked, reader, refused, bounds>>

\* ReconcileCalendarEvents.
Fault_ListEvents ==
    /\ pass.pc = "upsert" /\ pass.gone = {}
    /\ Pass([pass EXCEPT !.pc = "delete",
                         !.gone = {e \in Rows(pass.cal) : pass.got[e] > pass.max}])
    /\ UNCHANGED <<remote, calendars, table, mark, blocked, reader, refused,
                   bounds>>

ListEvents ==
    /\ pass.pc = "upsert" /\ pass.gone = {}
    /\ Pass([pass EXCEPT !.pc = "delete",
                         !.gone = {e \in Rows(pass.cal) : pass.got[e] = 0}])
    /\ UNCHANGED <<remote, calendars, table, mark, blocked, reader, refused,
                   bounds>>

DeleteRow(e) ==
    /\ pass.pc = "delete" /\ e \in pass.gone
    /\ row' = [row EXCEPT ![e] = 0]
    /\ text' = [text EXCEPT ![e] = 0]
    /\ raced' = raced \ {e}
    /\ Pass([pass EXCEPT !.gone = @ \ {e}])
    /\ UNCHANGED <<remote, calendars, mark, blocked, reader, refused, bounds>>

\* The highest LastEditTime seen, or the mark as it was.
NewMax == CHOOSE m \in {pass.got[e] : e \in Events} \cup {pass.max} :
              \A n \in {pass.got[e] : e \in Events} \cup {pass.max} : n <= m

\* The mark of a calendar, when all of it is in the mirror.
Fault_SaveMark ==
    /\ pass.pc = "mark"
    /\ mark' = [mark EXCEPT ![pass.cal] = NewMax]
    /\ Pass([pass EXCEPT !.pc = "upsert", !.max = mark[pass.cal],
                         !.gone = {e \in Events : pass.got[e] > mark[pass.cal]}])
    /\ UNCHANGED <<remote, calendars, table, blocked, reader, refused, bounds>>

SaveMark ==
    /\ pass.pc = "delete" /\ pass.gone = {}
    /\ mark' = [mark EXCEPT ![pass.cal] = NewMax]
    /\ Pass([pass EXCEPT !.pc = IF pass.left = {} THEN "clear" ELSE "fetch",
                         !.cal = "none", !.got = Nothing, !.max = 0])
    /\ UNCHANGED <<remote, calendars, table, blocked, reader, refused, bounds>>

\* A pass that got every calendar's events.
ClearBlocked ==
    /\ pass.pc = "clear"
    /\ blocked' = FALSE /\ refused' = FALSE
    /\ Pass(NoPass)
    /\ UNCHANGED <<remote, calendars, table, mark, reader, bounds>>

\* Code 9100 stops the phase: the other calendars would answer the same.
SetBlocked ==
    /\ pass.pc = "refused"
    /\ blocked' = TRUE /\ refused' = TRUE
    /\ Pass(NoPass)
    /\ UNCHANGED <<remote, calendars, table, mark, reader, bounds>>

----------------------------------------------------------------------------
(* Tools *)

\* The events are fetched now and their texts stored later.
FetchAndDecrypt(S) ==
    /\ reader.pc = "idle" /\ S # {}
    /\ reads < MaxReads /\ reads' = reads + 1
    /\ scope
    /\ \A e \in S : srv[e] # 0 /\ CalendarOf[e] \in listed
    /\ reader' = [pc |-> "fill", todo |-> S,
                  got |-> [e \in Events |-> IF e \in S THEN srv[e] ELSE 0]]
    /\ UNCHANGED <<remote, calendars, table, mark, blocked, pass, refused,
                   changes, faults>>

\* calendar_read_event, told to refresh or not, and each row without a text in
\* a page of calendar_events.
ReadEvent(e) ==
    /\ ~blocked
    /\ row[e] # 0
    /\ FetchAndDecrypt({e})

\* calendar-backfill --decrypt, beside the daemon: a calendar's whole list,
\* whatever of it the mirror has by now; what cannot be decrypted is skipped.
BackfillDecrypt(c) == \E S \in SUBSET Of(c) : FetchAndDecrypt(S)

\* UPDATE ... WHERE id: whatever the row has become.
FillDecrypted(e) ==
    /\ reader.pc = "fill" /\ e \in reader.todo
    /\ text' = IF row[e] = 0 THEN text
               ELSE [text EXCEPT ![e] = reader.got[e]]
    /\ raced' = IF reader.got[e] >= row[e] THEN raced \ {e} ELSE raced
    /\ reader' = IF reader.todo = {e} THEN NoRead
                 ELSE [reader EXCEPT !.todo = @ \ {e}]
    /\ UNCHANGED <<remote, calendars, row, mark, blocked, pass, refused,
                   bounds>>

\* PurgeCalendarOlderThan, at a start or from the CLI.
Purge(S) ==
    /\ S # {} /\ \A e \in S : text[e] # 0
    /\ Change
    /\ text' = [e \in Events |-> IF e \in S THEN 0 ELSE text[e]]
    /\ UNCHANGED <<remote, calendars, row, raced, mark, blocked, pass, reader,
                   refused, faults, reads>>

\* What calendar_events answers.
Fault_EventsAnswer ==
    IF {e \in Events : row[e] # 0} = {} THEN "none" ELSE "events"

EventsAnswer ==
    IF blocked /\ {e \in Events : row[e] # 0} = {} THEN "unavailable"
    ELSE IF blocked THEN "stale events"
    ELSE IF {e \in Events : row[e] # 0} = {} THEN "none" ELSE "events"

----------------------------------------------------------------------------
(* Specification *)

PassStep ==
    \/ GetCalendars \/ ListCalendars \/ NextPhase \/ ReadMaxEdit \/ ListEvents
    \/ SaveMark \/ ClearBlocked \/ SetBlocked
    \/ \E c \in Calendars :
          UpsertCalendar(c) \/ DeleteCalendar(c) \/ FetchEvents(c)
    \/ \E e \in Events : UpsertEvent(e) \/ DeleteRow(e)

Proton ==
    \/ \E e \in Events : EditEvent(e) \/ DeleteEvent(e)
    \/ \E c \in Calendars : UnlistCalendar(c) \/ RelistCalendar(c)
    \/ ChangeScope

Tools ==
    \/ \E e \in Events : ReadEvent(e) \/ FillDecrypted(e)
    \/ \E c \in Calendars : BackfillDecrypt(c)
    \/ \E S \in SUBSET Events : Purge(S)

Next == PassStep \/ CutOff \/ Proton \/ Tools

Spec == Init /\ [][Next]_vars
\* The tick comes again every two minutes.
FairSpec == Spec /\ WF_vars(PassStep)

----------------------------------------------------------------------------
(* Properties *)

\* applyCalendarEvents skips what is at or below the mark as "already
\* mirrored", for good: so it must be in the mirror.
Skipped(e) ==
    CalendarOf[e] \in listed /\ srv[e] # 0 /\ srv[e] <= mark[CalendarOf[e]]

\* It is, whatever cut earlier passes off and whatever changed under them, in
\* a calendar that has been listed all the time.
SkippedIsMirrored ==
    \A e \in Events : Skipped(e) /\ CalendarOf[e] \notin returned
                       => row[e] = srv[e]

\* The comment makes no such exception.
AlreadyMirrored == \A e \in Events : Skipped(e) => row[e] = srv[e]

\* #130: the text a row holds is no older than the row, unless a pass moved
\* the row on while the text was on its way from Proton.
TextIsCurrent ==
    \A e \in Events : text[e] # 0 /\ text[e] < row[e] => e \in raced

\* #110: once a pass has met a missing scope, no answer is a plain list, or
\* "no events", until a pass has read every calendar; one that fails for
\* another reason in between changes nothing.
BlockIsTold == refused => EventsAnswer \in {"unavailable", "stale events"}

\* When the session may read events, the mirror comes to hold the events of
\* the listed calendars, and no others; in a calendar that left and came back
\* it may lack some.
Mirrored ==
    \A e \in Events :
        \/ row[e] = IF CalendarOf[e] \in listed THEN srv[e] ELSE 0
        \/ row[e] = 0 /\ CalendarOf[e] \in returned

CatchesUp == <>[]scope => <>[]Mirrored
=============================================================================
