-------------------------- MODULE CalendarSyncProofs --------------------------
(***************************************************************************)
(* Proofs about CalendarSync, for any calendars and events, and any number *)
(* of edits, changes at Proton, outages, crashes and reads.                *)
(***************************************************************************)
EXTENDS CalendarSync, TLAPS, WellFoundedInduction

PassState ==
    [pc : PassPcs, cals : SUBSET Calendars, left : SUBSET Calendars,
     todo : SUBSET Calendars, cal : Calendars \cup {"none"},
     got : [Events -> Edit], max : Edit, gone : SUBSET Events]
InCalendar == {"mark", "upsert", "list", "delete", "save"}

(* Numbers up to a bound have a greatest one.                              *)
LEMMA GreatestExists ==
  ASSUME NEW N \in Nat, NEW S, S \subseteq 0 .. N, S # {}
  PROVE  \E m \in S : \A n \in S : n <= m
<1> DEFINE T == {n \in 0 .. N : N - n \in S}
<1>1. T \subseteq Nat
  OBVIOUS
<1>2. T # {}
  <2>1. PICK n \in S : TRUE
    OBVIOUS
  <2>2. n \in 0 .. N
    OBVIOUS
  <2>3. N - n \in 0 .. N /\ N - (N - n) = n
    BY <2>2
  <2>4. N - n \in T
    BY <2>1, <2>3
  <2> QED
    BY <2>4
<1> HIDE DEF T
<1>3. PICK x \in T : \A y \in T : ~(<<y, x>> \in OpToRel(<, Nat))
  BY <1>1, <1>2, NatLessThanWellFounded, WFMin, Zenon
<1>4. \A y \in T : ~(y < x)
  BY <1>1, <1>3 DEF OpToRel
<1>5. x \in 0 .. N /\ N - x \in S
  BY DEF T
<1>6. \A n \in S : n <= N - x
  <2> TAKE n \in S
  <2>1. n \in 0 .. N
    OBVIOUS
  <2>2. N - n \in 0 .. N /\ N - (N - n) = n
    BY <2>1
  <2>3. N - n \in T
    BY <2>2 DEF T
  <2>4. ~(N - n < x)
    BY <1>4, <2>3
  <2> QED
    BY <1>5, <2>1, <2>4
<1> QED
  BY <1>5, <1>6

----------------------------------------------------------------------------
(* The inductive invariant. *)

(* A calendar that has been listed all the time.                           *)
Steady(c) == c \in listed /\ c \notin returned

(* The calendars of the pass are those it was told of, and all the steady  *)
(* ones are among them; it has a row for each before it takes the events.  *)
PassKnows ==
    /\ pass.pc # "idle" => \A c \in Calendars : Steady(c) => c \in pass.cals
    /\ pass.left \subseteq pass.cals
    /\ pass.cal # "none" => pass.cal \in pass.cals
    /\ pass.pc = "rows" => pass.cals \subseteq calendars \cup pass.todo
    /\ pass.pc \notin {"idle", "rows"} => pass.cals \subseteq calendars
    /\ pass.pc = "vanished" => pass.todo \cap pass.cals = {}

(* What is left to write is above the mark, what is left to delete was not *)
(* in the list.                                                            *)
WorkLeft ==
    /\ pass.cal # "none" => \A e \in Events : pass.got[e] # 0 => CalendarOf[e] = pass.cal
    /\ pass.pc \in {"upsert", "delete"} => pass.max = mark[pass.cal]
    /\ pass.pc = "upsert" =>
         \A e \in pass.gone : CalendarOf[e] = pass.cal /\ pass.got[e] > mark[pass.cal]
    /\ pass.pc = "delete" =>
         \A e \in pass.gone : CalendarOf[e] = pass.cal /\ pass.got[e] = 0

(* Nothing is from the future, and at Proton an edit only grows.           *)
InThePast ==
    /\ \A e \in Events : srv[e] <= clock /\ row[e] <= clock /\ pass.got[e] <= clock
    /\ \A c \in Calendars : mark[c] <= clock
    /\ \A e \in Events : srv[e] # 0 => row[e] <= srv[e] /\ pass.got[e] <= srv[e]

(* What changed since the fetch is above every mark the pass can save.     *)
NewsIsNewer ==
    pass.cal # "none" =>
        \A e \in Events :
            CalendarOf[e] = pass.cal /\ srv[e] # 0 /\ srv[e] # pass.got[e] =>
                srv[e] > mark[pass.cal] /\ \A f \in Events : srv[e] > pass.got[f]

(* What the pass has been through is in the mirror.                        *)
WrittenIsMirrored ==
    pass.pc \in {"upsert", "delete"} /\ Steady(pass.cal) =>
        \A e \in Events :
            /\ CalendarOf[e] = pass.cal /\ srv[e] # 0 /\ srv[e] = pass.got[e]
            /\ pass.pc = "upsert" => e \notin pass.gone
            => row[e] = srv[e]

(* A text that is older than the row it is for is on record.               *)
OnItsWay == \A e \in reader.todo : reader.got[e] < row[e] => e \in raced

MirrorInv ==
    /\ TypeOK
    /\ PassKnows /\ WorkLeft /\ InThePast /\ NewsIsNewer /\ WrittenIsMirrored
    /\ OnItsWay /\ SkippedIsMirrored /\ TextIsCurrent
    /\ refused => blocked

(* The types of a state, by its variables.                                 *)
LEMMA Types ==
  ASSUME TypeOK
  PROVE  /\ srv \in [Events -> Edit] /\ row \in [Events -> Edit] /\ text \in [Events -> Edit]
         /\ mark \in [Calendars -> Edit] /\ clock \in Edit /\ pass \in PassState
         /\ pass.cal = "none" <=> pass.pc \notin InCalendar
         /\ listed \subseteq Calendars /\ returned \subseteq Calendars
         /\ calendars \subseteq Calendars /\ raced \subseteq Events
         /\ reader \in [pc : {"idle", "fill"}, todo : SUBSET Events, got : [Events -> Edit]]
         /\ \A e \in Events : row[e] # 0 => CalendarOf[e] \in calendars
         /\ changes \in 0 .. MaxChanges /\ faults \in 0 .. MaxFaults /\ reads \in 0 .. MaxReads
         /\ scope \in BOOLEAN /\ blocked \in BOOLEAN /\ refused \in BOOLEAN
  BY DEF TypeOK, PassState, InCalendar

LEMMA Numbers ==
  /\ MaxEdit \in Nat /\ MaxChanges \in Nat /\ MaxFaults \in Nat /\ MaxReads \in Nat
  /\ Edit \subseteq Nat /\ Edit = 0 .. MaxEdit /\ 0 \in Edit
  /\ CalendarOf \in [Events -> Calendars] /\ "none" \notin Calendars
  BY ConstantsAssumption DEF Edit

LEMMA NothingIs ==
  /\ Nothing \in [Events -> Edit] /\ \A e \in Events : Nothing[e] = 0
  /\ NoPass \in PassState /\ NoPass.pc = "idle" /\ NoPass.cals = {} /\ NoPass.left = {}
  /\ NoPass.todo = {} /\ NoPass.cal = "none" /\ NoPass.got = Nothing /\ NoPass.max = 0
  /\ NoPass.gone = {}
<1>1. Nothing \in [Events -> Edit] /\ \A e \in Events : Nothing[e] = 0
  BY Numbers DEF Nothing
<1> QED
  BY <1>1, Numbers DEF NoPass, PassState, PassPcs

LEMMA MirrorInit == Init => MirrorInv
<1> SUFFICES ASSUME Init PROVE MirrorInv
  OBVIOUS
<1>0. /\ listed = Calendars /\ srv = Nothing /\ clock = 0 /\ calendars = {}
      /\ row = Nothing /\ text = Nothing /\ mark = [c \in Calendars |-> 0]
      /\ pass = NoPass /\ reader.todo = {} /\ ~refused
  BY DEF Init, NoRead
<1>1. TypeOK
  <2>1. pass \in PassState /\ pass.cal = "none" /\ pass.pc = "idle"
    BY <1>0, NothingIs
  <2>2. reader \in [pc : {"idle", "fill"}, todo : SUBSET Events, got : [Events -> Edit]]
    BY NothingIs DEF Init, NoRead
  <2>3. mark \in [Calendars -> Edit] /\ clock \in Edit
    BY <1>0, Numbers
  <2>4. scope \in BOOLEAN /\ blocked \in BOOLEAN /\ refused \in BOOLEAN
    BY DEF Init
  <2>5. raced = {} /\ returned = {} /\ changes = 0 /\ faults = 0 /\ reads = 0
    BY DEF Init
  <2> QED
    BY <1>0, <2>1, <2>2, <2>3, <2>4, <2>5, NothingIs, Numbers DEF TypeOK, PassState
<1>2. PassKnows /\ WorkLeft /\ NewsIsNewer /\ WrittenIsMirrored
  BY <1>0, NothingIs DEF PassKnows, WorkLeft, NewsIsNewer, WrittenIsMirrored
<1>3. InThePast
  BY <1>0, NothingIs, Numbers DEF InThePast
<1>4. OnItsWay /\ SkippedIsMirrored /\ TextIsCurrent
  BY <1>0, NothingIs, Numbers DEF OnItsWay, SkippedIsMirrored, Skipped, TextIsCurrent
<1> QED
  BY <1>0, <1>1, <1>2, <1>3, <1>4 DEF MirrorInv

----------------------------------------------------------------------------
(* Proton's own changes. *)
LEMMA ProtonKeeps ==
  ASSUME MirrorInv, Proton PROVE MirrorInv'
<1>0. /\ srv \in [Events -> Edit] /\ row \in [Events -> Edit] /\ mark \in [Calendars -> Edit]
      /\ clock \in Edit /\ pass \in PassState /\ PassKnows /\ InThePast
      /\ NewsIsNewer /\ WrittenIsMirrored /\ SkippedIsMirrored
      /\ listed \subseteq Calendars /\ returned \subseteq Calendars
  BY Types DEF MirrorInv
<1>1. /\ UNCHANGED <<calendars, row, text, raced, mark, blocked, pass, reader, refused>>
      /\ UNCHANGED <<faults, reads>> /\ changes' \in 0 .. MaxChanges
  BY Numbers, Types DEF MirrorInv, Proton, EditEvent, DeleteEvent, UnlistCalendar, RelistCalendar,
     ChangeScope, Change, local, table, bounds
<1>2. /\ srv' \in [Events -> Edit] /\ clock' \in Edit /\ clock <= clock'
      /\ \A e \in Events :
            \/ srv'[e] = srv[e]
            \/ srv'[e] = 0
            \/ srv'[e] = clock' /\ clock' = clock + 1
      /\ \A e \in Events : srv'[e] <= clock'
  <2>1. CASE \E e \in Events : EditEvent(e)
    <3>1. PICK e \in Events : clock < MaxEdit /\ clock' = clock + 1
                              /\ srv' = [srv EXCEPT ![e] = clock']
      BY <2>1 DEF EditEvent
    <3>2. clock' \in Edit
      BY <3>1, <1>0, Numbers
    <3>3. \A f \in Events : srv[f] <= clock /\ srv[f] \in Nat /\ clock \in Nat
      BY <1>0, Numbers DEF InThePast
    <3> QED
      BY <3>1, <3>2, <3>3, <1>0
  <2>2. CASE \E e \in Events : DeleteEvent(e)
    <3>1. PICK e \in Events : clock' = clock /\ srv' = [srv EXCEPT ![e] = 0]
      BY <2>2 DEF DeleteEvent
    <3>2. clock \in Nat /\ 0 \in Edit
      BY <1>0, Numbers
    <3> QED
      BY <3>1, <3>2, <1>0 DEF InThePast
  <2>3. CASE srv' = srv /\ clock' = clock
    <3>1. clock \in Nat
      BY <1>0, Numbers
    <3> QED
      BY <2>3, <3>1, <1>0 DEF InThePast
  <2> QED
    BY <2>1, <2>2, <2>3 DEF Proton, UnlistCalendar, RelistCalendar, ChangeScope
<1>3. /\ listed' \subseteq Calendars /\ returned' \subseteq Calendars
      /\ \A c \in Calendars : Steady(c)' => Steady(c)
      /\ scope' \in BOOLEAN
  <2>1. CASE \E c \in Calendars : UnlistCalendar(c)
    BY <2>1, <1>0, Types DEF UnlistCalendar, Steady, MirrorInv
  <2>2. CASE \E c \in Calendars : RelistCalendar(c)
    BY <2>2, <1>0, Types DEF RelistCalendar, Steady, MirrorInv
  <2>3. CASE UNCHANGED <<listed, returned>> /\ scope' \in BOOLEAN
    BY <2>3, <1>0 DEF Steady
  <2> QED
    BY <2>1, <2>2, <2>3, Types DEF Proton, EditEvent, DeleteEvent, ChangeScope, MirrorInv
<1>4. TypeOK'
  BY <1>1, <1>2, <1>3 DEF MirrorInv, TypeOK
<1>5. PassKnows' /\ WorkLeft' /\ OnItsWay' /\ TextIsCurrent' /\ (refused' => blocked')
  BY <1>1, <1>3 DEF MirrorInv, PassKnows, WorkLeft, OnItsWay, TextIsCurrent
<1>6. \A e \in Events : srv[e] \in Nat /\ row[e] \in Nat /\ pass.got[e] \in Nat /\ srv'[e] \in Nat
  BY <1>0, <1>2, Numbers DEF PassState
<1>7. clock \in Nat /\ clock' \in Nat /\ \A c \in Calendars : mark[c] \in Nat
  BY <1>0, <1>2, Numbers
<1>8. InThePast'
  BY <1>0, <1>1, <1>2, <1>6, <1>7 DEF InThePast
<1>9. NewsIsNewer'
  <2> SUFFICES ASSUME pass.cal # "none", NEW e \in Events, CalendarOf[e] = pass.cal,
                      srv'[e] # 0, srv'[e] # pass.got[e]
               PROVE  srv'[e] > mark[pass.cal] /\ \A f \in Events : srv'[e] > pass.got[f]
    BY <1>1 DEF NewsIsNewer
  <2>1. pass.cal \in Calendars
    BY Numbers
  <2>2. CASE srv'[e] = srv[e]
    BY <2>2, <1>0 DEF NewsIsNewer
  <2>3. CASE srv'[e] = clock + 1
    BY <2>1, <2>3, <1>0, <1>6, <1>7 DEF InThePast
  <2> QED
    BY <1>2, <2>2, <2>3
<1>10. WrittenIsMirrored'
  <2> SUFFICES ASSUME pass.pc \in {"upsert", "delete"}, Steady(pass.cal)', NEW e \in Events,
                      CalendarOf[e] = pass.cal, srv'[e] # 0, srv'[e] = pass.got[e],
                      pass.pc = "upsert" => e \notin pass.gone
               PROVE  row[e] = srv'[e]
    BY <1>1 DEF WrittenIsMirrored, Steady
  <2>1. Steady(pass.cal)
    BY <1>1, <1>3, Numbers DEF Steady
  <2>2. srv'[e] = srv[e]
    BY <1>0, <1>2, <1>6, <1>7 DEF InThePast
  <2> QED
    BY <2>1, <2>2, <1>0 DEF WrittenIsMirrored
<1>11. SkippedIsMirrored'
  <2> SUFFICES ASSUME NEW e \in Events, CalendarOf[e] \in listed', srv'[e] # 0,
                      srv'[e] <= mark[CalendarOf[e]], CalendarOf[e] \notin returned'
               PROVE  row[e] = srv'[e]
    BY <1>1 DEF SkippedIsMirrored, Skipped
  <2>1. CalendarOf[e] \in Calendars /\ CalendarOf[e] \in listed /\ CalendarOf[e] \notin returned
    BY <1>3, Numbers DEF Steady
  <2>2. srv'[e] = srv[e]
    BY <2>1, <1>0, <1>2, <1>6, <1>7 DEF InThePast
  <2> QED
    BY <2>1, <2>2, <1>0 DEF SkippedIsMirrored, Skipped
<1> QED
  BY <1>4, <1>5, <1>8, <1>9, <1>10, <1>11 DEF MirrorInv

----------------------------------------------------------------------------
(* Reads and purges change the texts only. *)
LEMMA ToolsKeep ==
  ASSUME MirrorInv, Tools PROVE MirrorInv'
<1>0. /\ srv \in [Events -> Edit] /\ row \in [Events -> Edit] /\ text \in [Events -> Edit]
      /\ pass \in PassState /\ InThePast /\ OnItsWay /\ TextIsCurrent
      /\ reader \in [pc : {"idle", "fill"}, todo : SUBSET Events, got : [Events -> Edit]]
      /\ raced \subseteq Events
  BY Types DEF MirrorInv
<1>1. \A e \in Events : srv[e] \in Nat /\ row[e] \in Nat /\ text[e] \in Nat /\ reader.got[e] \in Nat
  BY <1>0, Numbers
<1> DEFINE Keeps ==
      /\ UNCHANGED <<remote, calendars, row, mark, blocked, pass, refused, faults>>
      /\ changes' \in 0 .. MaxChanges /\ reads' \in 0 .. MaxReads
      /\ text' \in [Events -> Edit] /\ raced' \subseteq Events
      /\ reader' \in [pc : {"idle", "fill"}, todo : SUBSET Events, got : [Events -> Edit]]
      /\ OnItsWay' /\ TextIsCurrent'
<1>2. Keeps
  <2>1. ASSUME NEW S \in SUBSET Events, FetchAndDecrypt(S) PROVE Keeps
    <3> DEFINE g == [e \in Events |-> IF e \in S THEN srv[e] ELSE 0]
    <3>1. /\ UNCHANGED <<remote, calendars, row, text, raced, mark, blocked, pass, refused>>
          /\ UNCHANGED <<changes, faults>>
          /\ reads < MaxReads /\ reads' = reads + 1
          /\ \A e \in S : srv[e] # 0
          /\ reader' = [pc |-> "fill", todo |-> S, got |-> g]
      BY <2>1 DEF FetchAndDecrypt, table
    <3>2. g \in [Events -> Edit] /\ \A e \in S : g[e] = srv[e]
      BY <1>0, Numbers
    <3> HIDE DEF g
    <3>3. reader' \in [pc : {"idle", "fill"}, todo : SUBSET Events, got : [Events -> Edit]]
          /\ reader'.todo = S /\ reader'.got = g
      BY <3>1, <3>2
    <3>4. reads' \in 0 .. MaxReads
      BY <3>1, Numbers, Types DEF MirrorInv
    <3>5. OnItsWay'
      BY <3>1, <3>2, <3>3, <1>0, <1>1 DEF OnItsWay, InThePast
    <3> QED
      BY <3>1, <3>3, <3>4, <3>5, <1>0, Types DEF MirrorInv, TextIsCurrent
  <2>2. ASSUME NEW e \in Events, FillDecrypted(e) PROVE Keeps
    <3>1. /\ UNCHANGED <<remote, calendars, row, mark, blocked, pass, refused, changes, faults, reads>>
          /\ e \in reader.todo
          /\ text' = IF row[e] = 0 THEN text ELSE [text EXCEPT ![e] = reader.got[e]]
          /\ raced' = IF reader.got[e] >= row[e] THEN raced \ {e} ELSE raced
          /\ \/ reader' = NoRead
             \/ reader' = [reader EXCEPT !.todo = reader.todo \ {e}]
      BY <2>2 DEF FillDecrypted, bounds
    <3>2. /\ reader' \in [pc : {"idle", "fill"}, todo : SUBSET Events, got : [Events -> Edit]]
          /\ reader'.todo \subseteq reader.todo \ {e}
          /\ reader'.todo # {} => reader'.got = reader.got
      <4>1. CASE reader' = NoRead
        BY <4>1, NothingIs DEF NoRead
      <4>2. CASE reader' = [reader EXCEPT !.todo = reader.todo \ {e}]
        BY <4>2, <1>0
      <4> QED
        BY <3>1, <4>1, <4>2
    <3>3. text' \in [Events -> Edit] /\ raced' \subseteq Events
      BY <3>1, <1>0
    <3>4. OnItsWay'
      <4> SUFFICES ASSUME NEW f \in reader'.todo, reader'.got[f] < row[f] PROVE f \in raced'
        BY <3>1 DEF OnItsWay
      <4>1. f # e /\ f \in reader.todo /\ reader.got[f] < row[f]
        BY <3>2
      <4> QED
        BY <4>1, <3>1, <1>0 DEF OnItsWay
    <3>5. TextIsCurrent'
      <4> SUFFICES ASSUME NEW f \in Events, text'[f] # 0, text'[f] < row[f] PROVE f \in raced'
        BY <3>1 DEF TextIsCurrent
      <4>1. CASE f # e
        BY <4>1, <3>1, <1>0 DEF TextIsCurrent
      <4>2. CASE f = e
        <5>1. row[e] # 0
          BY <4>2, <1>1, <3>1, <1>0
        <5>2. text'[e] = reader.got[e]
          BY <5>1, <3>1, <1>0
        <5>3. e \in raced /\ ~(reader.got[e] >= row[e])
          BY <5>2, <4>2, <3>1, <1>0, <1>1 DEF OnItsWay
        <5> QED
          BY <4>2, <5>3, <3>1
      <4> QED
        BY <4>1, <4>2
    <3> QED
      BY <3>1, <3>2, <3>3, <3>4, <3>5, Types DEF MirrorInv
  <2>3. ASSUME NEW S \in SUBSET Events, Purge(S) PROVE Keeps
    <3>1. /\ UNCHANGED <<remote, calendars, row, raced, mark, blocked, pass, reader, refused>>
          /\ UNCHANGED <<faults, reads>>
          /\ changes < MaxChanges /\ changes' = changes + 1
          /\ text' = [e \in Events |-> IF e \in S THEN 0 ELSE text[e]]
      BY <2>3 DEF Purge, Change
    <3>2. changes' \in 0 .. MaxChanges
      BY <3>1, Numbers, Types DEF MirrorInv
    <3>3. text' \in [Events -> Edit]
      BY <3>1, <1>0, Numbers
    <3>4. OnItsWay' /\ TextIsCurrent'
      BY <3>1, <1>0 DEF OnItsWay, TextIsCurrent
    <3> QED
      BY <3>1, <3>2, <3>3, <3>4, <1>0, Types DEF MirrorInv
  <2> QED
    BY <2>1, <2>2, <2>3 DEF Tools, ReadEvent, BackfillDecrypt, Of
<1>3. TypeOK'
  BY <1>2 DEF MirrorInv, TypeOK, remote
<1>4. PassKnows' /\ WorkLeft' /\ InThePast' /\ (refused' => blocked')
  BY <1>2 DEF MirrorInv, PassKnows, WorkLeft, InThePast, Steady, remote
<1>5. NewsIsNewer' /\ WrittenIsMirrored' /\ SkippedIsMirrored'
  BY <1>2 DEF MirrorInv, NewsIsNewer, WrittenIsMirrored, SkippedIsMirrored, Skipped, Steady, remote
<1> QED
  BY <1>2, <1>3, <1>4, <1>5 DEF MirrorInv

----------------------------------------------------------------------------
(* The steps of a pass that leave the events alone. *)
PassOnly ==
    /\ UNCHANGED <<listed, returned, srv, clock, scope, row, text, raced, mark, reader>>
    /\ UNCHANGED <<changes, reads>>
    /\ faults' \in 0 .. MaxFaults
    /\ blocked' \in BOOLEAN /\ refused' \in BOOLEAN /\ (refused' => blocked')
    /\ calendars \subseteq calendars' /\ calendars' \subseteq Calendars
    /\ pass' \in PassState
    /\ pass'.cal = "none" <=> pass'.pc \notin InCalendar
    /\ PassKnows' /\ WorkLeft' /\ NewsIsNewer' /\ WrittenIsMirrored'
    /\ \A e \in Events : pass'.got[e] \in {0, pass.got[e], srv[e]}

LEMMA PassOnlyKeeps ==
  ASSUME MirrorInv, PassOnly PROVE MirrorInv'
<1>1. TypeOK'
  BY Types DEF MirrorInv, PassOnly, TypeOK, PassState, InCalendar
<1>2. InThePast'
  <2>1. \A e \in Events : srv[e] \in Nat /\ row[e] \in Nat /\ pass.got[e] \in Nat /\ clock \in Nat
    BY Types, Numbers DEF MirrorInv, PassState
  <2> QED
    BY <2>1 DEF MirrorInv, PassOnly, InThePast
<1>3. OnItsWay' /\ SkippedIsMirrored' /\ TextIsCurrent'
  BY DEF MirrorInv, PassOnly, OnItsWay, SkippedIsMirrored, Skipped, TextIsCurrent
<1> QED
  BY <1>1, <1>2, <1>3 DEF MirrorInv, PassOnly

(* A pass that is over, for whatever reason.                               *)
LEMMA EndKeeps ==
  ASSUME MirrorInv, CutOff \/ ClearBlocked \/ SetBlocked PROVE MirrorInv'
<1>1. /\ UNCHANGED <<listed, returned, srv, clock, scope, row, text, raced, mark, reader>>
      /\ UNCHANGED <<changes, reads, calendars>> /\ pass' = NoPass
  BY DEF CutOff, ClearBlocked, SetBlocked, Pass, remote, table, bounds
<1>2. blocked' \in BOOLEAN /\ refused' \in BOOLEAN /\ (refused' => blocked')
  <2>1. CASE CutOff
    BY <2>1, Types DEF MirrorInv, CutOff
  <2>2. CASE ClearBlocked
    BY <2>2 DEF ClearBlocked
  <2>3. CASE SetBlocked
    BY <2>3 DEF SetBlocked
  <2> QED
    BY <2>1, <2>2, <2>3
<1>3. faults' \in 0 .. MaxFaults
  BY Types, Numbers DEF MirrorInv, CutOff, ClearBlocked, SetBlocked, Fault, bounds
<1>4. PassKnows' /\ WorkLeft' /\ NewsIsNewer' /\ WrittenIsMirrored'
  BY <1>1, NothingIs DEF PassKnows, WorkLeft, NewsIsNewer, WrittenIsMirrored
<1>5. PassOnly
  BY <1>1, <1>2, <1>3, <1>4, NothingIs, Types DEF MirrorInv, PassOnly, InCalendar
<1> QED
  BY <1>5, PassOnlyKeeps

(* The calendars, before any of their events.                              *)
LEMMA CalendarsKeep ==
  ASSUME MirrorInv,
         GetCalendars \/ ListCalendars \/ NextPhase \/ (\E c \in Calendars : UpsertCalendar(c))
  PROVE  MirrorInv'
<1>0. /\ pass \in PassState /\ (pass.cal = "none" <=> pass.pc \notin InCalendar)
      /\ calendars \subseteq Calendars /\ listed \subseteq Calendars /\ PassKnows
  BY Types DEF MirrorInv
<1>1. /\ UNCHANGED <<listed, returned, srv, clock, scope, row, text, raced, mark, reader>>
      /\ UNCHANGED <<changes, reads, faults, blocked, refused>>
  BY DEF GetCalendars, ListCalendars, NextPhase, UpsertCalendar, remote, table, bounds
<1>2. /\ calendars \subseteq calendars' /\ calendars' \subseteq Calendars
      /\ pass' \in PassState /\ pass'.cal = "none" /\ pass'.pc \notin InCalendar
      /\ PassKnows'
      /\ \A e \in Events : pass'.got[e] \in {0, pass.got[e]}
  <2>1. CASE GetCalendars
    <3>1. pass' = [NoPass EXCEPT !.pc = "rows", !.cals = listed, !.left = listed, !.todo = listed]
          /\ calendars' = calendars
      BY <2>1 DEF GetCalendars, Pass
    <3>2. /\ pass' \in PassState /\ pass'.pc = "rows" /\ pass'.cals = listed
          /\ pass'.left = listed /\ pass'.todo = listed /\ pass'.cal = "none"
          /\ pass'.got = Nothing
      BY <3>1, <1>0, NothingIs DEF PassState, PassPcs
    <3> QED
      BY <3>1, <3>2, <1>0, <1>1, NothingIs DEF PassKnows, Steady, InCalendar
  <2>2. CASE ListCalendars
    <3>1. /\ pass' = [pass EXCEPT !.pc = "vanished", !.todo = calendars \ pass.cals]
          /\ pass.pc = "rows" /\ pass.todo = {} /\ calendars' = calendars
      BY <2>2 DEF ListCalendars, Pass
    <3>2. /\ pass' \in PassState /\ pass'.pc = "vanished" /\ pass'.cals = pass.cals
          /\ pass'.left = pass.left /\ pass'.todo = calendars \ pass.cals
          /\ pass'.cal = pass.cal /\ pass'.got = pass.got
      BY <3>1, <1>0 DEF PassState, PassPcs
    <3> QED
      BY <3>1, <3>2, <1>0, <1>1 DEF PassKnows, Steady, InCalendar
  <2>3. CASE NextPhase
    <3>1. PICK pc \in {"clear", "fetch"} :
            /\ pass' = [pass EXCEPT !.pc = pc]
            /\ pass.pc = "vanished" /\ calendars' = calendars
      BY <2>3 DEF NextPhase, Pass
    <3>2. /\ pass' \in PassState /\ pass'.pc = pc /\ pass'.cals = pass.cals
          /\ pass'.left = pass.left /\ pass'.cal = pass.cal /\ pass'.got = pass.got
      BY <3>1, <1>0 DEF PassState, PassPcs
    <3> QED
      BY <3>1, <3>2, <1>0, <1>1 DEF PassKnows, Steady, InCalendar
  <2>4. CASE \E c \in Calendars : UpsertCalendar(c)
    <3>1. PICK c \in Calendars :
            /\ pass' = [pass EXCEPT !.todo = pass.todo \ {c}]
            /\ pass.pc = "rows" /\ calendars' = calendars \cup {c}
      BY <2>4 DEF UpsertCalendar, Pass
    <3>2. /\ pass' \in PassState /\ pass'.pc = pass.pc /\ pass'.cals = pass.cals
          /\ pass'.left = pass.left /\ pass'.todo = pass.todo \ {c}
          /\ pass'.cal = pass.cal /\ pass'.got = pass.got
      BY <3>1, <1>0 DEF PassState
    <3> QED
      BY <3>1, <3>2, <1>0, <1>1 DEF PassKnows, Steady, InCalendar
  <2> QED
    BY <2>1, <2>2, <2>3, <2>4
<1>3. WorkLeft' /\ NewsIsNewer' /\ WrittenIsMirrored'
  BY <1>2 DEF WorkLeft, NewsIsNewer, WrittenIsMirrored, InCalendar
<1>4. PassOnly
  BY <1>1, <1>2, <1>3, Types DEF MirrorInv, PassOnly
<1> QED
  BY <1>4, PassOnlyKeeps

LEMMA FetchKeeps ==
  ASSUME MirrorInv, NEW c \in Calendars, FetchEvents(c) PROVE MirrorInv'
<1>0. /\ pass \in PassState /\ (pass.cal = "none" <=> pass.pc \notin InCalendar)
      /\ srv \in [Events -> Edit] /\ calendars \subseteq Calendars /\ PassKnows
  BY Types DEF MirrorInv
<1>1. /\ UNCHANGED <<listed, returned, srv, clock, scope, row, text, raced, mark, reader>>
      /\ UNCHANGED <<changes, reads, faults, blocked, refused, calendars>>
      /\ pass.pc = "fetch" /\ c \in pass.left
  BY DEF FetchEvents, remote, table, bounds
<1> DEFINE g == [e \in Events |-> IF e \in Of(c) THEN srv[e] ELSE 0]
<1>2. \/ pass' = [pass EXCEPT !.pc = "refused"]
      \/ pass' = NoPass
      \/ pass' = [pass EXCEPT !.pc = "mark", !.cal = c, !.left = pass.left \ {c}, !.got = g]
  BY DEF FetchEvents, Pass
<1>3. g \in [Events -> Edit] /\ \A e \in Events : g[e] = (IF CalendarOf[e] = c THEN srv[e] ELSE 0)
  BY <1>0, Numbers DEF Of
<1> HIDE DEF g
<1>4. /\ pass' \in PassState /\ (pass'.cal = "none" <=> pass'.pc \notin InCalendar)
      /\ PassKnows' /\ WorkLeft' /\ NewsIsNewer' /\ WrittenIsMirrored'
      /\ \A e \in Events : pass'.got[e] \in {0, pass.got[e], srv[e]}
  <2>1. CASE pass' = NoPass
    BY <2>1, NothingIs
       DEF InCalendar, PassKnows, WorkLeft, NewsIsNewer, WrittenIsMirrored
  <2>2. CASE pass' = [pass EXCEPT !.pc = "refused"]
    <3>1. /\ pass' \in PassState /\ pass'.pc = "refused" /\ pass'.cals = pass.cals
          /\ pass'.left = pass.left /\ pass'.cal = pass.cal /\ pass'.got = pass.got
          /\ pass.cal = "none"
      BY <2>2, <1>0, <1>1 DEF PassState, PassPcs, InCalendar
    <3> QED
      BY <3>1, <1>0, <1>1
         DEF InCalendar, PassKnows, WorkLeft, NewsIsNewer, WrittenIsMirrored, Steady
  <2>3. CASE pass' = [pass EXCEPT !.pc = "mark", !.cal = c, !.left = pass.left \ {c}, !.got = g]
    <3>1. /\ pass' \in PassState /\ pass'.pc = "mark" /\ pass'.cals = pass.cals
          /\ pass'.left = pass.left \ {c} /\ pass'.cal = c /\ pass'.got = g
      BY <2>3, <1>0, <1>3 DEF PassState, PassPcs
    <3>2. PassKnows'
      BY <3>1, <1>0, <1>1 DEF PassKnows, Steady
    <3>3. NewsIsNewer'
      BY <3>1, <1>1, <1>3 DEF NewsIsNewer
    <3>4. WorkLeft' /\ WrittenIsMirrored'
      BY <3>1, <1>3 DEF WorkLeft, WrittenIsMirrored
    <3> QED
      BY <3>1, <3>2, <3>3, <3>4, <1>3, Numbers DEF InCalendar
  <2> QED
    BY <1>2, <2>1, <2>2, <2>3
<1>5. PassOnly
  BY <1>0, <1>1, <1>4, Types DEF MirrorInv, PassOnly
<1> QED
  BY <1>5, PassOnlyKeeps

(* The mark is read, the list of what to delete is made.                   *)
LEMMA ListsKeep ==
  ASSUME MirrorInv, ReadMaxEdit \/ ListEvents PROVE MirrorInv'
<1>0. /\ pass \in PassState /\ (pass.cal = "none" <=> pass.pc \notin InCalendar)
      /\ srv \in [Events -> Edit] /\ mark \in [Calendars -> Edit] /\ PassKnows /\ WorkLeft
      /\ NewsIsNewer /\ WrittenIsMirrored /\ SkippedIsMirrored
      /\ calendars \subseteq Calendars
  BY Types DEF MirrorInv
<1>1. /\ UNCHANGED <<listed, returned, srv, clock, scope, row, text, raced, mark, reader>>
      /\ UNCHANGED <<changes, reads, faults, blocked, refused, calendars>>
      /\ pass.pc \in {"mark", "upsert"}
  BY DEF ReadMaxEdit, ListEvents, remote, table, bounds
<1>2. pass.cal \in Calendars /\ mark[pass.cal] \in Nat
      /\ \A e \in Events : pass.got[e] \in Nat /\ srv[e] \in Nat
  BY <1>0, <1>1, Numbers DEF PassState, InCalendar
<1>3. CASE ReadMaxEdit
  <2> DEFINE G == {e \in Events : pass.got[e] > mark[pass.cal]}
  <2>0. pass.pc = "mark"
        /\ pass' = [pass EXCEPT !.pc = "upsert", !.max = mark[pass.cal], !.gone = G]
    BY <1>3 DEF ReadMaxEdit, Pass
  <2>1. /\ pass' \in PassState /\ pass'.pc = "upsert" /\ pass'.max = mark[pass.cal]
        /\ pass'.gone = G /\ pass'.cals = pass.cals /\ pass'.left = pass.left
        /\ pass'.cal = pass.cal /\ pass'.got = pass.got
    BY <2>0, <1>0, <1>2 DEF PassState, PassPcs
  <2>2. G \subseteq Events /\ \A e \in Events : e \in G <=> pass.got[e] > mark[pass.cal]
    OBVIOUS
  <2> HIDE DEF G
  <2>3. PassKnows' /\ NewsIsNewer'
    BY <2>0, <2>1, <1>0, <1>1 DEF PassKnows, NewsIsNewer, Steady
  <2>4. WrittenIsMirrored'
    <3> SUFFICES ASSUME Steady(pass.cal), NEW e \in Events, CalendarOf[e] = pass.cal,
                        srv[e] # 0, srv[e] = pass.got[e], e \notin G
                 PROVE  row[e] = srv[e]
      BY <2>1, <1>1 DEF WrittenIsMirrored, Steady
    <3>1. srv[e] <= mark[pass.cal]
      BY <2>2, <1>2
    <3> QED
      BY <3>1, <1>0 DEF SkippedIsMirrored, Skipped, Steady
  <2>5. WorkLeft'
    <3>1. \A e \in Events : pass.got[e] # 0 => CalendarOf[e] = pass.cal
      BY <1>0, <1>2, Numbers DEF WorkLeft
    <3>2. \A e \in G : pass.got[e] # 0 /\ pass.got[e] > mark[pass.cal]
      BY <2>2, <1>2
    <3> QED
      BY <2>1, <2>2, <1>1, <3>1, <3>2 DEF WorkLeft
  <2>6. PassOnly
    BY <1>0, <1>1, <2>1, <2>3, <2>4, <2>5, <1>2, Numbers, Types DEF MirrorInv, PassOnly, InCalendar
  <2> QED
    BY <2>6, PassOnlyKeeps
<1>4. CASE ListEvents
  <2> DEFINE G == {e \in Rows(pass.cal) : pass.got[e] = 0}
  <2>0. pass.pc = "upsert" /\ pass.gone = {}
        /\ pass' = [pass EXCEPT !.pc = "delete", !.gone = G]
    BY <1>4 DEF ListEvents, Pass
  <2>1. G \subseteq Events /\ \A e \in G : CalendarOf[e] = pass.cal /\ pass.got[e] = 0
    BY DEF Rows, Of
  <2> HIDE DEF G
  <2>2. /\ pass' \in PassState /\ pass'.pc = "delete" /\ pass'.max = pass.max
        /\ pass'.gone = G /\ pass'.cals = pass.cals /\ pass'.left = pass.left
        /\ pass'.cal = pass.cal /\ pass'.got = pass.got
    BY <2>0, <2>1, <1>0 DEF PassState, PassPcs
  <2>3. PassKnows' /\ NewsIsNewer' /\ WorkLeft'
    BY <2>0, <2>1, <2>2, <1>0, <1>1 DEF PassKnows, NewsIsNewer, WorkLeft, Steady
  <2>4. WrittenIsMirrored'
    BY <2>0, <2>2, <1>0, <1>1 DEF WrittenIsMirrored, Steady
  <2>5. PassOnly
    BY <1>0, <1>1, <2>2, <2>3, <2>4, <1>2, Numbers, Types DEF MirrorInv, PassOnly, InCalendar
  <2> QED
    BY <2>5, PassOnlyKeeps
<1> QED
  BY <1>3, <1>4

----------------------------------------------------------------------------
(* The steps of a pass that write the mirror. *)

(* What every such step has in common: the rows it leaves or removes.      *)
RowsOnly ==
    /\ UNCHANGED <<listed, returned, srv, clock, scope, reader, blocked, refused>>
    /\ UNCHANGED <<changes, faults, reads>>
    /\ calendars' \subseteq calendars /\ pass' \in PassState
    /\ pass'.got = pass.got
    /\ pass'.cals = pass.cals /\ pass'.left = pass.left /\ pass'.cal = pass.cal
    /\ pass'.pc = pass.pc /\ pass'.max = pass.max
    /\ UNCHANGED mark
    /\ row' \in [Events -> Edit] /\ text' \in [Events -> Edit] /\ raced' \subseteq Events
    /\ \A e \in Events : row'[e] # 0 => CalendarOf[e] \in calendars'
    /\ \A e \in Events :
         \/ row'[e] = row[e] /\ text'[e] = text[e] /\ (e \in raced' <=> e \in raced)
         \/ row'[e] = 0 /\ text'[e] = 0
         \/ /\ row'[e] = pass.got[e]
            /\ text'[e] = 0 \/ (text'[e] = text[e] /\ pass.got[e] <= row[e])
            /\ IF e \in reader.todo /\ reader.got[e] < pass.got[e] THEN e \in raced'
               ELSE pass.got[e] <= row[e] => (e \in raced' <=> e \in raced)
    /\ \A e \in Events : Steady(CalendarOf[e]) /\ row'[e] # row[e] /\ srv[e] # 0 =>
         srv[e] > mark[CalendarOf[e]]

LEMMA RowsOnlyKeeps ==
  ASSUME MirrorInv, RowsOnly, PassKnows', WorkLeft', WrittenIsMirrored'
  PROVE  MirrorInv'
<1>0. /\ srv \in [Events -> Edit] /\ row \in [Events -> Edit] /\ text \in [Events -> Edit]
      /\ mark \in [Calendars -> Edit] /\ clock \in Edit /\ pass \in PassState
      /\ reader \in [pc : {"idle", "fill"}, todo : SUBSET Events, got : [Events -> Edit]]
      /\ InThePast /\ OnItsWay /\ TextIsCurrent /\ SkippedIsMirrored /\ NewsIsNewer
  BY Types DEF MirrorInv
<1>1. /\ \A e \in Events : /\ srv[e] \in Nat /\ row[e] \in Nat /\ pass.got[e] \in Nat
                           /\ text[e] \in Nat /\ reader.got[e] \in Nat
                           /\ CalendarOf[e] \in Calendars
      /\ clock \in Nat /\ \A c \in Calendars : mark[c] \in Nat
  BY <1>0, Numbers DEF PassState
<1>2. TypeOK'
  BY Types DEF MirrorInv, RowsOnly, TypeOK, PassState, InCalendar
<1>3. InThePast'
  BY <1>0, <1>1 DEF RowsOnly, InThePast
<1>4. NewsIsNewer'
  BY <1>0 DEF RowsOnly, NewsIsNewer
<1>5. OnItsWay'
  <2> SUFFICES ASSUME NEW e \in reader.todo, reader.got[e] < row'[e] PROVE e \in raced'
    BY DEF RowsOnly, OnItsWay
  <2>1. e \in Events
    BY <1>0
  <2> QED
    BY <2>1, <1>0, <1>1 DEF RowsOnly, OnItsWay
<1>6. TextIsCurrent'
  <2> SUFFICES ASSUME NEW e \in Events, text'[e] # 0, text'[e] < row'[e] PROVE e \in raced'
    BY DEF TextIsCurrent
  <2>1. CASE row'[e] = row[e] /\ text'[e] = text[e] /\ (e \in raced' <=> e \in raced)
    BY <2>1, <1>0 DEF TextIsCurrent
  <2>2. CASE /\ row'[e] = pass.got[e] /\ text'[e] = text[e] /\ pass.got[e] <= row[e]
             /\ IF e \in reader.todo /\ reader.got[e] < pass.got[e] THEN e \in raced'
                ELSE pass.got[e] <= row[e] => (e \in raced' <=> e \in raced)
    BY <2>2, <1>0, <1>1 DEF TextIsCurrent
  <2> QED
    BY <2>1, <2>2 DEF RowsOnly
<1>7. SkippedIsMirrored'
  BY <1>0, <1>1 DEF RowsOnly, SkippedIsMirrored, Skipped, Steady
<1> QED
  BY <1>2, <1>3, <1>4, <1>5, <1>6, <1>7 DEF MirrorInv, RowsOnly

LEMMA UpsertKeeps ==
  ASSUME MirrorInv, NEW e \in Events, UpsertEvent(e) PROVE MirrorInv'
<1>0. /\ srv \in [Events -> Edit] /\ row \in [Events -> Edit] /\ text \in [Events -> Edit]
      /\ mark \in [Calendars -> Edit] /\ pass \in PassState /\ raced \subseteq Events
      /\ (pass.cal = "none" <=> pass.pc \notin InCalendar)
      /\ PassKnows /\ WorkLeft /\ InThePast /\ WrittenIsMirrored
      /\ \A f \in Events : row[f] # 0 => CalendarOf[f] \in calendars
  BY Types DEF MirrorInv
<1>1. /\ UNCHANGED <<listed, returned, srv, clock, scope, reader, blocked, refused, calendars, mark>>
      /\ UNCHANGED <<changes, faults, reads>>
      /\ pass.pc = "upsert" /\ e \in pass.gone
      /\ row' = [row EXCEPT ![e] = pass.got[e]]
      /\ text' = [text EXCEPT ![e] = IF pass.got[e] > row[e] THEN 0 ELSE text[e]]
      /\ raced' = IF e \in reader.todo /\ reader.got[e] < pass.got[e] THEN raced \cup {e}
                  ELSE IF pass.got[e] > row[e] THEN raced \ {e} ELSE raced
      /\ pass' = [pass EXCEPT !.gone = pass.gone \ {e}]
  BY DEF UpsertEvent, Pass, KeptText, remote, bounds
<1>2. /\ pass' \in PassState /\ pass'.gone = pass.gone \ {e} /\ pass'.pc = pass.pc
      /\ pass'.got = pass.got /\ pass'.cals = pass.cals /\ pass'.left = pass.left
      /\ pass'.cal = pass.cal /\ pass'.max = pass.max
  BY <1>0, <1>1 DEF PassState
<1>3. /\ CalendarOf[e] = pass.cal /\ pass.got[e] > mark[pass.cal] /\ pass.cal \in Calendars
      /\ pass.cal \in calendars
  BY <1>0, <1>1, Numbers DEF WorkLeft, PassKnows, InCalendar
<1>4. pass.got[e] \in Nat /\ row[e] \in Nat /\ srv[e] \in Nat /\ mark[pass.cal] \in Nat
      /\ pass.got[e] \in Edit /\ text[e] \in Edit
  BY <1>0, <1>3, Numbers DEF PassState
<1>5. row' \in [Events -> Edit] /\ text' \in [Events -> Edit] /\ raced' \subseteq Events
  BY <1>0, <1>1, <1>4, Numbers
<1>6. PassKnows' /\ WorkLeft'
  BY <1>0, <1>1, <1>2 DEF PassKnows, WorkLeft, Steady
<1>7. WrittenIsMirrored'
  BY <1>0, <1>1, <1>2 DEF WrittenIsMirrored, Steady
<1>8. srv[e] # 0 => srv[e] > mark[CalendarOf[e]]
  BY <1>0, <1>3, <1>4 DEF InThePast
<1>9. \A f \in Events : f # e => row'[f] = row[f] /\ text'[f] = text[f]
                                 /\ (f \in raced' <=> f \in raced)
  BY <1>0, <1>1
<1>10. /\ row'[e] = pass.got[e]
       /\ text'[e] = 0 \/ (text'[e] = text[e] /\ pass.got[e] <= row[e])
       /\ IF e \in reader.todo /\ reader.got[e] < pass.got[e] THEN e \in raced'
          ELSE pass.got[e] <= row[e] => (e \in raced' <=> e \in raced)
  BY <1>0, <1>1, <1>4
<1>11. RowsOnly
  BY <1>0, <1>1, <1>2, <1>3, <1>5, <1>8, <1>9, <1>10 DEF RowsOnly
<1> QED
  BY <1>6, <1>7, <1>11, RowsOnlyKeeps

LEMMA DeleteRowKeeps ==
  ASSUME MirrorInv, NEW e \in Events, DeleteRow(e) PROVE MirrorInv'
<1>0. /\ srv \in [Events -> Edit] /\ row \in [Events -> Edit] /\ text \in [Events -> Edit]
      /\ mark \in [Calendars -> Edit] /\ pass \in PassState /\ raced \subseteq Events
      /\ (pass.cal = "none" <=> pass.pc \notin InCalendar)
      /\ PassKnows /\ WorkLeft /\ NewsIsNewer /\ WrittenIsMirrored
      /\ \A f \in Events : row[f] # 0 => CalendarOf[f] \in calendars
  BY Types DEF MirrorInv
<1>1. /\ UNCHANGED <<listed, returned, srv, clock, scope, reader, blocked, refused, calendars, mark>>
      /\ UNCHANGED <<changes, faults, reads>>
      /\ pass.pc = "delete" /\ e \in pass.gone
      /\ row' = [row EXCEPT ![e] = 0] /\ text' = [text EXCEPT ![e] = 0]
      /\ raced' = raced \ {e}
      /\ pass' = [pass EXCEPT !.gone = pass.gone \ {e}]
  BY DEF DeleteRow, Pass, remote, bounds
<1>2. /\ pass' \in PassState /\ pass'.gone = pass.gone \ {e} /\ pass'.pc = pass.pc
      /\ pass'.got = pass.got /\ pass'.cals = pass.cals /\ pass'.left = pass.left
      /\ pass'.cal = pass.cal /\ pass'.max = pass.max
  BY <1>0, <1>1 DEF PassState
<1>3. CalendarOf[e] = pass.cal /\ pass.got[e] = 0 /\ pass.cal # "none"
  BY <1>0, <1>1 DEF WorkLeft, InCalendar
<1>5. row' \in [Events -> Edit] /\ text' \in [Events -> Edit] /\ raced' \subseteq Events
  BY <1>0, <1>1, Numbers
<1>6. PassKnows' /\ WorkLeft'
  BY <1>0, <1>1, <1>2 DEF PassKnows, WorkLeft, Steady
<1>7. WrittenIsMirrored'
  BY <1>0, <1>1, <1>2, <1>3 DEF WrittenIsMirrored, Steady
<1>8. srv[e] # 0 => srv[e] > mark[CalendarOf[e]]
  BY <1>0, <1>3 DEF NewsIsNewer
<1>9. \A f \in Events : f # e => row'[f] = row[f] /\ text'[f] = text[f]
                                 /\ (f \in raced' <=> f \in raced)
  BY <1>0, <1>1
<1>10. row'[e] = 0 /\ text'[e] = 0
  BY <1>0, <1>1
<1>11. RowsOnly
  BY <1>0, <1>1, <1>2, <1>5, <1>8, <1>9, <1>10 DEF RowsOnly
<1> QED
  BY <1>6, <1>7, <1>11, RowsOnlyKeeps

LEMMA DeleteCalendarKeeps ==
  ASSUME MirrorInv, NEW c \in Calendars, DeleteCalendar(c) PROVE MirrorInv'
<1>0. /\ row \in [Events -> Edit] /\ text \in [Events -> Edit]
      /\ pass \in PassState /\ raced \subseteq Events
      /\ (pass.cal = "none" <=> pass.pc \notin InCalendar)
      /\ calendars \subseteq Calendars /\ PassKnows /\ WorkLeft
      /\ \A f \in Events : row[f] # 0 => CalendarOf[f] \in calendars
  BY Types DEF MirrorInv
<1>1. /\ UNCHANGED <<listed, returned, srv, clock, scope, reader, blocked, refused, mark>>
      /\ UNCHANGED <<changes, faults, reads>>
      /\ pass.pc = "vanished" /\ c \in pass.todo /\ calendars' = calendars \ {c}
      /\ row' = [e \in Events |-> IF e \in Of(c) THEN 0 ELSE row[e]]
      /\ text' = [e \in Events |-> IF e \in Of(c) THEN 0 ELSE text[e]]
      /\ raced' = raced \ Of(c)
      /\ pass' = [pass EXCEPT !.todo = pass.todo \ {c}]
  BY DEF DeleteCalendar, Pass, remote, bounds
<1>2. /\ pass' \in PassState /\ pass'.todo = pass.todo \ {c} /\ pass'.pc = pass.pc
      /\ pass'.got = pass.got /\ pass'.cals = pass.cals /\ pass'.left = pass.left
      /\ pass'.cal = pass.cal /\ pass'.max = pass.max /\ pass'.gone = pass.gone
  BY <1>0, <1>1 DEF PassState
<1>3. c \notin pass.cals /\ ~Steady(c)
  BY <1>0, <1>1 DEF PassKnows
<1>4. \A e \in Events :
        IF CalendarOf[e] = c THEN row'[e] = 0 /\ text'[e] = 0
        ELSE row'[e] = row[e] /\ text'[e] = text[e] /\ (e \in raced' <=> e \in raced)
  BY <1>0, <1>1 DEF Of
<1>5. row' \in [Events -> Edit] /\ text' \in [Events -> Edit] /\ raced' \subseteq Events
  BY <1>0, <1>1, Numbers
<1>6. PassKnows' /\ WorkLeft'
  BY <1>0, <1>1, <1>2, <1>3 DEF PassKnows, WorkLeft, Steady, InCalendar
<1>7. WrittenIsMirrored'
  BY <1>1, <1>2 DEF WrittenIsMirrored
<1>8. RowsOnly
  BY <1>0, <1>1, <1>2, <1>3, <1>4, <1>5 DEF RowsOnly
<1> QED
  BY <1>6, <1>7, <1>8, RowsOnlyKeeps

(* The mark goes up when every event below the new one is in the mirror.   *)
LEMMA SaveMarkKeeps ==
  ASSUME MirrorInv, SaveMark PROVE MirrorInv'
<1>0. /\ srv \in [Events -> Edit] /\ row \in [Events -> Edit] /\ mark \in [Calendars -> Edit]
      /\ clock \in Edit /\ pass \in PassState
      /\ (pass.cal = "none" <=> pass.pc \notin InCalendar)
      /\ PassKnows /\ WorkLeft /\ InThePast /\ NewsIsNewer /\ WrittenIsMirrored
      /\ SkippedIsMirrored
  BY Types DEF MirrorInv
<1>1. PICK pc \in {"clear", "fetch"} :
        /\ UNCHANGED <<listed, returned, srv, clock, scope, row, text, raced, reader>>
        /\ UNCHANGED <<blocked, refused, calendars, changes, faults, reads>>
        /\ pass.pc = "delete" /\ pass.gone = {}
        /\ mark' = [mark EXCEPT ![pass.cal] = NewMax]
        /\ pass' = [pass EXCEPT !.pc = pc, !.cal = "none", !.got = Nothing, !.max = 0]
  BY DEF SaveMark, Pass, remote, table, bounds
<1>2. /\ pass' \in PassState /\ pass'.pc = pc /\ pass'.cal = "none" /\ pass'.got = Nothing
      /\ pass'.cals = pass.cals /\ pass'.left = pass.left
  BY <1>0, <1>1, NothingIs, Numbers DEF PassState, PassPcs
<1>3. pass.cal \in Calendars /\ pass.max = mark[pass.cal] /\ pass.max \in Edit
  BY <1>0, <1>1 DEF PassState, WorkLeft, InCalendar
<1> DEFINE S == {pass.got[e] : e \in Events} \cup {pass.max}
<1>4. /\ NewMax \in S /\ \A n \in S : n <= NewMax
  <2>1. S \subseteq 0 .. MaxEdit /\ S # {}
    BY <1>0, <1>3, Numbers DEF PassState
  <2>2. \E m \in S : \A n \in S : n <= m
    <3> HIDE DEF S
    <3> QED
      BY <2>1, GreatestExists, Numbers
  <2>3. NewMax = CHOOSE m \in S : \A n \in S : n <= m
    BY DEF NewMax
  <2> HIDE DEF S
  <2> QED
    BY <2>2, <2>3
<1>5. /\ NewMax \in Edit /\ NewMax <= clock
      /\ NewMax = mark[pass.cal] \/ \E e \in Events : NewMax = pass.got[e]
  BY <1>0, <1>3, <1>4 DEF PassState, InThePast
<1> HIDE DEF S
<1>6. mark' \in [Calendars -> Edit] /\ mark'[pass.cal] = NewMax
      /\ \A c \in Calendars : c # pass.cal => mark'[c] = mark[c]
  BY <1>0, <1>1, <1>3, <1>5
<1>7. TypeOK'
  BY <1>1, <1>2, <1>6 DEF MirrorInv, TypeOK, PassState, InCalendar
<1>8. PassKnows' /\ WorkLeft' /\ NewsIsNewer' /\ WrittenIsMirrored'
  BY <1>0, <1>1, <1>2 DEF PassKnows, WorkLeft, NewsIsNewer, WrittenIsMirrored, Steady
<1>9. \A e \in Events : srv[e] \in Nat /\ pass.got[e] \in Nat /\ row[e] \in Nat
                        /\ CalendarOf[e] \in Calendars /\ mark[pass.cal] \in Nat
                        /\ NewMax \in Nat /\ clock \in Nat
  BY <1>0, <1>3, <1>5, Numbers DEF PassState
<1>10. InThePast'
  BY <1>0, <1>1, <1>2, <1>5, <1>6, <1>9, NothingIs DEF InThePast
<1>11. SkippedIsMirrored'
  <2> SUFFICES ASSUME NEW e \in Events, Steady(CalendarOf[e]), srv[e] # 0,
                      srv[e] <= mark'[CalendarOf[e]]
               PROVE  row[e] = srv[e]
    BY <1>1 DEF SkippedIsMirrored, Skipped, Steady
  <2>1. CASE CalendarOf[e] # pass.cal
    BY <2>1, <1>0, <1>6, <1>9 DEF SkippedIsMirrored, Skipped, Steady
  <2>2. CASE CalendarOf[e] = pass.cal
    <3>1. srv[e] = pass.got[e]
      BY <2>2, <1>0, <1>3, <1>5, <1>6, <1>9, Numbers DEF NewsIsNewer
    <3> QED
      BY <2>2, <3>1, <1>0, <1>1 DEF WrittenIsMirrored
  <2> QED
    BY <2>1, <2>2
<1>12. OnItsWay' /\ TextIsCurrent' /\ (refused' => blocked')
  BY <1>1 DEF MirrorInv, OnItsWay, TextIsCurrent
<1> QED
  BY <1>7, <1>8, <1>10, <1>11, <1>12 DEF MirrorInv

----------------------------------------------------------------------------
LEMMA MirrorInvariant == Spec => []MirrorInv
<1>1. Init => MirrorInv
  BY MirrorInit
<1>2. MirrorInv /\ [Next]_vars => MirrorInv'
  <2> SUFFICES ASSUME MirrorInv, [Next]_vars PROVE MirrorInv'
    OBVIOUS
  <2>1. CASE PassStep
    BY <2>1, EndKeeps, CalendarsKeep, FetchKeeps, ListsKeep, UpsertKeeps, DeleteRowKeeps,
       DeleteCalendarKeeps, SaveMarkKeeps DEF PassStep
  <2>2. CASE CutOff
    BY <2>2, EndKeeps
  <2>3. CASE Proton
    BY <2>3, ProtonKeeps
  <2>4. CASE Tools
    BY <2>4, ToolsKeep
  <2>5. CASE UNCHANGED vars
    BY <2>5 DEF vars, remote, table, bounds, MirrorInv, TypeOK, PassKnows, WorkLeft, InThePast,
                NewsIsNewer, WrittenIsMirrored, OnItsWay, SkippedIsMirrored, Skipped,
                TextIsCurrent, Steady
  <2> QED
    BY <2>1, <2>2, <2>3, <2>4, <2>5 DEF Next
<1> QED
  BY <1>1, <1>2, PTL DEF Spec

(* The types, and with them the foreign key of calendar_events             *)
(* (store/calendar.go): every row has its calendar's row.                  *)
THEOREM CalendarTypes == Spec => []TypeOK
<1>1. MirrorInv => TypeOK
  BY DEF MirrorInv
<1> QED
  BY <1>1, MirrorInvariant, PTL

(* applyCalendarEvents skips for good what is at or below the mark         *)
(* (sync/calendar.go): wherever earlier passes were cut off and whatever   *)
(* changed at Proton under them, it is in the mirror.                      *)
THEOREM SkippedStaysMirrored == Spec => []SkippedIsMirrored
<1>1. MirrorInv => SkippedIsMirrored
  BY DEF MirrorInv
<1> QED
  BY <1>1, MirrorInvariant, PTL

(* UpsertCalendarEvent drops the text of an older edit (#130) and          *)
(* FillDecrypted writes by id: a text is as new as its row, unless the row *)
(* moved on while the text was on its way.                                 *)
THEOREM TextStaysCurrent == Spec => []TextIsCurrent
<1>1. MirrorInv => TextIsCurrent
  BY DEF MirrorInv
<1> QED
  BY <1>1, MirrorInvariant, PTL

(* runEventsPhase and calendar_events (#110): from the pass that met a     *)
(* missing scope to the next complete one, no answer is a plain list.      *)
THEOREM BlockStaysTold == Spec => []BlockIsTold
<1>1. MirrorInv => BlockIsTold
  BY DEF MirrorInv, BlockIsTold, EventsAnswer
<1> QED
  BY <1>1, MirrorInvariant, PTL
=============================================================================
