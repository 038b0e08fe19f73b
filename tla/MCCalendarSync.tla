--------------------------- MODULE MCCalendarSync ---------------------------
(* Constants for TLC: e1 is in the first calendar, the other events in the
   second. *)
EXTENDS CalendarSync
CONSTANTS c1, c2, e1, e2
MCCalendarOf == [e \in {e1, e2} |-> IF e = e1 THEN c1 ELSE c2]
=============================================================================
