--------------------------- MODULE MCCalendarSync ---------------------------
(* Two profiles with one deadline each.                                      *)
EXTENDS CalendarSync, TLC

CONSTANTS p1, p2

MCKeysOf == p1 :> {1} @@ p2 :> {2}

=============================================================================
