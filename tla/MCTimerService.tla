--------------------------- MODULE MCTimerService ----------------------------
(***************************************************************************)
(* TimerService with two files: a line of every other minute restricted to   *)
(* a day of the month, an @reboot line, and a line of every minute with both *)
(* day fields restricted.                                                   *)
(***************************************************************************)
EXTENDS TimerService

MCLine ==
    {[file |-> 1, reboot |-> FALSE, mins |-> {0}, days |-> {1}, dow |-> {0, 1}],
     [file |-> 1, reboot |-> TRUE, mins |-> {}, days |-> {}, dow |-> {}],
     [file |-> 2, reboot |-> FALSE, mins |-> {0, 1}, days |-> {0}, dow |-> {1}]}
==============================================================================
