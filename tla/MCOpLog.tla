------------------------------- MODULE MCOpLog -------------------------------
(* Three datagrams, one caller, two dispatchers, and a limit of one, so that two *)
(* datagrams are queued and the third meets the limit.  At most one datagram is  *)
(* on the way at a time: oplog_job takes one, whatever else has arrived, and the  *)
(* order of the properties is that of oplog_job.  The clock moves between two     *)
(* days in behaviours in which the service stays up and its own threads do not    *)
(* log: the files do not depend on either.  A short datagram comes before the     *)
(* others: it changes nothing.                                                  *)
EXTENDS OpLog, FiniteSets

CONSTANTS l1

ClockMoved == day # 1 \/ clock_back

MCNext ==
    /\ Next
    /\ Cardinality(net') <= 1
    /\ Short \in net' \ net => sent = 0
    /\ day' # day => main = "running" /\ logger[l1] = "idle"
    /\ ClockMoved => main' = "running" /\ logger'[l1] = "idle" /\ sent' <= 2

MCInit == Init /\ day = 1 /\ files = {1}

MCSpec == MCInit /\ [][MCNext]_vars /\ Fairness
==============================================================================
