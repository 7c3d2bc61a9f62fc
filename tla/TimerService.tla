----------------------------- MODULE TimerService -----------------------------
(***************************************************************************)
(* The cron scheduler (module/timer_service/timer_service.c).  One thread    *)
(* sleeps to the next minute, flags the lines that are due in the time that  *)
(* went by, starts them and collects the jobs that have finished.  The clock *)
(* may be late, be set forward or be set back, and a job takes any time.     *)
(*                                                                         *)
(* The crontab directory is read once, by timer_service_init: nothing sets   *)
(* service->rescan afterwards.  Hours and months are tests of the same form  *)
(* as minutes and are left out.  Times are in units of the short sleep.      *)
(***************************************************************************)
EXTENDS Integers, FiniteSets

CONSTANTS
    File,       \* crontab files
    Line,       \* their lines: file, reboot, mins, days, dow (as parsed)
    Minutes, Days, Week,   \* the numbers of minutes in a day, days, days of the week
    MINUTE,     \* the long sleep, in units
    HOUR,       \* the disparity above which no job runs, in units
    MaxTime,    \* bound on the clock
    Failure     \* subset of {"vfork", "exec"}

ASSUME TimerConstants ==
    /\ Line \subseteq [file : File, reboot : BOOLEAN, mins : SUBSET (0 .. Minutes - 1),
                       days : SUBSET (0 .. Days - 1), dow : SUBSET (0 .. Week - 1)]
    /\ {Minutes, Days, Week, MINUTE, HOUR} \subseteq Nat \ {0}
    /\ MaxTime \in Nat
    /\ Failure \subseteq {"vfork", "exec"}

VARIABLES
    pc,                  \* where timer_routine is: "sleep", "run", "check"
    t1, t2, sleep_time,
    cl_pid,              \* 1: running, -1: to be started, 0: dormant
    cf_wants_starting, cf_has_running,
    process,             \* the job's process: "none", "alive", "exited"
    \* history
    start,               \* when the routine began
    clock_set,           \* the clock was set back, or forward by more than HOUR
    scanned,             \* until then: how often a minute was looked at, up to 2
    tried,               \* the lines the last round called vfork for
    undefined            \* a child of vfork returned

clockVars == <<t1, t2, sleep_time, start, scanned, clock_set>>
jobVars   == <<cl_pid, cf_wants_starting, cf_has_running, process, tried, undefined>>
vars == <<pc, clockVars, jobVars>>

Lines(f) == {l \in Line : l.file = f}

\* As FixDayDow, without its memsets.
FixNothing(l) == l

\* When just one of the two is restricted, the other matches nothing.
FixDayDow(l) ==
    LET weekUsed == l.dow # 0 .. Week - 1
        daysUsed == l.days # 0 .. Days - 1
    IN  CASE weekUsed /\ ~ daysUsed -> [l EXCEPT !.days = {}]
          [] daysUsed /\ ~ weekUsed -> [l EXCEPT !.dow = {}]
          [] weekUsed = daysUsed    -> l

\* localtime of the n-th minute, and the test of flag_starting_jobs.
Matches(l, n) ==
    LET day == n \div Minutes
        f == FixDayDow(l)
    IN  ~ l.reboot /\ n % Minutes \in f.mins /\ (day % Days \in f.days \/ day % Week \in f.dow)

\* load_crontab: a file with an @reboot line wants starting.
Wants(f) == \E l \in Lines(f) : l.reboot

\* timer_service_init: load_crontab, once for every file.
Init ==
    /\ pc = "sleep"
    /\ start \in 0 .. MaxTime /\ t1 = start /\ t2 = start /\ sleep_time = MINUTE
    /\ cl_pid = [l \in Line |-> IF l.reboot THEN -1 ELSE 0]
    /\ cf_wants_starting = [f \in File |-> Wants(f)]
    /\ cf_has_running = [f \in File |-> FALSE]
    /\ process = [l \in Line |-> "none"]
    /\ scanned = [n \in 0 .. MaxTime \div MINUTE |-> 0]
    /\ clock_set = FALSE
    /\ tried = {} /\ undefined = FALSE
------------------------------------------------------------------------------
\* The next time that sleep aims at; the routine wakes later, or the clock was set.
NextWake == t2 + sleep_time - (t2 % sleep_time)

\* The end of the sleep, up to the tests on dt.
Wake ==
    /\ pc = "sleep"
    /\ t1' = t2
    /\ \/ t2' \in NextWake .. MaxTime
       \/ t2' \in 0 .. MaxTime \ {t2}
    /\ LET dt == t2' - t1' IN
       /\ pc' = IF dt < - HOUR \/ dt > HOUR \/ dt <= 0 THEN "sleep" ELSE "run"
       /\ clock_set' = (clock_set \/ dt < 0 \/ dt > HOUR)
    /\ scanned' = IF clock_set' THEN [n \in DOMAIN scanned |-> 0] ELSE scanned
    /\ UNCHANGED <<sleep_time, start, jobVars>>

\* As Scanned, with t1 itself.
ScannedFrom == {n \in 0 .. MaxTime \div MINUTE : t1 <= n * MINUTE /\ n * MINUTE <= t2}

\* The minutes flag_starting_jobs looks at.
Scanned == {n \in 0 .. MaxTime \div MINUTE : t1 < n * MINUTE /\ n * MINUTE <= t2}

\* flag_starting_jobs: the lines it sets to -1.
Flagged == {l \in Line : cl_pid[l] = 0 /\ \E n \in Scanned : Matches(l, n)}

\* start_jobs, on the pids and the files flag_starting_jobs has left: the lines it
\* starts.
Starting(pid, wants) == {l \in Line : wants[l.file] /\ pid[l] = -1}

\* As HasRunning, had start_jobs not set the flag.
HasRunningKept(started) == cf_has_running

\* What start_jobs makes of cf_has_running, for the lines that were started.
HasRunning(started) == [f \in File |-> cf_has_running[f] \/ \E l \in started : l.file = f]

\* History: count, up to 2.
Counted(f, S) == [x \in DOMAIN f |-> IF x \in S /\ f[x] < 2 THEN f[x] + 1 ELSE f[x]]

\* flag_starting_jobs and start_jobs.  vfork may fail for some lines; they become
\* dormant and nothing tries again (timer_service.c:483, 549).
RunJobs ==
    /\ pc = "run"
    /\ LET pid   == [l \in Line |-> IF l \in Flagged THEN -1 ELSE cl_pid[l]]
           wants == [f \in File |-> cf_wants_starting[f] \/ \E l \in Flagged : l.file = f]
       IN  \E fails \in SUBSET Starting(pid, wants) :
             LET started == Starting(pid, wants) \ fails IN
             /\ fails # {} => "vfork" \in Failure
             /\ cl_pid' = [l \in Line |-> IF l \in started THEN 1 ELSE IF l \in fails THEN 0 ELSE pid[l]]
             /\ cf_wants_starting' = [f \in File |-> FALSE]
             /\ cf_has_running' = HasRunning(started)
             /\ process' = [l \in Line |-> IF l \in started THEN "alive" ELSE process[l]]
             /\ tried' = Starting(pid, wants)
             /\ undefined' \in {FALSE, started # {} /\ "exec" \in Failure}
    /\ scanned' = IF clock_set THEN scanned ELSE Counted(scanned, Scanned)
    /\ pc' = "check"
    /\ UNCHANGED <<t1, t2, sleep_time, start, clock_set>>

SleepTime(running) == IF running THEN 1 ELSE MINUTE

\* The lines that check_completions finds finished, with waitpid.
DoneIn == {l \in Line : cf_has_running[l.file] /\ cl_pid[l] > 0 /\ process[l] = "exited"}

\* check_completions, over the files that have running jobs; then back to sleep.
check_completions ==
    /\ pc = "check"
    /\ LET done == DoneIn
       IN  /\ cl_pid' = [l \in Line |-> IF l \in done THEN 0 ELSE cl_pid[l]]
           /\ process' = [l \in Line |-> IF l \in done THEN "none" ELSE process[l]]
           /\ cf_has_running' = [f \in File |->
                cf_has_running[f] /\ \E l \in Lines(f) \ done : cl_pid[l] > 0]
    /\ sleep_time' = SleepTime(\E f \in File : cf_has_running'[f])
    /\ pc' = "sleep"
    /\ UNCHANGED <<t1, t2, start, scanned, clock_set, cf_wants_starting, tried, undefined>>

JobEnds(l) ==
    /\ process[l] = "alive"
    /\ process' = [process EXCEPT ![l] = "exited"]
    /\ UNCHANGED <<pc, clockVars, cl_pid, cf_wants_starting, cf_has_running, tried, undefined>>

Next ==
    /\ ~ undefined
    /\ Wake \/ RunJobs \/ check_completions \/ \E l \in Line : JobEnds(l)

Spec == Init /\ [][Next]_vars
------------------------------------------------------------------------------
\* While the clock is neither set back nor jumps by more than an hour, every minute
\* is looked at exactly once, however late the routine wakes (timer_service.c:501,
\* 503-507).
EveryMinuteOnce ==
    ~ clock_set /\ pc = "sleep" =>
       \A n \in DOMAIN scanned :
          scanned[n] = IF start < n * MINUTE /\ n * MINUTE <= t2 THEN 1 ELSE 0

\* A job that runs is in a file that check_completions looks at; otherwise its line
\* would never run again (timer_service.c:552, 572-594).
RunningIsWatched == \A l \in Line : cl_pid[l] > 0 => cf_has_running[l.file]

\* The rule the comment at timer_service.c:391 gives for a day: if both fields are
\* restricted either may match, if one is, that one decides.
Due(l, n) ==
    LET day == n \div Minutes
        any == l.days = 0 .. Days - 1 /\ l.dow = 0 .. Week - 1
        inDays == l.days # 0 .. Days - 1 /\ day % Days \in l.days
        inWeek == l.dow # 0 .. Week - 1 /\ day % Week \in l.dow
    IN  ~ l.reboot /\ n % Minutes \in l.mins /\ (any \/ inDays \/ inWeek)

\* A round tries the dormant lines that a minute since the last one makes due, and
\* those that were waiting, and no others (timer_service.c:494-557).
StartsWhatIsDue ==
    [][pc = "run" /\ pc' = "check" =>
         tried' = {l \in Line :
            \/ cl_pid[l] = -1
            \/ cl_pid[l] = 0 /\ \E n \in 0 .. t2 \div MINUTE : t1 < n * MINUTE /\ Due(l, n)}]_vars
==============================================================================
