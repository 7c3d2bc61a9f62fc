------------------------------ MODULE TimerProofs ------------------------------
(*****************************************************************************)
(* What the cron scheduler promises for any crontabs, any lengths of minute,  *)
(* hour, month and week, and any course of the clock; and that ParseField     *)
(* reads every field of a crontab line as it is meant.                        *)
(*****************************************************************************)
EXTENDS TimerService, CronField, SequenceTheorems, WellFoundedInduction, TLAPS


Minute == 0 .. MaxTime \div MINUTE

TimerType ==
    /\ pc \in {"sleep", "run", "check"}
    /\ t1 \in Int /\ t2 \in 0 .. MaxTime /\ start \in Int
    /\ sleep_time \in Nat \ {0}
    /\ clock_set \in BOOLEAN
    /\ scanned \in [Minute -> Nat]
    /\ cl_pid \in [Line -> {-1, 0, 1}]
    /\ cf_wants_starting \in [File -> BOOLEAN] /\ cf_has_running \in [File -> BOOLEAN]

\* Until the clock is set, the minutes looked at are those up to the end of the last
\* round, which is t1 while the next has not looked yet.
LookedAt(count, s, t) ==
    \A n \in Minute : count[n] = IF s < n * MINUTE /\ n * MINUTE <= t THEN 1 ELSE 0

Minutely ==
    ~ clock_set =>
       /\ pc = "run" => start <= t1 /\ t1 < t2 /\ LookedAt(scanned, start, t1)
       /\ pc # "run" => start <= t2 /\ LookedAt(scanned, start, t2)

\* start_jobs looks only at the files that want starting.
Wanted == \A l \in Line : cl_pid[l] = -1 => cf_wants_starting[l.file]

TimerInv == TimerType /\ Minutely /\ Wanted /\ RunningIsWatched
------------------------------------------------------------------------------
LEMMA LineType ==
    ASSUME NEW l \in Line
    PROVE  l \in [file : File, reboot : BOOLEAN, mins : SUBSET (0 .. Minutes - 1),
                  days : SUBSET (0 .. Days - 1), dow : SUBSET (0 .. Week - 1)]
BY TimerConstants

LEMMA Numbers ==
    /\ Minutes \in Nat \ {0} /\ Days \in Nat \ {0} /\ Week \in Nat \ {0}
    /\ MINUTE \in Nat \ {0} /\ HOUR \in Nat \ {0} /\ MaxTime \in Nat
BY TimerConstants

LEMMA TimerInit == Init => TimerInv
<1>. SUFFICES ASSUME Init PROVE TimerInv
  OBVIOUS
<1>1. scanned = [n \in Minute |-> 0]
  BY DEF Init, Minute
<1>2. TimerType
  <2>1. cl_pid \in [Line -> {-1, 0, 1}]
    BY DEF Init
  <2>2. cf_wants_starting \in [File -> BOOLEAN] /\ cf_has_running \in [File -> BOOLEAN]
    BY DEF Init, Wants
  <2>3. clock_set \in BOOLEAN
    BY Zenon DEF Init
  <2>. QED  BY <1>1, <2>1, <2>2, <2>3, Numbers DEF Init, TimerType
<1>3. Minutely
  <2>1. ASSUME NEW n \in Minute
        PROVE  ~ (start < n * MINUTE /\ n * MINUTE <= t2)
    <3>1. n * MINUTE \in Int /\ start \in Int /\ t2 = start
      BY Numbers DEF Init, Minute
    <3>. QED  BY <3>1
  <2>. QED  BY <1>1, <2>1, Numbers DEF Init, Minutely, LookedAt
<1>4. Wanted
  BY LineType DEF Init, Wanted, Wants, Lines
<1>5. RunningIsWatched
  BY DEF Init, RunningIsWatched
<1>. QED  BY <1>2, <1>3, <1>4, <1>5 DEF TimerInv

LEMMA NotBefore ==
    ASSUME NEW a \in Int, NEW b \in Int, ~ (b - a < 0)
    PROVE  a <= b
OBVIOUS

LEMMA Between ==
    ASSUME NEW a \in Int, NEW b \in Int, a <= b, b <= a
    PROVE  a = b
OBVIOUS

LEMMA WakeStep ==
    ASSUME TimerInv, Wake
    PROVE  TimerInv'
<1>. USE DEF TimerInv
<1>1. UNCHANGED <<sleep_time, start, cl_pid, cf_wants_starting, cf_has_running>> /\ t1' = t2
  BY DEF Wake, jobVars
<1>2. t2' \in 0 .. MaxTime
  <2>1. t2 % sleep_time \in 0 .. sleep_time - 1 /\ t2 \in Nat /\ sleep_time \in Nat \ {0}
    BY Numbers DEF TimerType
  <2>2. NextWake \in Nat
    BY <2>1 DEF NextWake
  <2>. QED  BY <2>2, Numbers DEF Wake
<1>3. t2 \in Int /\ t2' \in Int /\ HOUR \in Nat
  BY <1>2, Numbers DEF TimerType
<1>4. /\ pc = "sleep" /\ pc' \in {"sleep", "run"}
      /\ pc' = "run" => t2 < t2'
      /\ pc' = "sleep" => t2' <= t2 \/ t2' - t2 > HOUR
  BY <1>1, <1>3 DEF Wake
<1>5. /\ clock_set' = (clock_set \/ t2' - t2 < 0 \/ t2' - t2 > HOUR)
      /\ scanned' = IF clock_set' THEN [n \in DOMAIN scanned |-> 0] ELSE scanned
  BY <1>1 DEF Wake
<1>6. TimerType'
  <2>1. scanned' \in [Minute -> Nat]
    BY <1>5 DEF TimerType
  <2>2. clock_set' \in BOOLEAN
    BY <1>5 DEF TimerType
  <2>. QED  BY <1>1, <1>2, <1>3, <1>4, <2>1, <2>2 DEF TimerType
<1>7. ASSUME ~ clock_set'
      PROVE  /\ pc' = "run" => start' <= t1' /\ t1' < t2' /\ LookedAt(scanned', start', t1')
             /\ pc' # "run" => start' <= t2' /\ LookedAt(scanned', start', t2')
  <2>1. ~ clock_set /\ scanned' = scanned
    BY <1>5, <1>7, Zenon
  <2>2. ~ (t2' - t2 < 0) /\ ~ (t2' - t2 > HOUR)
    BY <1>5, <1>7, Zenon
  <2>3. start <= t2 /\ LookedAt(scanned, start, t2)
    BY <1>4, <2>1 DEF Minutely
  <2>4. pc' # "run" => t2' = t2
    <3>1. t2 <= t2'
      BY <1>3, <2>2, NotBefore, Zenon
    <3>2. pc' # "run" => t2' <= t2
      BY <1>4, <2>2
    <3>. QED  BY <1>3, <3>1, <3>2, Between
  <2>. QED  BY <1>1, <1>4, <2>1, <2>3, <2>4
<1>8. Minutely'
  BY <1>7 DEF Minutely
<1>9. Wanted' /\ RunningIsWatched'
  BY <1>1 DEF Wanted, RunningIsWatched
<1>. QED  BY <1>6, <1>8, <1>9

LEMMA RunStep ==
    ASSUME TimerInv, RunJobs
    PROVE  TimerInv'
<1>. USE DEF TimerInv
<1>. DEFINE pid   == [l \in Line |-> IF l \in Flagged THEN -1 ELSE cl_pid[l]]
            wants == [f \in File |-> cf_wants_starting[f] \/ \E l \in Flagged : l.file = f]
<1>1. PICK fails \in SUBSET Starting(pid, wants) :
        /\ cl_pid' = [l \in Line |-> IF l \in Starting(pid, wants) \ fails THEN 1
                                     ELSE IF l \in fails THEN 0 ELSE pid[l]]
        /\ cf_wants_starting' = [f \in File |-> FALSE]
        /\ cf_has_running' = HasRunning(Starting(pid, wants) \ fails)
  BY Zenon DEF RunJobs
<1>2. /\ pc = "run" /\ pc' = "check"
      /\ scanned' = IF clock_set THEN scanned ELSE Counted(scanned, Scanned)
      /\ UNCHANGED <<t1, t2, sleep_time, start, clock_set>>
  BY DEF RunJobs
<1>3. \A l \in Line : l.file \in File
  BY LineType
<1>4. \A l \in Line : pid[l] = -1 => wants[l.file]
  BY <1>3, Zenon DEF Wanted
<1>. DEFINE started == Starting(pid, wants) \ fails
<1>5. \A l \in Line : pid[l] \in {-1, 0, 1} /\ (pid[l] > 0 => cl_pid[l] = pid[l])
  BY DEF TimerType
<1>6. \A l \in Line : cl_pid'[l] # -1
  BY <1>1, <1>4 DEF Starting
<1>7. ASSUME NEW l \in Line, cl_pid'[l] > 0
      PROVE  cf_has_running'[l.file]
  <2>1. CASE l \in started
    BY <1>1, <1>3, <2>1, Zenon DEF HasRunning
  <2>2. CASE l \notin started
    <3>1. cl_pid[l] > 0
      BY <1>1, <1>5, <1>7, <2>2
    <3>. QED  BY <1>1, <1>3, <3>1, Zenon DEF HasRunning, RunningIsWatched
  <2>. QED  BY <2>1, <2>2
<1>8. TimerType'
  <2>1. cl_pid' \in [Line -> {-1, 0, 1}]
    BY <1>1, <1>5
  <2>2. cf_wants_starting' \in [File -> BOOLEAN]
    BY <1>1
  <2>3. cf_has_running' \in [File -> BOOLEAN]
    BY <1>1 DEF HasRunning, TimerType
  <2>4. scanned' \in [Minute -> Nat]
    BY <1>2 DEF TimerType, Counted
  <2>. QED  BY <1>2, <2>1, <2>2, <2>3, <2>4, Zenon DEF TimerType
<1>9. Minutely'
  <2>. SUFFICES ASSUME ~ clock_set
               PROVE  start <= t2 /\ \A n \in Minute :
                        scanned'[n] = IF start < n * MINUTE /\ n * MINUTE <= t2 THEN 1 ELSE 0
    BY <1>2 DEF Minutely, LookedAt
  <2>1. start <= t1 /\ t1 < t2 /\ LookedAt(scanned, start, t1) /\ start \in Int /\ t1 \in Int /\ t2 \in Int
    BY <1>2, Numbers DEF Minutely, TimerType
  <2>2. ASSUME NEW n \in Minute
        PROVE  scanned'[n] = IF start < n * MINUTE /\ n * MINUTE <= t2 THEN 1 ELSE 0
    <3>1. n * MINUTE \in Int
      BY Numbers DEF Minute
    <3>2. scanned[n] = IF start < n * MINUTE /\ n * MINUTE <= t1 THEN 1 ELSE 0
      BY <2>1 DEF LookedAt
    <3>3. scanned'[n] = IF n \in Scanned /\ scanned[n] < 2 THEN scanned[n] + 1 ELSE scanned[n]
      BY <1>2 DEF Counted, TimerType
    <3>4. n \in Scanned <=> t1 < n * MINUTE /\ n * MINUTE <= t2
      BY DEF Scanned, Minute
    <3>. QED  BY <2>1, <3>1, <3>2, <3>3, <3>4
  <2>. QED  BY <2>1, <2>2
<1>. QED  BY <1>6, <1>7, <1>8, <1>9 DEF Wanted, RunningIsWatched

LEMMA CheckStep ==
    ASSUME TimerInv, check_completions
    PROVE  TimerInv'
<1>1. /\ pc = "check" /\ pc' = "sleep"
      /\ cl_pid' = [l \in Line |-> IF l \in DoneIn THEN 0 ELSE cl_pid[l]]
      /\ cf_has_running' = [f \in File |->
            cf_has_running[f] /\ \E l \in Lines(f) \ DoneIn : cl_pid[l] > 0]
      /\ sleep_time' = SleepTime(\E f \in File : cf_has_running'[f])
      /\ UNCHANGED <<t1, t2, start, scanned, clock_set, cf_wants_starting>>
  BY DEF check_completions
<1>2. TimerType'
  <2>1. cl_pid' \in [Line -> {-1, 0, 1}]
    BY <1>1 DEF TimerInv, TimerType
  <2>2. cf_has_running' \in [File -> BOOLEAN]
    BY <1>1
  <2>3. sleep_time' \in Nat \ {0}
    BY <1>1, Numbers DEF SleepTime
  <2>. QED  BY <1>1, <2>1, <2>2, <2>3, Zenon DEF TimerInv, TimerType
<1>3. Minutely'
  BY <1>1 DEF TimerInv, Minutely
<1>4. Wanted'
  BY <1>1 DEF TimerInv, Wanted
<1>5. RunningIsWatched'
  <2>1. ASSUME NEW l \in Line, cl_pid'[l] > 0
        PROVE  cf_has_running'[l.file]
    <3>1. l \notin DoneIn /\ cl_pid[l] > 0
      BY <1>1, <2>1
    <3>2. l.file \in File
      BY LineType
    <3>3. l \in Lines(l.file)
      BY DEF Lines
    <3>. QED  BY <1>1, <3>1, <3>2, <3>3, Zenon DEF TimerInv, RunningIsWatched
  <2>. QED  BY <2>1 DEF RunningIsWatched
<1>. QED  BY <1>2, <1>3, <1>4, <1>5 DEF TimerInv

LEMMA TimerKept ==
    ASSUME TimerInv,
           UNCHANGED <<pc, clockVars, cl_pid, cf_wants_starting, cf_has_running>>
    PROVE  TimerInv'
<1>1. UNCHANGED <<pc, t1, t2, sleep_time, start, scanned, clock_set, cl_pid,
                  cf_wants_starting, cf_has_running>>
  BY DEF clockVars
<1>. QED  BY <1>1 DEF TimerInv, TimerType, Minutely, Wanted, RunningIsWatched

LEMMA TimerStep == TimerInv /\ [Next]_vars => TimerInv'
<1>. SUFFICES ASSUME TimerInv, [Next]_vars PROVE TimerInv'
  OBVIOUS
<1>1. CASE Wake
  BY <1>1, WakeStep
<1>2. CASE RunJobs
  BY <1>2, RunStep
<1>3. CASE check_completions
  BY <1>3, CheckStep
<1>4. ASSUME NEW l \in Line, JobEnds(l) PROVE TimerInv'
  BY <1>4, TimerKept DEF JobEnds
<1>5. CASE UNCHANGED vars
  BY <1>5, TimerKept DEF vars, clockVars, jobVars
<1>. QED  BY <1>1, <1>2, <1>3, <1>4, <1>5 DEF Next

\* TimerInv is an inductive invariant of timer_routine: it adds to the properties
\* which minutes the round under way has still to look at, and that a line that waits
\* is in a file that start_jobs looks at.
THEOREM TimerInductive == Spec => []TimerInv
BY TimerInit, TimerStep, PTL DEF Spec

\* flag_starting_jobs looks at every minute exactly once while the clock is neither
\* set back nor jumps by more than an hour.
THEOREM EachMinuteOnce == Spec => []EveryMinuteOnce
<1>1. TimerInv => EveryMinuteOnce
  BY DEF TimerInv, TimerType, Minutely, LookedAt, EveryMinuteOnce
<1>. QED  BY <1>1, TimerInductive, PTL

\* check_completions looks at the file of every job that runs.
THEOREM RunningJobsWatched == Spec => []RunningIsWatched
<1>1. TimerInv => RunningIsWatched
  BY DEF TimerInv
<1>. QED  BY <1>1, TimerInductive, PTL
------------------------------------------------------------------------------
LEMMA Quotient ==
    ASSUME NEW n \in Nat, NEW m \in Nat \ {0}, NEW t \in Nat
    PROVE  n * m <= t <=> n <= t \div m
<1>. DEFINE q == t \div m
<1>1. q \in Nat /\ q * m <= t /\ t < q * m + m
  BY SMTT(30)
<1>2. ASSUME n <= q PROVE n * m <= t
  <2>1. n * m <= q * m
    BY <1>1, <1>2, SMTT(30)
  <2>. QED  BY <1>1, <2>1
<1>3. ASSUME n > q PROVE n * m > t
  <2>1. n >= q + 1
    BY <1>1, <1>3
  <2>2. n * m >= (q + 1) * m
    BY <1>1, <2>1, SMTT(30)
  <2>3. (q + 1) * m = q * m + m
    BY <1>1, SMTT(30)
  <2>. QED  BY <1>1, <2>2, <2>3, SMTT(30)
<1>. QED  BY <1>1, <1>2, <1>3

\* After FixDayDow, "either field matches" is the rule that Due states.
LEMMA MatchesIsDue ==
    ASSUME NEW l \in Line, NEW n \in Nat
    PROVE  Matches(l, n) <=> Due(l, n)
<1>. DEFINE day == n \div Minutes
<1>1. day \in Nat /\ day % Days \in 0 .. Days - 1 /\ day % Week \in 0 .. Week - 1
  BY Numbers
<1>. HIDE DEF day
<1>. QED  BY <1>1, LineType, Zenon DEF Matches, Due, FixDayDow, day

\* A round starts the dormant lines that a minute since the last round makes due, and
\* those that were waiting, and no others: flag_starting_jobs marks exactly the first,
\* and start_jobs finds all of both, because the file of a waiting line wants starting.
THEOREM StartsExactlyWhatIsDue == Spec => StartsWhatIsDue
<1>1. ASSUME TimerInv, [Next]_vars, pc = "run", pc' = "check"
      PROVE  tried' = {l \in Line :
                \/ cl_pid[l] = -1
                \/ cl_pid[l] = 0 /\ \E n \in 0 .. t2 \div MINUTE : t1 < n * MINUTE /\ Due(l, n)}
  <2>. DEFINE pid   == [l \in Line |-> IF l \in Flagged THEN -1 ELSE cl_pid[l]]
              wants == [f \in File |-> cf_wants_starting[f] \/ \E l \in Flagged : l.file = f]
  <2>1. RunJobs
    BY <1>1, ZenonT(60) DEF Next, Wake, check_completions, JobEnds, vars, clockVars, jobVars
  <2>2. tried' = Starting(pid, wants)
    BY <2>1 DEF RunJobs
  <2>3. \A l \in Line : l.file \in File
    BY LineType
  <2>4. tried' = {l \in Line : l \in Flagged \/ cl_pid[l] = -1}
    BY <1>1, <2>2, <2>3, Zenon DEF Starting, Flagged, TimerInv, Wanted
  <2>5. ASSUME NEW n
        PROVE  n \in Scanned <=> n \in 0 .. t2 \div MINUTE /\ t1 < n * MINUTE
    <3>1. t2 \in Nat /\ t2 <= MaxTime /\ MaxTime \in Nat /\ MINUTE \in Nat \ {0}
      BY <1>1, Numbers DEF TimerInv, TimerType
    <3>2. t2 \div MINUTE \in Int /\ MaxTime \div MINUTE \in Int
      BY <3>1
    <3>3. ASSUME n \in Nat
          PROVE  /\ n * MINUTE <= t2 <=> n <= t2 \div MINUTE
                 /\ n * MINUTE <= MaxTime <=> n <= MaxTime \div MINUTE
                 /\ n * MINUTE \in Int
      BY <3>1, <3>3, Quotient
    <3>. QED  BY <3>1, <3>2, <3>3 DEF Scanned
  <2>6. Scanned \subseteq Nat
    BY DEF Scanned
  <2>7. \A l \in Line : l \in Flagged <=>
          cl_pid[l] = 0 /\ \E n \in 0 .. t2 \div MINUTE : t1 < n * MINUTE /\ Due(l, n)
    BY <2>5, <2>6, MatchesIsDue DEF Flagged
  <2>. QED  BY <2>4, <2>7, Zenon
<1>2. TimerInv /\ [Next]_vars =>
        [pc = "run" /\ pc' = "check" => tried' = {l \in Line :
            \/ cl_pid[l] = -1
            \/ cl_pid[l] = 0 /\ \E n \in 0 .. t2 \div MINUTE : t1 < n * MINUTE /\ Due(l, n)}]_vars
  BY <1>1
<1>. QED  BY <1>2, TimerInductive, PTL DEF Spec, StartsWhatIsDue
-------------------------------------------------------------------------------
\* The fields of a crontab line.


Tokens == [k : {"*", "number", "-", "/", ",", "other"}, v : Int]

\* The tokens of the field s from its n-th item on (the function from of Field), and
\* those behind the n-th.
IsText(f, s) ==
    f = [n \in 1 .. Len(s) |-> Text(s[n], IF n = Len(s) THEN <<>> ELSE <<Token(",", 0)>> \o f[n + 1])]

From(s) == CHOOSE f : IsText(f, s)
Behind(s, n) == IF n = Len(s) THEN <<>> ELSE <<Token(",", 0)>> \o From(s)[n + 1]

UpToItem(s, k) == UNION {Meaning(s[n]) : n \in 1 .. k}

\* The distance the fill loop has to go, and the entries it sets in its first d turns.
Away(i, n) == (n - i.from) % modvalue
Distance(i) == Away(i, EndOf(i))
Chosen(i, d) == IF i.step >= 1 THEN d % i.step = 0 ELSE d = 0
Filled(i, d) == {n \in 0 .. modvalue - 1 : Away(i, n) < d /\ Chosen(i, Away(i, n))}
Cursor(i, d) == IF d = 0 THEN i.from - 1 ELSE (i.from + d - 1) % modvalue

\* After d turns the next entry is set in the s-th turn from here.
Counting(i, d, s) ==
    IF i.step >= 1 THEN s \in 1 .. i.step /\ \E q \in Nat : d + s - 1 = q * i.step
                   ELSE s \in Int /\ IF d = 0 THEN s = 1 ELSE s <= 0

\* The fill loop of the k-th item has taken d turns.
Filling(k, d) ==
    /\ stage = "fill"
    /\ n2 = EndOf(items[k]) /\ skip = items[k].step /\ ptr = Behind(items, k)
    /\ d \in 0 .. Distance(items[k]) /\ failsafe = Failsafe - d
    /\ n1 = Cursor(items[k], d) /\ Counting(items[k], d, s0)
    /\ ary = UpToItem(items, k - 1) \cup Filled(items[k], d)

\* ParseField looks for the k-th item, or for the end of its range.
AtItem(k) ==
    /\ stage = "value" /\ ary = UpToItem(items, k - 1) /\ n2 = -1
    /\ \/ n1 = -1 /\ ptr = Text(items[k], Behind(items, k))
       \/ /\ items[k].k = "range" /\ n1 = items[k].from
          /\ ptr = <<Token("number", items[k].to)>> \o Slash(items[k], Behind(items, k))

Ended(k) ==
    /\ ary = UpToItem(items, k)
    /\ \/ stage = "next" /\ ptr = Behind(items, k)
       \/ stage = "done" /\ k = Len(items)

FieldType == items \in Seq(Item) /\ Len(items) > 0

FieldInv ==
    /\ FieldType
    /\ (\A n \in DOMAIN items : InRange(items[n])) =>
          \E k \in 1 .. Len(items) :
             AtItem(k) \/ (\E d \in 0 .. modvalue - 1 : Filling(k, d)) \/ Ended(k)
------------------------------------------------------------------------------
\* Induction from n down to 1.
LEMMA DownFrom ==
    ASSUME NEW n \in Nat, NEW S, n \in S, \A k \in 1 .. n - 1 : k + 1 \in S => k \in S
    PROVE  1 .. n \subseteq S
<1> DEFINE T == {j \in Nat : j < n /\ n - j \notin S}
<1>1. ASSUME T # {} PROVE FALSE
  <2>1. T \subseteq Nat
    OBVIOUS
  <2>2. PICK j \in T : \A m \in T : ~ (<<m, j>> \in OpToRel(<, Nat))
    BY <1>1, <2>1, NatLessThanWellFounded, WFMin, Zenon
  <2>3. j \in Nat /\ j < n /\ n - j \notin S /\ j # 0
    OBVIOUS
  <2>4. j - 1 \in Nat /\ j - 1 < n /\ n - j \in 1 .. n - 1 /\ (n - j) + 1 = n - (j - 1)
    BY <2>3
  <2>5. j - 1 \in T
    BY <2>3, <2>4
  <2>6. <<j - 1, j>> \in OpToRel(<, Nat)
    BY <2>3, <2>4 DEF OpToRel
  <2>7. QED
    BY <2>2, <2>5, <2>6, Zenon
<1>2. ASSUME NEW k \in 1 .. n PROVE k \in S
  <2>1. n - k \in Nat /\ n - k < n /\ n - (n - k) = k
    OBVIOUS
  <2>2. n - k \notin T
    BY <1>1, Zenon
  <2>3. QED
    BY <2>1, <2>2
<1>3. QED
  BY <1>2

LEMMA CronNumbers ==
    modvalue \in Nat /\ modvalue > 0 /\ Failsafe \in Nat /\ Failsafe > modvalue
BY CronConstants

LEMMA ItemType ==
    ASSUME NEW i \in Item
    PROVE  /\ i.k \in {"*", "value", "range", "other"} /\ i.from \in Nat /\ i.to \in Nat /\ i.step \in Int
           /\ InRange(i) => /\ i.k # "other" /\ i.from \in 0 .. modvalue - 1 /\ EndOf(i) \in 0 .. modvalue - 1
                            /\ i.k = "*" => i.from = 0 /\ EndOf(i) = modvalue - 1
                            /\ i.k = "value" => EndOf(i) = i.from
                            /\ i.k = "range" => EndOf(i) = i.to
<1>1. i.k \in {"*", "value", "range", "other"} /\ i.from \in Nat /\ i.to \in Nat /\ i.step \in Int
  <2>1. \A x \in Step \cup {1} : x \in Int
    BY CronConstants
  <2>2. \A x \in Value : x \in Nat
    BY CronConstants
  <2>3. modvalue - 1 \in Nat
    BY CronNumbers
  <2>4. CASE i \in [k : {"*"}, from : {0}, to : {modvalue - 1}, step : Step \cup {1}]
    BY <2>1, <2>3, <2>4
  <2>5. CASE i \in [k : {"value"}, from : Value, to : {0}, step : Step \cup {1}]
    BY <2>1, <2>2, <2>5
  <2>6. CASE i \in [k : {"range"}, from : Value, to : Value, step : Step \cup {1}]
    BY <2>1, <2>2, <2>6
  <2>7. CASE i \in [k : {"other"}, from : {0}, to : {0}, step : {1}]
    BY <2>7
  <2>8. QED
    BY <2>4, <2>5, <2>6, <2>7 DEF Item
<1>2. i.k = "*" => i.from = 0 /\ i.to = modvalue - 1
  BY DEF Item
<1>3. QED
  BY <1>1, <1>2, CronNumbers DEF InRange, EndOf

\* Reading the first token of a text.
LEMMA FirstToken ==
    ASSUME NEW a \in Tokens, NEW s \in Seq(Tokens)
    PROVE  /\ <<a>> \o s \in Seq(Tokens) /\ <<a>> \o s # <<>>
           /\ Head(<<a>> \o s) = a /\ Tail(<<a>> \o s) = s
<1>1. <<a>> \o s \in Seq(Tokens) /\ Len(<<a>> \o s) = Len(s) + 1 /\ Len(s) \in Nat /\ (<<a>> \o s)[1] = a
  OBVIOUS
<1>2. <<a>> \o s # <<>> /\ Head(<<a>> \o s) = a
  BY <1>1
<1>3. Tail(<<a>> \o s) = s
  OBVIOUS
<1>4. QED
  BY <1>1, <1>2, <1>3

LEMMA TokenType ==
    /\ {Token("*", 0), Token("-", 0), Token(",", 0), Token("other", 0)} \subseteq Tokens
    /\ \A x \in Int : Token("number", x) \in Tokens /\ Token("/", x) \in Tokens
    /\ \A k, x : Token(k, x).k = k /\ Token(k, x).v = x
BY DEF Token, Tokens

LEMMA TextType ==
    ASSUME NEW i \in Item, NEW s \in Seq(Tokens)
    PROVE  Slash(i, s) \in Seq(Tokens) /\ Text(i, s) \in Seq(Tokens)
<1>0. /\ i.from \in Int /\ i.to \in Int /\ i.step \in Int /\ i.k \in {"*", "value", "range", "other"}
      /\ {Token("*", 0), Token("-", 0), Token("other", 0), Token("number", i.from), Token("number", i.to),
          Token("/", i.step)} \subseteq Tokens
      /\ \A a \in Tokens : \A r \in Seq(Tokens) : <<a>> \o r \in Seq(Tokens)
  <2>1. i.from \in Int /\ i.to \in Int /\ i.step \in Int /\ i.k \in {"*", "value", "range", "other"}
    BY ItemType
  <2>2. {Token("*", 0), Token("-", 0), Token("other", 0), Token("number", i.from), Token("number", i.to),
         Token("/", i.step)} \subseteq Tokens
    BY <2>1, TokenType
  <2>3. \A a \in Tokens : \A r \in Seq(Tokens) : <<a>> \o r \in Seq(Tokens)
    BY FirstToken
  <2>4. QED
    BY <2>1, <2>2, <2>3
<1>1. Slash(i, s) \in Seq(Tokens)
  <2>1. CASE i.step = 1
    <3>1. Slash(i, s) = <<>> \o s /\ <<>> \o s = s
      BY <2>1 DEF Slash
    <3>2. QED
      BY <3>1
  <2>2. CASE i.step # 1
    BY <1>0, <2>2 DEF Slash
  <2>3. QED
    BY <2>1, <2>2
<1>2. Text(i, s) \in Seq(Tokens)
  <2> DEFINE r == Slash(i, s)
  <2> HIDE DEF r
  <2>0. r \in Seq(Tokens)
    BY <1>1 DEF r
  <2>1. CASE i.k = "*"
    <3>1. Text(i, s) = <<Token("*", 0)>> \o r
      BY <2>1 DEF Text, r
    <3>2. QED
      BY <1>0, <2>0, <3>1
  <2>2. CASE i.k = "value"
    <3>1. Text(i, s) = <<Token("number", i.from)>> \o r
      BY <2>2 DEF Text, r
    <3>2. QED
      BY <1>0, <2>0, <3>1
  <2>3. CASE i.k = "range"
    <3>1. Text(i, s) = <<Token("number", i.from)>> \o (<<Token("-", 0)>> \o (<<Token("number", i.to)>> \o r))
      BY <2>3 DEF Text, r
    <3>2. <<Token("number", i.to)>> \o r \in Seq(Tokens)
      BY <1>0, <2>0
    <3>3. <<Token("-", 0)>> \o (<<Token("number", i.to)>> \o r) \in Seq(Tokens)
      BY <1>0, <3>2
    <3>4. QED
      BY <1>0, <3>1, <3>3
  <2>4. CASE i.k = "other"
    <3>1. Text(i, s) = <<Token("other", 0)>> \o s
      BY <2>4 DEF Text
    <3>2. QED
      BY <1>0, <3>1
  <2>5. QED
    BY <1>0, <2>1, <2>2, <2>3, <2>4
<1>3. QED
  BY <1>1, <1>2

\* The recursion of Field is well founded: the text of every item is what it says.
LEMMA TextFrom ==
    ASSUME NEW s \in Seq(Item), Len(s) > 0
    PROVE  /\ Field(s) = From(s)[1]
           /\ \A m \in 1 .. Len(s) : /\ From(s)[m] = Text(s[m], Behind(s, m))
                                     /\ Behind(s, m) \in Seq(Tokens)
<1> DEFINE n == Len(s)
           Rest(f, m) == IF m = n THEN <<>> ELSE <<Token(",", 0)>> \o f[m + 1]
           Solves(f, k) == \A m \in k .. n : f[m] = Text(s[m], Rest(f, m))
           S == {k \in 1 .. n : \E f : Solves(f, k)}
<1>0. n \in Nat /\ n > 0 /\ n \in 1 .. n /\ 1 \in 1 .. n
  OBVIOUS
<1> HIDE DEF n
<1>1. n \in S
  <2> DEFINE f == [m \in {n} |-> Text(s[m], <<>>)]
  <2>1. \A m \in n .. n : m = n
    BY <1>0
  <2>2. Solves(f, n)
    BY <2>1
  <2>3. QED
    BY <1>0, <2>2
<1>2. ASSUME NEW k \in 1 .. n - 1, k + 1 \in S PROVE k \in S
  <2>1. PICK f : Solves(f, k + 1)
    BY <1>2
  <2> DEFINE g == [m \in k .. n |-> IF m = k THEN Text(s[m], <<Token(",", 0)>> \o f[m + 1]) ELSE f[m]]
  <2>2. k \in 1 .. n /\ k # n /\ k + 1 \in k .. n /\ k + 1 # k
    BY <1>0
  <2>3. ASSUME NEW m \in k .. n PROVE g[m] = Text(s[m], Rest(g, m))
    <3>1. CASE m = k
      <4>1. g[m + 1] = f[m + 1]
        BY <2>2, <3>1
      <4>2. Rest(g, m) = <<Token(",", 0)>> \o f[m + 1]
        BY <2>2, <3>1, <4>1
      <4>3. g[m] = Text(s[m], <<Token(",", 0)>> \o f[m + 1])
        BY <3>1
      <4> HIDE DEF Rest, g
      <4>4. QED
        BY <4>2, <4>3
    <3>2. CASE m # k
      <4>1. m \in k + 1 .. n /\ (m # n => m + 1 \in k .. n /\ m + 1 # k)
        BY <1>0, <3>2
      <4>2. Rest(g, m) = Rest(f, m)
        BY <4>1
      <4>3. g[m] = f[m] /\ f[m] = Text(s[m], Rest(f, m))
        BY <2>1, <3>2, <4>1
      <4> HIDE DEF Rest, g
      <4>4. QED
        BY <4>2, <4>3
    <3>3. QED
      BY <3>1, <3>2
  <2> HIDE DEF g
  <2>4. Solves(g, k)
    BY <2>3
  <2>5. QED
    BY <2>2, <2>4
<1>3. \E f : Solves(f, 1)
  <2>1. 1 .. n \subseteq S
    <3> HIDE DEF S
    <3>1. QED
      BY <1>0, <1>1, <1>2, DownFrom
  <2>2. QED
    BY <1>0, <2>1
<1>4. \E f : IsText(f, s)
  <2>1. PICK f : Solves(f, 1)
    BY <1>3
  <2> DEFINE g == [m \in 1 .. n |-> f[m]]
  <2>2. ASSUME NEW m \in 1 .. n PROVE g[m] = Text(s[m], Rest(g, m))
    <3>1. m # n => m + 1 \in 1 .. n
      BY <1>0
    <3>2. Rest(g, m) = Rest(f, m)
      BY <3>1
    <3>3. g[m] = f[m] /\ f[m] = Text(s[m], Rest(f, m))
      BY <2>1
    <3> HIDE DEF Rest, g
    <3>4. QED
      BY <3>2, <3>3
  <2>3. g = [m \in 1 .. n |-> Text(s[m], Rest(g, m))]
    BY <2>2
  <2>4. IsText(g, s)
    BY <2>3 DEF IsText, n
  <2>5. QED
    BY <2>4
<1>5. IsText(From(s), s)
  BY <1>4 DEF From
<1>6. Field(s) = From(s)[1]
  BY DEF Field, From, IsText
<1>7. ASSUME NEW m \in 1 .. n PROVE From(s)[m] = Text(s[m], Behind(s, m))
  BY <1>5 DEF IsText, Behind, n
<1> DEFINE B == {m \in 1 .. n : Behind(s, m) \in Seq(Tokens)}
<1>8. n \in B
  <2>1. Behind(s, n) = <<>>
    BY DEF Behind, n
  <2>2. <<>> \in Seq(Tokens)
    OBVIOUS
  <2>3. QED
    BY <1>0, <2>1, <2>2
<1>9. ASSUME NEW k \in 1 .. n - 1, k + 1 \in B PROVE k \in B
  <2>1. k + 1 \in 1 .. n /\ k \in 1 .. n /\ k # n /\ s[k + 1] \in Item
    BY <1>0 DEF n
  <2>2. From(s)[k + 1] \in Seq(Tokens)
    BY <1>7, <1>9, <2>1, TextType
  <2>3. Behind(s, k) = <<Token(",", 0)>> \o From(s)[k + 1]
    BY <2>1 DEF Behind, n
  <2>4. Token(",", 0) \in Tokens
    BY TokenType
  <2>5. Behind(s, k) \in Seq(Tokens)
    BY <2>2, <2>3, <2>4, FirstToken
  <2>6. QED
    BY <2>1, <2>5
<1>10. 1 .. n \subseteq B
  <2> HIDE DEF B
  <2>1. QED
    BY <1>0, <1>8, <1>9, DownFrom
<1>11. QED
  BY <1>6, <1>7, <1>10 DEF n
------------------------------------------------------------------------------
\* Going round the array from a.
LEMMA Round ==
    ASSUME NEW a \in 0 .. modvalue - 1, NEW x \in 0 .. modvalue - 1
    PROVE  /\ (x - a) % modvalue = IF a <= x THEN x - a ELSE x - a + modvalue
           /\ (a + x) % modvalue = IF a + x < modvalue THEN a + x ELSE a + x - modvalue
           /\ (x + 1) % modvalue = IF x + 1 < modvalue THEN x + 1 ELSE 0
<1>1. modvalue \in Nat /\ modvalue > 0 /\ a \in Nat /\ x \in Nat /\ a < modvalue /\ x < modvalue
  BY CronNumbers
<1>2. (x - a) % modvalue = IF a <= x THEN x - a ELSE x - a + modvalue
  <2>1. CASE a <= x
    BY <1>1, <2>1
  <2>2. CASE ~ (a <= x)
    BY <1>1, <2>2
  <2>3. QED
    BY <2>1, <2>2
<1>3. (a + x) % modvalue = IF a + x < modvalue THEN a + x ELSE a + x - modvalue
  <2>1. CASE a + x < modvalue
    BY <1>1, <2>1
  <2>2. CASE ~ (a + x < modvalue)
    BY <1>1, <2>2
  <2>3. QED
    BY <2>1, <2>2
<1>4. (x + 1) % modvalue = IF x + 1 < modvalue THEN x + 1 ELSE 0
  <2>1. CASE x + 1 < modvalue
    BY <1>1, <2>1
  <2>2. CASE x + 1 = modvalue
    BY <1>1, <2>2
  <2>3. QED
    BY <1>1, <2>1, <2>2
<1>5. QED
  BY <1>2, <1>3, <1>4

\* The turn after d turns looks at the entry that is d away.
LEMMA NextTurn ==
    ASSUME NEW i, i.from \in 0 .. modvalue - 1, NEW d \in 0 .. modvalue - 1
    PROVE  /\ (Cursor(i, d) + 1) % modvalue = (i.from + d) % modvalue
           /\ (i.from + d) % modvalue \in 0 .. modvalue - 1
           /\ \A n \in 0 .. modvalue - 1 : /\ Away(i, n) \in 0 .. modvalue - 1
                                           /\ Away(i, n) = d <=> n = (i.from + d) % modvalue
<1> DEFINE a == i.from
           z == (a + d) % modvalue
<1>0. modvalue \in Nat /\ modvalue > 0 /\ a \in Nat /\ d \in Nat /\ a < modvalue /\ d < modvalue
  BY CronNumbers
<1>1. z = IF a + d < modvalue THEN a + d ELSE a + d - modvalue
  BY Round
<1>2. (Cursor(i, d) + 1) % modvalue = z
  <2>1. CASE d = 0
    <3>1. Cursor(i, d) + 1 = a + d
      BY <1>0, <2>1 DEF Cursor
    <3>2. QED
      BY <3>1
  <2>2. CASE d # 0
    <3> DEFINE y == (a + (d - 1)) % modvalue
    <3>1. d - 1 \in 0 .. modvalue - 1 /\ a + (d - 1) = a + d - 1
      BY <1>0, <2>2
    <3>2. y = IF a + (d - 1) < modvalue THEN a + (d - 1) ELSE a + (d - 1) - modvalue
      BY <3>1, Round
    <3>3. Cursor(i, d) = y
      BY <2>2, <3>1 DEF Cursor
    <3>4. y \in 0 .. modvalue - 1
      <4> HIDE DEF y
      <4>1. QED
        BY <1>0, <3>1, <3>2
    <3>5. (y + 1) % modvalue = IF y + 1 < modvalue THEN y + 1 ELSE 0
      BY <3>4, Round
    <3> DEFINE w == (y + 1) % modvalue
    <3>6. w = IF y + 1 < modvalue THEN y + 1 ELSE 0
      BY <3>5
    <3> HIDE DEF y, w, z
    <3>7. w = z
      BY <1>0, <1>1, <3>1, <3>2, <3>6
    <3>8. QED
      BY <3>3, <3>7 DEF w
  <2>3. QED
    BY <2>1, <2>2
<1>3. ASSUME NEW n \in 0 .. modvalue - 1
      PROVE  Away(i, n) \in 0 .. modvalue - 1 /\ (Away(i, n) = d <=> n = z)
  <2>1. Away(i, n) = IF a <= n THEN n - a ELSE n - a + modvalue
    BY <1>3, Round DEF Away
  <2> HIDE DEF z
  <2>2. QED
    BY <1>0, <1>1, <2>1
<1>4. z \in 0 .. modvalue - 1
  <2> HIDE DEF z
  <2>1. QED
    BY <1>0, <1>1
<1>5. QED
  BY <1>2, <1>3, <1>4

LEMMA Multiple ==
    ASSUME NEW m \in Nat \ {0}, NEW q \in Int, NEW x \in Nat, NEW r \in 0 .. m - 1, x = q * m + r
    PROVE  x % m = r
OBVIOUS

LEMMA NextMultiple ==
    ASSUME NEW m \in Nat, NEW q \in Nat
    PROVE  (q + 1) * m = q * m + m
OBVIOUS

\* An entry is set in the turns that a step chooses, and the count goes on.
LEMMA Counts ==
    ASSUME NEW i, i.step \in Int, NEW d \in Nat, NEW s, Counting(i, d, s)
    PROVE  /\ s = 1 <=> Chosen(i, d)
           /\ Counting(i, d + 1, IF s = 1 THEN i.step ELSE s - 1)
<1> DEFINE m == i.step
<1>1. CASE m >= 1
  <2>1. PICK q \in Nat : d + s - 1 = q * m
    BY <1>1 DEF Counting
  <2>2. s \in 1 .. m /\ m \in Nat \ {0}
    BY <1>1 DEF Counting
  <2>3. CASE s = 1
    <3>1. d = q * m + 0 /\ 0 \in 0 .. m - 1
      BY <2>1, <2>2, <2>3
    <3>2. d % m = 0
      BY <2>2, <3>1, Multiple
    <3>3. (d + 1) + m - 1 = (q + 1) * m /\ q + 1 \in Nat
      <4>1. (q + 1) * m = q * m + m
        BY <2>2, NextMultiple
      <4>2. QED
        BY <2>2, <3>1, <4>1
    <3>4. Counting(i, d + 1, m)
      BY <1>1, <2>2, <3>3 DEF Counting
    <3>5. QED
      BY <1>1, <2>3, <3>2, <3>4 DEF Chosen
  <2>4. CASE s # 1
    <3>1. d = (q - 1) * m + (m - s + 1) /\ m - s + 1 \in 0 .. m - 1 /\ m - s + 1 # 0
      BY <2>1, <2>2, <2>4
    <3>2. d % m = m - s + 1
      <4> DEFINE r == m - s + 1
                 p == q - 1
      <4>1. d = p * m + r /\ r \in 0 .. m - 1 /\ p \in Int
        BY <3>1
      <4> HIDE DEF r, p, m
      <4>2. d % m = r
        BY <2>2, <4>1, Multiple
      <4>3. QED
        BY <4>2 DEF r
    <3>3. (d + 1) + (s - 1) - 1 = q * m /\ s - 1 \in 1 .. m
      BY <2>1, <2>2, <2>4
    <3>4. Counting(i, d + 1, s - 1)
      BY <1>1, <3>3 DEF Counting
    <3>5. QED
      BY <1>1, <2>4, <3>1, <3>2, <3>4 DEF Chosen
  <2>5. QED
    BY <2>3, <2>4
<1>2. CASE ~ (m >= 1)
  BY <1>2 DEF Counting, Chosen
<1>3. QED
  BY <1>1, <1>2

\* What a turn adds to the entries set, and what the last one leaves.
LEMMA OneMoreFilled ==
    ASSUME NEW i, i.from \in 0 .. modvalue - 1, NEW d \in 0 .. modvalue - 1
    PROVE  Filled(i, d + 1) = Filled(i, d) \cup (IF Chosen(i, d) THEN {(i.from + d) % modvalue} ELSE {})
<1> DEFINE z == (i.from + d) % modvalue
<1>1. z \in 0 .. modvalue - 1
  BY NextTurn
<1>2. \A n \in 0 .. modvalue - 1 : Away(i, n) \in Nat /\ (Away(i, n) = d <=> n = z)
  BY NextTurn
<1> HIDE DEF z
<1>3. ASSUME NEW n \in 0 .. modvalue - 1
      PROVE  (Away(i, n) < d + 1 /\ Chosen(i, Away(i, n)))
                <=> (Away(i, n) < d /\ Chosen(i, Away(i, n))) \/ (n = z /\ Chosen(i, d))
  <2>1. Away(i, n) < d + 1 <=> Away(i, n) < d \/ n = z
    BY <1>2
  <2>2. n = z => Away(i, n) = d /\ ~ (Away(i, n) < d)
    BY <1>2
  <2>3. QED
    BY <2>1, <2>2
<1>4. QED
  BY <1>1, <1>3 DEF Filled, z

LEMMA LastFilled ==
    ASSUME NEW i \in Item, InRange(i)
    PROVE  /\ Distance(i) \in 0 .. modvalue - 1
           /\ Filled(i, Distance(i) + 1) = Meaning(i) /\ Filled(i, 0) = {}
<1>1. \A n \in 0 .. modvalue - 1 : Away(i, n) \in 0 .. modvalue - 1
  BY ItemType, NextTurn, CronNumbers, ZenonT(60)
<1>2. Distance(i) \in 0 .. modvalue - 1
  BY <1>1, ItemType DEF Distance
<1>3. Filled(i, 0) = {}
  BY <1>1 DEF Filled
<1>4. \A n \in 0 .. modvalue - 1 : Away(i, n) < Distance(i) + 1 <=> Away(i, n) <= Distance(i)
  BY <1>1, <1>2
<1>5. Meaning(i) = {n \in 0 .. modvalue - 1 : Away(i, n) <= Distance(i) /\ Chosen(i, Away(i, n))}
  BY Zenon DEF Meaning, Away, Distance, Chosen
<1>6. Filled(i, Distance(i) + 1) = Meaning(i)
  BY <1>4, <1>5 DEF Filled
<1>7. QED
  BY <1>2, <1>3, <1>6, Zenon

LEMMA OneMoreItem ==
    ASSUME NEW s, NEW k \in Nat, k > 0
    PROVE  UpToItem(s, k) = UpToItem(s, k - 1) \cup Meaning(s[k]) /\ UpToItem(s, 0) = {}
<1>1. \A n : n \in 1 .. k <=> n \in 1 .. k - 1 \/ n = k
  OBVIOUS
<1>2. UpToItem(s, 0) = {}
  BY DEF UpToItem
<1>3. QED
  BY <1>1, <1>2 DEF UpToItem

\* What stands behind a number: the step, if there is one, then a comma or nothing.
LEMMA BehindNumber ==
    ASSUME NEW s \in Seq(Item), Len(s) > 0, NEW k \in 1 .. Len(s), NEW i \in Item
    PROVE  LET p == Slash(i, Behind(s, k)) IN
           /\ p \in Seq(Tokens) /\ ~ At(p, "-")
           /\ i.step = IF At(p, "/") THEN Head(p).v ELSE 1
           /\ Behind(s, k) = IF At(p, "/") THEN Tail(p) ELSE p
<1> DEFINE b == Behind(s, k)
           p == Slash(i, b)
<1>1. b \in Seq(Tokens)
  BY TextFrom
<1>2. b = <<>> \/ Head(b) = Token(",", 0)
  <2>1. CASE k = Len(s)
    BY <2>1 DEF Behind
  <2>2. CASE k # Len(s)
    <3>1. k + 1 \in 1 .. Len(s) /\ s[k + 1] \in Item
      BY <2>2
    <3>2. From(s)[k + 1] \in Seq(Tokens)
      BY <3>1, TextFrom, TextType
    <3>3. b = <<Token(",", 0)>> \o From(s)[k + 1]
      BY <2>2 DEF Behind
    <3>4. Token(",", 0) \in Tokens
      BY TokenType
    <3>5. QED
      BY <3>2, <3>3, <3>4, FirstToken
  <2>3. QED
    BY <2>1, <2>2
<1>3. Token(",", 0).k = "," /\ i.step \in Int /\ p \in Seq(Tokens)
  BY <1>1, TokenType, ItemType, TextType
<1> HIDE DEF b
<1>4. CASE i.step = 1
  <2>1. p = b
    BY <1>1, <1>4 DEF Slash
  <2>2. ~ At(p, "-") /\ ~ At(p, "/")
    BY <1>2, <1>3, <2>1 DEF At
  <2>3. QED
    BY <1>3, <1>4, <2>1, <2>2 DEF b
<1>5. CASE i.step # 1
  <2>1. p = <<Token("/", i.step)>> \o b /\ Token("/", i.step) \in Tokens
    BY <1>3, <1>5, TokenType DEF Slash
  <2>2. p # <<>> /\ Head(p) = Token("/", i.step) /\ Tail(p) = b
    BY <1>1, <2>1, FirstToken, Zenon
  <2>3. Head(p).k = "/" /\ Head(p).v = i.step
    BY <2>2 DEF Token
  <2>4. ~ At(p, "-") /\ At(p, "/")
    BY <2>2, <2>3 DEF At
  <2>5. QED
    BY <1>3, <2>2, <2>3, <2>4 DEF b
<1>6. QED
  BY <1>4, <1>5
------------------------------------------------------------------------------
Correct == \A n \in DOMAIN items : InRange(items[n])

LEMMA ItemInRange ==
    ASSUME FieldType, Correct, NEW k \in 1 .. Len(items)
    PROVE  items[k] \in Item /\ InRange(items[k])
BY DEF FieldType, Correct

LEMMA FieldInitInv == FieldInit => FieldInv
<1> SUFFICES ASSUME FieldInit PROVE FieldInv
  OBVIOUS
<1>1. FieldType
  BY CronConstants DEF FieldInit, FieldType
<1>2. 1 \in 1 .. Len(items)
  BY <1>1 DEF FieldType
<1>3. ptr = Text(items[1], Behind(items, 1))
  BY <1>1, <1>2, TextFrom DEF FieldInit, FieldType
<1>4. UpToItem(items, 1 - 1) = {}
  BY DEF UpToItem
<1>5. AtItem(1)
  BY <1>3, <1>4, Zenon DEF FieldInit, AtItem
<1>6. QED
  BY <1>1, <1>2, <1>5 DEF FieldInv

\* The fill loop starts.
LEMMA FillStarts ==
    ASSUME FieldType, Correct, NEW k \in 1 .. Len(items), ary = UpToItem(items, k - 1), UNCHANGED <<items, ary>>,
           NEW b \in Int, IF b < 0 THEN EndOf(items[k]) = items[k].from ELSE EndOf(items[k]) = b,
           AfterValue(Slash(items[k], Behind(items, k)), items[k].from, b)
    PROVE  Filling(k, 0)'
<1> DEFINE i == items[k]
           p == Slash(i, Behind(items, k))
<1>1. i \in Item /\ InRange(i)
  BY ItemInRange, Zenon
<1>2. /\ ~ At(p, "-") /\ i.step = (IF At(p, "/") THEN Head(p).v ELSE 1)
      /\ Behind(items, k) = (IF At(p, "/") THEN Tail(p) ELSE p)
  BY <1>1, BehindNumber, Zenon DEF FieldType
<1>3. /\ stage' = "fill" /\ n1' = i.from - 1 /\ n2' = (IF b < 0 THEN i.from ELSE b)
      /\ skip' = i.step /\ ptr' = Behind(items, k) /\ s0' = 1 /\ failsafe' = Failsafe
  <2>1. AfterValue(p, i.from, b)
    BY Zenon
  <2> HIDE DEF p, i
  <2>2. stage' = "fill" /\ n1' = i.from - 1 /\ n2' = (IF b < 0 THEN i.from ELSE b) /\ s0' = 1 /\ failsafe' = Failsafe
    BY <1>2, <2>1, Zenon DEF AfterValue
  <2>3. /\ skip' = (IF At(p, "/") THEN Head(p).v ELSE 1)
        /\ ptr' = (IF At(p, "/") THEN Tail(p) ELSE p)
    BY <1>2, <2>1, Zenon DEF AfterValue
  <2>4. QED
    BY <1>2, <2>2, <2>3, Zenon
<1>4. n2' = EndOf(i)
  BY <1>3, Zenon
<1>5. 0 \in 0 .. Distance(i) /\ Filled(i, 0) = {} /\ i.step \in Int
  BY <1>1, LastFilled, ItemType
<1>6. Counting(i, 0, 1)
  <2>1. CASE i.step >= 1
    <3>1. 0 + 1 - 1 = 0 * i.step /\ 1 \in 1 .. i.step
      BY <1>5, <2>1
    <3>2. QED
      BY <2>1, <3>1, Zenon DEF Counting
  <2>2. CASE ~ (i.step >= 1)
    BY <2>2 DEF Counting
  <2>3. QED
    BY <2>1, <2>2, Zenon
<1>7. items' = items /\ ary' = UpToItem(items, k - 1) \cup Filled(i, 0) /\ failsafe' = Failsafe - 0
      /\ n1' = Cursor(i, 0)
  BY <1>3, <1>5, CronNumbers DEF Cursor
<1> HIDE DEF i
<1>8. items'[k] = i
  BY <1>7 DEF i
<1>9. QED
  BY <1>3, <1>4, <1>5, <1>6, <1>7, <1>8, ZenonT(60) DEF Filling

\* The head of the loop, at an item and at the end of a range.
LEMMA ReadValueInv ==
    ASSUME FieldType, Correct, NEW k \in 1 .. Len(items), AtItem(k), ReadValue
    PROVE  AtItem(k)' \/ Filling(k, 0)'
<1> DEFINE i == items[k]
           rest == Slash(i, Behind(items, k))
<1>1. i \in Item /\ InRange(i) /\ items \in Seq(Item) /\ Len(items) > 0
  BY ItemInRange, Zenon DEF FieldType
<1>2. /\ i.k \in {"*", "value", "range"} /\ i.from \in Nat /\ i.to \in Nat
      /\ i.k = "*" => i.from = 0 /\ EndOf(i) = modvalue - 1
      /\ i.k = "value" => EndOf(i) = i.from
      /\ i.k = "range" => EndOf(i) = i.to
  BY <1>1, ItemType, Zenon
<1>3. rest \in Seq(Tokens)
  BY <1>1, TextFrom, TextType, Zenon
<1>4. UNCHANGED <<items, ary>> /\ ary = UpToItem(items, k - 1) /\ n2 = -1
  BY DEF ReadValue, AtItem
<1>5. ASSUME NEW a \in Tokens, NEW r \in Seq(Tokens), ptr = <<a>> \o r
      PROVE  /\ Tail(ptr) = r /\ Head(ptr) = a /\ \A x : At(ptr, x) <=> a.k = x
  <2>1. ptr # <<>> /\ Head(ptr) = a /\ Tail(ptr) = r
    BY <1>5, FirstToken, Zenon
  <2>2. QED
    BY <2>1 DEF At
<1> HIDE DEF i, rest
<1>6. ASSUME NEW b \in Int, IF b < 0 THEN EndOf(i) = i.from ELSE EndOf(i) = b, AfterValue(rest, i.from, b)
      PROVE  Filling(k, 0)'
  BY <1>4, <1>6, FillStarts, Zenon DEF i, rest
<1>7. CASE n1 = -1 /\ i.k = "*"
  <2>1. ptr = <<Token("*", 0)>> \o rest
    BY <1>7, <1>2 DEF AtItem, Text, i, rest
  <2>2. At(ptr, "*") /\ Tail(ptr) = rest
    <3>1. Token("*", 0) \in Tokens /\ Token("*", 0).k = "*"
      BY DEF Token, Tokens
    <3>2. QED
      BY <1>3, <1>5, <2>1, <3>1, Zenon
  <2>3. AfterValue(rest, i.from, modvalue - 1)
    BY <1>2, <1>7, <2>2, ZenonT(60) DEF ReadValue
  <2>4. QED
    BY <1>2, <1>6, <1>7, <2>3, CronNumbers
<1>8. CASE n1 = -1 /\ i.k = "value"
  <2>1. ptr = <<Token("number", i.from)>> \o rest
    BY <1>8, <1>2 DEF AtItem, Text, i, rest
  <2>2. Token("number", i.from) \in Tokens /\ Token("number", i.from).k = "number" /\ Token("number", i.from).v = i.from
    BY <1>2 DEF Token, Tokens
  <2>3. At(ptr, "number") /\ ~ At(ptr, "*") /\ Tail(ptr) = rest /\ Head(ptr).v = i.from
    BY <1>3, <1>5, <2>1, <2>2, Zenon
  <2>4. AfterValue(rest, i.from, -1)
    <3>1. n1 < 0
      BY <1>8
    <3>2. AfterValue(Tail(ptr), Head(ptr).v, n2)
      BY <2>3, <3>1, Zenon DEF ReadValue
    <3>3. QED
      BY <1>4, <2>3, <3>2, Zenon
  <2>5. QED
    BY <1>2, <1>6, <1>8, <2>4
<1>9. CASE n1 = -1 /\ i.k = "range"
  <2> DEFINE r == <<Token("number", i.to)>> \o rest
             q == <<Token("-", 0)>> \o r
  <2>1. ptr = <<Token("number", i.from)>> \o q
    BY <1>9, <1>2 DEF AtItem, Text, i, rest
  <2>2. /\ Token("number", i.from) \in Tokens /\ Token("number", i.from).k = "number" /\ Token("number", i.from).v = i.from
        /\ Token("-", 0) \in Tokens /\ Token("-", 0).k = "-" /\ Token("number", i.to) \in Tokens
    BY <1>2 DEF Token, Tokens
  <2>3. r \in Seq(Tokens)
    BY <1>3, <2>2, FirstToken, Zenon
  <2> HIDE DEF r
  <2>4. q \in Seq(Tokens) /\ q # <<>> /\ Head(q) = Token("-", 0) /\ Tail(q) = r
    BY <2>2, <2>3, FirstToken, Zenon
  <2> HIDE DEF q
  <2>5. At(q, "-")
    BY <2>2, <2>4, Zenon DEF At
  <2>6. At(ptr, "number") /\ ~ At(ptr, "*") /\ Tail(ptr) = q /\ Head(ptr).v = i.from
    BY <1>5, <2>1, <2>2, <2>4, Zenon
  <2>7. AfterValue(q, i.from, -1)
    <3>1. n1 < 0
      BY <1>9
    <3>2. AfterValue(Tail(ptr), Head(ptr).v, n2)
      BY <2>6, <3>1, Zenon DEF ReadValue
    <3>3. QED
      BY <1>4, <2>6, <3>2, Zenon
  <2>8. stage' = "value" /\ ptr' = r /\ n1' = i.from /\ n2' = -1
    BY <2>4, <2>5, <2>7 DEF AfterValue
  <2>9. items'[k] = i /\ items' = items
    BY <1>4 DEF i
  <2>10. ptr' = <<Token("number", i.to)>> \o Slash(i, Behind(items, k))
    BY <2>8, Zenon DEF r, rest
  <2>11. AtItem(k)'
    BY <1>4, <1>9, <2>8, <2>9, <2>10, Zenon DEF AtItem
  <2>12. QED
    BY <2>11, Zenon
<1>10. CASE n1 # -1
  <2>1. i.k = "range" /\ n1 = i.from /\ ptr = <<Token("number", i.to)>> \o rest
    BY <1>10, Zenon DEF AtItem, i, rest
  <2>2. Token("number", i.to) \in Tokens /\ Token("number", i.to).k = "number" /\ Token("number", i.to).v = i.to
    BY <1>2 DEF Token, Tokens
  <2>3. At(ptr, "number") /\ ~ At(ptr, "*") /\ Tail(ptr) = rest /\ Head(ptr).v = i.to
    BY <1>3, <1>5, <2>1, <2>2, ZenonT(60)
  <2>4. AfterValue(rest, i.from, i.to)
    <3>1. ~ (n1 < 0)
      BY <1>2, <2>1
    <3>2. AfterValue(Tail(ptr), n1, Head(ptr).v)
      BY <2>3, <3>1, Zenon DEF ReadValue
    <3>3. QED
      BY <2>1, <2>3, <3>2, Zenon
  <2>5. QED
    BY <1>2, <1>6, <2>1, <2>4
<1>11. QED
  BY <1>2, <1>7, <1>8, <1>9, <1>10, Zenon

\* A turn of the fill loop.
LEMMA FillInv ==
    ASSUME FieldType, Correct, NEW k \in 1 .. Len(items), NEW d \in 0 .. modvalue - 1, Filling(k, d), Fill
    PROVE  \/ d + 1 \in 0 .. modvalue - 1 /\ Filling(k, d + 1)'
           \/ Ended(k)'
<1> DEFINE i == items[k]
           z == (i.from + d) % modvalue
<1>1. i \in Item /\ InRange(i) /\ k \in Nat /\ k > 0
  BY ItemInRange DEF FieldType
<1>2. i.from \in 0 .. modvalue - 1 /\ EndOf(i) \in 0 .. modvalue - 1 /\ i.step \in Int
  BY <1>1, ItemType, Zenon
<1> HIDE DEF i
<1>3. /\ n2 = EndOf(i) /\ skip = i.step /\ ptr = Behind(items, k) /\ d \in 0 .. Distance(i)
      /\ failsafe = Failsafe - d /\ n1 = Cursor(i, d) /\ Counting(i, d, s0)
      /\ ary = UpToItem(items, k - 1) \cup Filled(i, d)
  BY DEF Filling, i
<1>4. UNCHANGED <<items, ptr, n2, skip>> /\ items'[k] = i
  BY Zenon DEF Fill, i
<1>5. n1' = z /\ z \in 0 .. modvalue - 1
  BY <1>2, <1>3, NextTurn, ZenonT(60) DEF Fill, Turn
<1>6. EndOf(i) = z <=> d = Distance(i)
  BY <1>2, NextTurn, Zenon DEF Distance
<1>7. Distance(i) \in 0 .. modvalue - 1
  BY <1>1, LastFilled
<1>8. Counting(i, d + 1, s0')
  BY <1>2, <1>3, Counts DEF Fill, Reload
<1>9. ary' = UpToItem(items, k - 1) \cup Filled(i, d + 1)
  <2>1. s0 = 1 <=> Chosen(i, d)
    BY <1>2, <1>3, Counts
  <2>2. ary' = IF s0 = 1 THEN ary \cup {z} ELSE ary
    BY <1>5, Zenon DEF Fill
  <2>3. Filled(i, d + 1) = Filled(i, d) \cup (IF Chosen(i, d) THEN {z} ELSE {})
    BY <1>2, OneMoreFilled, Zenon
  <2> HIDE DEF z
  <2>4. QED
    BY <1>3, <2>1, <2>2, <2>3
<1>10. failsafe' = Failsafe - (d + 1) /\ ~ GivesUp(failsafe')
  BY <1>3, CronNumbers DEF Fill, GivesUp
<1> HIDE DEF z
<1>11. stage' = IF d = Distance(i) THEN "next" ELSE "fill"
  BY <1>3, <1>5, <1>6, <1>10, Zenon DEF Fill, Reached
<1>12. CASE d = Distance(i)
  <2>1. ary' = UpToItem(items, k)
    BY <1>1, <1>9, <1>12, LastFilled, OneMoreItem DEF i
  <2>2. QED
    BY <1>3, <1>4, <1>11, <1>12, <2>1, Zenon DEF Ended
<1>13. CASE d # Distance(i)
  <2>1. d + 1 \in 0 .. Distance(i) /\ d + 1 \in 0 .. modvalue - 1 /\ d + 1 # 0 /\ i.from + (d + 1) - 1 = i.from + d
    <3> DEFINE x == Distance(i)
    <3>1. d \in Nat /\ x \in Nat /\ d <= x /\ x <= modvalue - 1 /\ d # x /\ modvalue \in Nat /\ i.from \in Nat
      BY <1>2, <1>3, <1>7, <1>13, CronNumbers
    <3> HIDE DEF x
    <3>2. d + 1 \in 0 .. x /\ d + 1 \in 0 .. modvalue - 1 /\ d + 1 # 0 /\ i.from + (d + 1) - 1 = i.from + d
      BY <3>1
    <3>3. QED
      BY <3>2, Zenon DEF x
  <2>2. n1' = Cursor(i, d + 1)
    BY <1>5, <2>1 DEF Cursor, z
  <2>3. QED
    BY <1>3, <1>4, <1>8, <1>9, <1>10, <1>11, <1>13, <2>1, <2>2, ZenonT(60) DEF Filling
<1>14. QED
  BY <1>12, <1>13, Zenon

\* A comma, or the end.
LEMMA NextItemInv ==
    ASSUME FieldType, Correct, NEW k \in 1 .. Len(items), Ended(k), NextItem
    PROVE  Ended(k)' \/ (k + 1 \in 1 .. Len(items) /\ AtItem(k + 1)')
<1>1. items \in Seq(Item) /\ Len(items) > 0 /\ ptr = Behind(items, k) /\ ary = UpToItem(items, k)
      /\ UNCHANGED <<items, ary>> /\ Len(items) \in Nat
  <2>1. items \in Seq(Item) /\ Len(items) > 0 /\ Len(items) \in Nat
    BY DEF FieldType
  <2>2. stage = "next" /\ UNCHANGED <<items, ary>>
    BY DEF NextItem
  <2>3. ptr = Behind(items, k) /\ ary = UpToItem(items, k)
    BY <2>2 DEF Ended
  <2>4. QED
    BY <2>1, <2>2, <2>3
<1>2. CASE k = Len(items)
  <2>1. ptr = <<>>
    BY <1>1, <1>2 DEF Behind
  <2>2. ~ At(ptr, ",")
    BY <2>1 DEF At
  <2>3. stage' = "done"
    BY <2>1, <2>2 DEF NextItem
  <2>4. QED
    BY <1>1, <1>2, <2>3 DEF Ended
<1>3. CASE k # Len(items)
  <2>1. k + 1 \in 1 .. Len(items) /\ items[k + 1] \in Item /\ (k + 1) - 1 = k
    BY <1>1, <1>3
  <2> DEFINE r == Text(items[k + 1], Behind(items, k + 1))
  <2>2. r \in Seq(Tokens) /\ From(items)[k + 1] = r
    BY <1>1, <2>1, TextFrom, TextType, Zenon
  <2>3. ptr = <<Token(",", 0)>> \o r
    BY <1>1, <1>3, <2>2 DEF Behind
  <2>4. Token(",", 0) \in Tokens /\ Token(",", 0).k = ","
    BY DEF Token, Tokens
  <2> HIDE DEF r
  <2>5. ptr # <<>> /\ Head(ptr) = Token(",", 0) /\ Tail(ptr) = r
    BY <2>2, <2>3, <2>4, FirstToken
  <2>6. At(ptr, ",")
    BY <2>4, <2>5 DEF At
  <2>7. stage' = "value" /\ ptr' = r /\ n1' = -1 /\ n2' = -1
    BY <2>5, <2>6 DEF NextItem
  <2>8. AtItem(k + 1)'
    BY <1>1, <2>1, <2>7, Zenon DEF AtItem, r
  <2>9. QED
    BY <2>1, <2>8
<1>4. QED
  BY <1>2, <1>3

LEMMA FieldNextInv == FieldInv /\ [FieldNext]_field_vars => FieldInv'
<1> SUFFICES ASSUME FieldInv, [FieldNext]_field_vars PROVE FieldInv'
  OBVIOUS
<1>1. FieldType /\ items' = items /\ Len(items) \in Nat
  <2>1. FieldType /\ Len(items) \in Nat
    BY DEF FieldInv, FieldType
  <2>2. items' = items
    BY Zenon DEF FieldNext, ReadValue, Fill, NextItem, field_vars
  <2>3. QED
    BY <2>1, <2>2
<1>2. FieldType'
  BY <1>1 DEF FieldType
<1> DEFINE Somewhere(k) == AtItem(k) \/ (\E d \in 0 .. modvalue - 1 : Filling(k, d)) \/ Ended(k)
<1>3. ASSUME Correct PROVE \E k \in 1 .. Len(items) : Somewhere(k)'
  <2>1. PICK k \in 1 .. Len(items) : Somewhere(k)
    BY <1>3 DEF FieldInv, Correct
  <2>2. CASE ReadValue
    <3>1. AtItem(k)
      BY <2>1, <2>2 DEF ReadValue, Filling, Ended
    <3>2. 0 \in 0 .. modvalue - 1
      BY CronNumbers
    <3>3. QED
      BY <1>1, <1>3, <2>2, <3>1, <3>2, ReadValueInv, Zenon
  <2>3. CASE Fill
    <3>1. PICK d \in 0 .. modvalue - 1 : Filling(k, d)
      BY <2>1, <2>3 DEF Fill, AtItem, Ended
    <3>2. QED
      BY <1>1, <1>3, <2>3, <3>1, FillInv, Zenon
  <2>4. CASE NextItem
    <3>1. Ended(k)
      BY <2>1, <2>4 DEF NextItem, Filling, AtItem
    <3>2. QED
      BY <1>1, <1>3, <2>4, <3>1, NextItemInv, Zenon
  <2>5. CASE UNCHANGED field_vars
    BY <2>1, <2>5, Zenon DEF field_vars, AtItem, Filling, Ended
  <2>6. QED
    BY <2>2, <2>3, <2>4, <2>5, Zenon DEF FieldNext
<1>4. Correct' <=> Correct
  BY <1>1 DEF Correct
<1>5. QED
  BY <1>1, <1>2, <1>3, <1>4 DEF FieldInv, Correct

\* For every size of the array, every failsafe above it and every field of items in
\* range: ParseField reports no error and sets exactly the entries the items stand for,
\* ranges that go round the end and steps included (timer_service.c:97-182).
THEOREM FieldIsExact == FieldSpec => []FieldExact
<1>1. FieldInit => FieldInv
  BY FieldInitInv
<1>2. FieldInv /\ [FieldNext]_field_vars => FieldInv'
  BY FieldNextInv
<1>3. FieldInv => FieldExact
  <2> SUFFICES ASSUME FieldInv, Correct
               PROVE  stage # "err" /\ (stage = "done" => ary = UNION {Meaning(items[n]) : n \in DOMAIN items})
    BY DEF FieldExact, Correct
  <2>1. PICK k \in 1 .. Len(items) : AtItem(k) \/ (\E d \in 0 .. modvalue - 1 : Filling(k, d)) \/ Ended(k)
    BY Zenon DEF FieldInv, Correct
  <2>2. stage # "err"
    BY <2>1, Zenon DEF AtItem, Filling, Ended
  <2>3. ASSUME stage = "done" PROVE ary = UNION {Meaning(items[n]) : n \in DOMAIN items}
    <3>1. k = Len(items) /\ ary = UpToItem(items, k)
      BY <2>1, <2>3 DEF AtItem, Filling, Ended
    <3>2. DOMAIN items = 1 .. Len(items)
      BY DEF FieldInv, FieldType
    <3>3. QED
      BY <3>1, <3>2, Zenon DEF UpToItem
  <2>4. QED
    BY <2>2, <2>3, Zenon
<1>4. QED
  BY <1>1, <1>2, <1>3, PTL DEF FieldSpec
================================================================================
