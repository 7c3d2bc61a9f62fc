----------------------------- MODULE OpLogProofs ------------------------------
(*****************************************************************************)
(* What OpLog promises for any number of loggers, dispatchers, messages and   *)
(* days and any length of the queue: the inductive invariant and its proof.   *)
(*****************************************************************************)
EXTENDS OpLog, SequenceTheorems, TLAPS

Quiescent == {"none", "exited", "garbage"}

\* What the proof needs of the variables' types.
LogType ==
    /\ net \subseteq Nat /\ sent \in Nat
    /\ vector \in Seq(Nat) /\ handled \in Seq(Nat)
    /\ blocks \in Int /\ leaked \in Int
    /\ disk_run \in {0, 1}
    /\ dispatcher \in [Dispatcher -> {"none", "new", "test", "enter", "waiting", "woken",
                                      "exited", "garbage"}]
    /\ day \in Day /\ files \subseteq Day
    /\ clock_back \in BOOLEAN /\ misfiled \in BOOLEAN

\* As long as the clock was not set back, no file is of a later day than today, and
\* the open file is today's as soon as today's exists.
Today ==
    ~ clock_back => /\ \A x \in files : x <= day
                    /\ fd # 0 /\ day \in files => fd = day

\* Before the first dispatcher is created there is none; what comes after the joins
\* finds no dispatcher that still runs, unless oplog_exit left the joins out.
Lives ==
    /\ main \in {"setup", "routine"} => \A d \in Dispatcher : dispatcher[d] = "none"
    /\ freed => main \in {"self", "done"}
    /\ main \in {"free", "self", "done"} /\ ~ skipped =>
         \A d \in Dispatcher : dispatcher[d] \in Quiescent

IInv ==
    /\ LogType
    /\ QueueExact /\ InOrderOnce
    /\ Today /\ DayFile
    /\ Lives /\ DispatcherOutlivesOnlySkippedJoin

\* The queue behind what was handled: what is appended comes last.
LEMMA AppendedLast ==
    ASSUME NEW s \in Seq(Nat), NEW t \in Seq(Nat), NEW m \in Nat
    PROVE  Append(s \o t, m) = s \o Append(t, m)
<1>1. s \o t \in Seq(Nat) /\ <<m>> \in Seq(Nat)
  OBVIOUS
<1>2. Append(s \o t, m) = (s \o t) \o <<m>> /\ Append(t, m) = t \o <<m>>
  BY <1>1, AppendIsConcat, Zenon
<1>3. (s \o t) \o <<m>> = s \o (t \o <<m>>)
  <2>1. \A u \in Seq(Nat) : (s \o t) \o u = s \o (t \o u)
    BY ConcatAssociative, SMTT(60)
  <2>2. QED  BY <1>1, <2>1, SMTT(60)
<1>. QED  BY <1>2, <1>3, Zenon

\* What is taken comes first.
LEMMA TakenFirst ==
    ASSUME NEW s \in Seq(Nat), NEW t \in Seq(Nat), t # <<>>
    PROVE  Append(s, Head(t)) \o Tail(t) = s \o t
BY SMTT(60)

LEMMA InitIInv == Init => IInv
<1>. SUFFICES ASSUME Init PROVE IInv
  OBVIOUS
<1>1. LogType
  <2>1. vector \in Seq(Nat) /\ handled \in Seq(Nat)
    BY DEF Init
  <2>2. clock_back \in BOOLEAN /\ misfiled \in BOOLEAN
    BY Zenon DEF Init
  <2>3. dispatcher \in [Dispatcher -> {"none", "new", "test", "enter", "waiting", "woken",
                                       "exited", "garbage"}]
    BY DEF Init
  <2>. QED  BY <2>1, <2>2, <2>3 DEF Init, LogType
<1>2. QueueExact /\ InOrderOnce
  BY LogConstants DEF Init, QueueExact, InOrderOnce
<1>3. Today /\ DayFile /\ Lives /\ DispatcherOutlivesOnlySkippedJoin
  BY DEF Init, Today, DayFile, Lives, DispatcherOutlivesOnlySkippedJoin
<1>. QED  BY <1>1, <1>2, <1>3 DEF IInv

\* The steps of Next that touch the queue, and those that touch the files.
LEMMA Frames ==
    ASSUME [Next]_vars
    PROVE  /\ \/ UNCHANGED queueVars
              \/ oplog_job
              \/ vector # <<>> /\ TakeFirst
           /\ \/ UNCHANGED diskVars
              \/ ClockStep
              \/ vector # <<>> /\ TakeFirst
<1>1. CASE oplog_init
  BY <1>1 DEF oplog_init
<1>2. CASE Owner
  BY <1>2 DEF Owner
<1>3. CASE oplog_exit
  BY <1>3 DEF oplog_exit
<1>4. CASE oplog_routine
  BY <1>4 DEF oplog_routine, routine_start, routine_test, routine_block, oplog_job
<1>5. ASSUME NEW d \in Dispatcher, oplog_dispatch(d)
      PROVE  /\ UNCHANGED queueVars \/ (vector # <<>> /\ TakeFirst)
             /\ UNCHANGED diskVars \/ (vector # <<>> /\ TakeFirst)
  BY <1>5 DEF oplog_dispatch, Undefined, dispatch_start, dispatch_test, dispatch_locked
<1>6. ASSUME NEW d \in Dispatcher, SpuriousWake(d)
      PROVE  UNCHANGED queueVars /\ UNCHANGED diskVars
  BY <1>6 DEF SpuriousWake
<1>7. ASSUME NEW l \in Logger, oplog_print_check(l) \/ oplog_print_send(l)
      PROVE  UNCHANGED queueVars /\ UNCHANGED diskVars
  BY <1>7 DEF oplog_print_check, oplog_print_send, Undefined
<1>8. CASE Arrives \/ Lost
  BY <1>8 DEF Arrives, Lost
<1>9. CASE ClockStep
  BY <1>9 DEF ClockStep
<1>10. CASE UNCHANGED vars
  BY <1>10 DEF vars
<1>. QED  BY <1>1, <1>2, <1>3, <1>4, <1>5, <1>6, <1>7, <1>8, <1>9, <1>10 DEF Next

\* oplog_job only puts a datagram at the end; a dispatcher only takes the first.
LEMMA QueueStep ==
    ASSUME IInv, [Next]_vars
    PROVE  /\ vector' \in Seq(Nat) /\ handled' \in Seq(Nat)
           /\ blocks' \in Int /\ leaked' \in Int
           /\ QueueExact' /\ InOrderOnce'
<1>. USE DEF IInv, LogType
<1>1. CASE UNCHANGED queueVars
  BY <1>1 DEF queueVars, QueueExact, InOrderOnce
<1>2. CASE oplog_job
  <2>1. PICK m \in net : \/ DropShort(m) \/ DropNoCopy(m) \/ DropNoItem(m)
                         \/ DropFull(m) \/ Accept(m)
    BY <1>2 DEF oplog_job
  <2>2. CASE DropShort(m) \/ DropNoCopy(m) \/ DropFull(m)
    BY <1>1, <2>2 DEF DropShort, DropNoCopy, DropFull
  <2>3. CASE DropNoItem(m)
    BY <2>3 DEF DropNoItem, QueueExact, InOrderOnce
  <2>4. CASE Accept(m)
    <3>1. m \in Nat
      OBVIOUS
    <3>2. /\ vector' = Append(vector, m) /\ accepted' = Append(accepted, m)
          /\ vector_num' = vector_num + 1 /\ blocks' = blocks + 2
          /\ ~ (vector_num > LOG_RECV_LIST_SIZE)
          /\ UNCHANGED <<handled, leaked>>
      BY <2>4 DEF Accept, Enqueue, HasRoom
    <3>3. vector' \in Seq(Nat) /\ Len(vector') = Len(vector) + 1 /\ Len(vector) \in Nat
      BY <3>1, <3>2
    <3>4. QueueExact'
      BY <3>2, <3>3, LogConstants DEF QueueExact
    <3>5. Append(handled \o vector, m) = handled \o Append(vector, m)
      BY <3>1, AppendedLast
    <3>6. InOrderOnce'
      BY <3>2, <3>5 DEF InOrderOnce
    <3>. QED  BY <3>2, <3>3, <3>4, <3>6
  <2>. QED  BY <2>1, <2>2, <2>3, <2>4
<1>3. CASE vector # <<>> /\ TakeFirst
  <2>1. /\ vector' = Tail(vector) /\ handled' = Append(handled, Head(vector))
        /\ vector_num' = vector_num - 1 /\ blocks' = blocks - 2
        /\ UNCHANGED <<accepted, leaked>>
    BY <1>3 DEF TakeFirst, Dequeue
  <2>2. /\ vector' \in Seq(Nat) /\ Len(vector') = Len(vector) - 1 /\ Len(vector) \in Nat
        /\ Head(vector) \in Nat
    BY <1>3, <2>1
  <2>3. QueueExact'
    BY <2>1, <2>2, LogConstants DEF QueueExact
  <2>4. Append(handled, Head(vector)) \o Tail(vector) = handled \o vector
    BY <1>3, TakenFirst, SMTT(30)
  <2>5. InOrderOnce'
    BY <2>1, <2>4, Zenon DEF InOrderOnce
  <2>. QED  BY <2>1, <2>2, <2>3, <2>5
<1>. QED  BY <1>1, <1>2, <1>3, Frames

\* Only a dispatcher opens files, and only that of today.
LEMMA DiskStep ==
    ASSUME IInv, [Next]_vars
    PROVE  /\ day' \in Day /\ files' \subseteq Day
           /\ clock_back' \in BOOLEAN /\ misfiled' \in BOOLEAN
           /\ Today' /\ DayFile'
<1>. USE DEF IInv, LogType
<1>1. CASE UNCHANGED diskVars
  BY <1>1 DEF diskVars, Today, DayFile
<1>2. CASE ClockStep
  <2>1. day' \in Day /\ day' # day /\ clock_back' = (clock_back \/ day' < day)
        /\ UNCHANGED <<fd, files, misfiled>>
    BY <1>2 DEF ClockStep
  <2>2. ASSUME ~ clock_back'
        PROVE  /\ \A x \in files : x <= day'
               /\ day' \notin files
    <3>1. ~ clock_back /\ ~ (day' < day)
      BY <2>1, <2>2, Zenon
    <3>2. \A x \in files : x <= day
      BY <3>1 DEF Today
    <3>3. day \in Nat /\ day' \in Nat /\ files \subseteq Nat
      BY <2>1, LogConstants
    <3>4. day < day'
      BY <2>1, <3>1, <3>3
    <3>. QED  BY <3>2, <3>3, <3>4
  <2>. QED  BY <2>1, <2>2 DEF Today, DayFile
<1>3. CASE vector # <<>> /\ TakeFirst
  <2>1. CASE op_log_prog
    <3>1. /\ UNCHANGED <<day, clock_back>>
          /\ misfiled' = misfiled \/ misfiled' = (misfiled \/ (fd' # 0 /\ fd' # day))
      BY <2>1 DEF op_log_prog
    <3>2. \/ FileIsCurrent /\ UNCHANGED <<fd, files>>
          \/ fd' = day /\ files' = files \cup {day}
          \/ fd' = 0 /\ UNCHANGED files
      BY <2>1 DEF op_log_prog, _oplog_check_disk
    <3>3. Today' /\ files' \subseteq Day
      <4>1. day \in Nat \ {0} /\ files' \subseteq Day
        BY <3>2, LogConstants, Zenon
      <4>2. CASE FileIsCurrent /\ UNCHANGED <<fd, files>>
        BY <3>1, <4>1, <4>2 DEF Today
      <4>3. CASE fd' = day /\ files' = files \cup {day}
        BY <3>1, <4>1, <4>3 DEF Today
      <4>4. CASE fd' = 0 /\ UNCHANGED files
        BY <3>1, <4>1, <4>4 DEF Today
      <4>. QED  BY <3>2, <4>1, <4>2, <4>3, <4>4
    <3>4. ASSUME fd' # 0 /\ fd' # day
          PROVE  clock_back
      BY <3>2, <3>4 DEF Today, FileIsCurrent
    <3>. QED  BY <3>1, <3>3, <3>4 DEF DayFile
  <2>. QED  BY <1>1, <1>3, <2>1 DEF TakeFirst
<1>. QED  BY <1>1, <1>2, <1>3, Frames

\* What moves main and the dispatchers.
LEMMA LivesStep ==
    ASSUME IInv, [Next]_vars
    PROVE  /\ disk_run' \in {0, 1}
           /\ dispatcher' \in [Dispatcher -> {"none", "new", "test", "enter", "waiting", "woken",
                                               "exited", "garbage"}]
           /\ Lives' /\ DispatcherOutlivesOnlySkippedJoin'
<1>. USE DEF IInv, LogType, Lives, DispatcherOutlivesOnlySkippedJoin, Quiescent
<1>1. CASE UNCHANGED <<mainVars, disk_run, dispatcher, undefined>>
  BY <1>1 DEF mainVars
<1>2. CASE oplog_init
  <2>1. CASE oplog_init_setup
    BY <2>1 DEF oplog_init_setup, MainMoves, threadVars
  <2>2. CASE oplog_init_routine
    BY <2>2 DEF oplog_init_routine, MainMoves
  <2>3. CASE oplog_init_disk
    BY <2>3, Zenon DEF oplog_init_disk, MainMoves, DispatcherMoves
  <2>. QED  BY <1>2, <2>1, <2>2, <2>3 DEF oplog_init
<1>3. CASE Owner
  BY <1>3 DEF Owner, oplog_exit_call, MainMoves, threadVars
<1>4. CASE oplog_exit
  <2>1. CASE exit_break
    BY <2>1, Zenon DEF exit_break, MainMoves
  <2>2. CASE exit_join_routine
    BY <2>2, Zenon DEF exit_join_routine, MainMoves, threadVars
  <2>3. CASE exit_test
    BY <1>4, <2>3, Zenon DEF oplog_exit, Defined, exit_test, MainMoves
  <2>4. CASE exit_wake
    BY <2>4 DEF exit_wake, Broadcast, MainMoves
  <2>5. CASE exit_join
    BY <2>5 DEF exit_join, Joined, MainMoves, threadVars
  <2>6. CASE exit_free
    BY <2>6 DEF exit_free, MainMoves, threadVars
  <2>7. CASE exit_self
    BY <2>7 DEF exit_self, MainMoves, threadVars
  <2>. QED  BY <1>4, <2>1, <2>2, <2>3, <2>4, <2>5, <2>6, <2>7 DEF oplog_exit
<1>5. CASE oplog_routine
  <2>1. CASE routine_start \/ routine_test \/ routine_block
    BY <1>1, <2>1 DEF routine_start, routine_test, routine_block
  <2>2. CASE oplog_job
    <3>1. UNCHANGED <<mainVars, disk_run, undefined>>
      BY <2>2 DEF oplog_job
    <3>2. UNCHANGED dispatcher \/ Broadcast
      BY <2>2 DEF oplog_job, DropShort, DropNoCopy, DropNoItem, DropFull, Accept
    <3>. QED  BY <1>1, <3>1, <3>2 DEF Broadcast, mainVars
  <2>. QED  BY <1>5, <2>1, <2>2 DEF oplog_routine
<1>6. ASSUME NEW d \in Dispatcher, oplog_dispatch(d)
      PROVE  /\ disk_run' \in {0, 1}
             /\ dispatcher' \in [Dispatcher -> {"none", "new", "test", "enter", "waiting",
                                                 "woken", "exited", "garbage"}]
             /\ Lives' /\ DispatcherOutlivesOnlySkippedJoin'
  <2>1. CASE freed
    BY <1>6, <2>1 DEF oplog_dispatch, Undefined, mainVars, threadVars
  <2>2. CASE ~ freed
    <3>1. CASE dispatch_start(d)
      BY <3>1 DEF dispatch_start, DispatcherMoves, mainVars
    <3>2. CASE dispatch_test(d)
      BY <3>2 DEF dispatch_test, DispatcherMoves, mainVars
    <3>3. CASE dispatcher[d] \in {"enter", "woken"} /\ dispatch_locked(d)
      BY <3>3, Zenon DEF dispatch_locked, DispatcherMoves, mainVars
    <3>. QED  BY <1>6, <2>2, <3>1, <3>2, <3>3 DEF oplog_dispatch
  <2>. QED  BY <2>1, <2>2
<1>7. ASSUME NEW d \in Dispatcher, SpuriousWake(d)
      PROVE  /\ disk_run' \in {0, 1}
             /\ dispatcher' \in [Dispatcher -> {"none", "new", "test", "enter", "waiting",
                                                 "woken", "exited", "garbage"}]
             /\ Lives' /\ DispatcherOutlivesOnlySkippedJoin'
  BY <1>7 DEF SpuriousWake, DispatcherMoves, mainVars
<1>8. ASSUME NEW l \in Logger, oplog_print_send(l), freed
      PROVE  UNCHANGED <<mainVars, disk_run, dispatcher>> /\ undefined' = "logger"
  BY <1>8 DEF oplog_print_send, Undefined, threadVars
<1>9. ASSUME NEW l \in Logger, oplog_print_check(l) \/ (oplog_print_send(l) /\ ~ freed)
      PROVE  UNCHANGED <<mainVars, disk_run, dispatcher, undefined>>
  BY <1>9 DEF oplog_print_check, oplog_print_send, threadVars
<1>10. CASE Arrives \/ Lost \/ ClockStep \/ UNCHANGED vars
  BY <1>1, <1>10 DEF Arrives, Lost, ClockStep, vars, threadVars
<1>11. CASE \E l \in Logger : oplog_print_check(l) \/ oplog_print_send(l)
  BY <1>1, <1>8, <1>9, <1>11 DEF mainVars
<1>. QED  BY <1>2, <1>3, <1>4, <1>5, <1>6, <1>7, <1>10, <1>11 DEF Next

\* Datagrams are numbered from 1.
LEMMA NetStep ==
    ASSUME IInv, [Next]_vars
    PROVE  net' \subseteq Nat /\ sent' \in Nat
<1>. USE DEF IInv, LogType
<1>0. Sends => net' \subseteq Nat /\ sent' \in Nat
  <2>1. Sends => sent' \in Nat /\ net' = net \cup {sent'}
    BY DEF Sends
  <2>. QED  BY <2>1, Zenon
<1>1. CASE UNCHANGED netVars
  BY <1>1 DEF netVars
<1>2. CASE oplog_routine
  BY <1>2, Zenon DEF oplog_routine, routine_start, routine_test, routine_block, oplog_job, netVars
<1>3. ASSUME NEW l \in Logger, oplog_print_check(l) \/ oplog_print_send(l)
      PROVE  net' \subseteq Nat /\ sent' \in Nat
  BY <1>0, <1>3, Zenon DEF oplog_print_check, oplog_print_send, Undefined, netVars
<1>4. CASE Arrives \/ Lost
  <2>1. CASE Sends
    BY <1>0, <2>1
  <2>2. CASE net' = net \cup {0} /\ UNCHANGED sent
    BY <2>2
  <2>3. CASE (\E m \in net : net' = net \ {m}) /\ UNCHANGED sent
    BY <2>3
  <2>. QED  BY <1>4, <2>1, <2>2, <2>3 DEF Arrives, Lost, Short
<1>5. CASE oplog_init \/ Owner \/ oplog_exit \/ ClockStep \/ UNCHANGED vars
  BY <1>1, <1>5 DEF oplog_init, Owner, oplog_exit, ClockStep, vars
<1>6. ASSUME NEW d \in Dispatcher, oplog_dispatch(d) \/ SpuriousWake(d)
      PROVE  UNCHANGED netVars
  BY <1>6 DEF oplog_dispatch, Undefined, dispatch_start, dispatch_test, dispatch_locked,
              SpuriousWake
<1>. QED  BY <1>1, <1>2, <1>3, <1>4, <1>5, <1>6 DEF Next

\* IInv is inductive: every behaviour of the log service keeps it.
THEOREM LogInductive == Spec => []IInv
<1>1. IInv /\ [Next]_vars => IInv'
  BY QueueStep, DiskStep, LivesStep, NetStep DEF IInv, LogType
<1>. QED  BY InitIInv, <1>1, PTL DEF Spec

\* For every limit of the queue and any number of threads, vector_num is the length of
\* the list, the queue exceeds LOG_RECV_LIST_SIZE by one at most, and every block of the
\* receive path is in the queue or lost at oplog.c:173.
THEOREM QueueIsExact == Spec => []QueueExact
BY LogInductive, PTL DEF IInv

\* However many dispatchers take from the queue, what they took and what is left is what
\* oplog_job queued, once and in order (oplog.c:186-197, 366-396).
THEOREM TakenInOrderOnce == Spec => []InOrderOnce
BY LogInductive, PTL DEF IInv

\* Only an oplog_exit that found disk_run still 0 and left out the joins (oplog.c:655)
\* frees the structure under a dispatcher, for any number of dispatchers.
THEOREM DispatcherOutlivesOnlyThen == Spec => []DispatcherOutlivesOnlySkippedJoin
BY LogInductive, PTL DEF IInv

\* A line is written to the file of another day only after the clock was set back
\* (oplog.c:232), for any set of days.
THEOREM RightDayFile == Spec => []DayFile
BY LogInductive, PTL DEF IInv

===============================================================================
