-------------------------------- MODULE OpLog --------------------------------
(***************************************************************************)
(* The log service of base/oplog.c.  Callers of oplog_print send UDP        *)
(* datagrams to the service's own socket; the event-loop thread (oplog_job)  *)
(* queues them and LOG_DISK_THREAD_NUM dispatchers write them to the file    *)
(* of the day.  The thread that runs oplog_init may also run oplog_exit.     *)
(*                                                                         *)
(* A critical section of recv.lock or send.lock is one action; the tests of  *)
(* self and disk_run, which the code makes outside the locks, are steps of    *)
(* their own.  A thread that goes on with *_op after free() takes the model   *)
(* to undefined # "no", and nothing is promised from there on.               *)
(***************************************************************************)
EXTENDS Integers, Sequences, Functions

CONSTANTS
    Logger,               \* threads that call oplog_print
    MaxMessage,           \* bound on the whole datagrams sent
    LOG_RECV_LIST_SIZE,
    LOG_DISK_THREAD_NUM,
    Day                   \* dates, in order

ASSUME LogConstants ==
    /\ MaxMessage \in Nat
    /\ LOG_RECV_LIST_SIZE \in Nat
    /\ LOG_DISK_THREAD_NUM \in Nat \ {0}
    /\ Day \subseteq Nat \ {0}

Dispatcher == 1 .. LOG_DISK_THREAD_NUM

\* Datagrams, numbered as they are sent; Short is one smaller than its header.
Message == 1 .. MaxMessage
Short == 0

VARIABLES
    main,        \* where the thread in oplog_init / oplog_exit is
    self,        \* the global pointer is set
    freed,       \* *_op has been freed
    routine,     \* the event-loop thread
    event_break, \* the loop's break flag
    disk_run, vector, vector_num,
    dispatcher,  \* where each dispatcher is
    logger,      \* where each caller of oplog_print is
    net,         \* datagrams on the way or in the socket's buffer
    sent,
    blocks,      \* op_calloc'ed blocks of the receive path not yet freed
    fd,          \* prog.fd: 0 when not open, else the day whose file it is
    files,       \* days whose file exists
    day,         \* today, by the system clock
    accepted, handled, leaked, misfiled, clock_back, skipped, \* history
    undefined

queueVars   == <<vector, vector_num, blocks, accepted, handled, leaked>>
diskVars    == <<fd, files, day, misfiled, clock_back>>
netVars     == <<net, sent, logger>>
mainVars    == <<main, self, freed, skipped>>
threadVars  == <<routine, event_break, disk_run, dispatcher>>
vars == <<mainVars, threadVars, queueVars, netVars, diskVars, undefined>>

Init ==
    /\ main = "setup" /\ self = FALSE /\ freed = FALSE
    /\ routine = "none" /\ event_break = FALSE
    /\ disk_run = 0 /\ vector = <<>> /\ vector_num = 0
    /\ dispatcher = [d \in Dispatcher |-> "none"]
    /\ logger = [l \in Logger |-> "idle"]
    /\ net = {} /\ sent = 0 /\ blocks = 0
    /\ fd = 0 /\ day \in Day /\ files \in SUBSET {x \in Day : x <= day}
    /\ accepted = <<>> /\ handled = <<>> /\ leaked = 0
    /\ misfiled = FALSE /\ clock_back = FALSE
    /\ skipped = FALSE
    /\ undefined = "no"

Defined == undefined = "no"

\* A thread uses *_op after oplog_exit has freed it.
Undefined(who) ==
    /\ undefined' = who
    /\ UNCHANGED <<mainVars, threadVars, queueVars, netVars, diskVars>>
------------------------------------------------------------------------------
\* Senders and the network.

\* The next datagram is sent to the service's port.
Sends ==
    /\ sent < MaxMessage
    /\ sent' = sent + 1
    /\ net' = net \cup {sent'}

\* oplog_print: the test of self, then the critical section of send.lock.
oplog_print_check(l) ==
    /\ Defined /\ logger[l] = "idle" /\ self
    /\ logger' = [logger EXCEPT ![l] = "checked"]
    /\ UNCHANGED <<mainVars, threadVars, queueVars, net, sent, diskVars, undefined>>

oplog_print_send(l) ==
    /\ Defined /\ logger[l] = "checked"
    /\ \/ freed /\ Undefined("logger")
       \/ /\ ~ freed
          /\ Sends
          /\ logger' = [logger EXCEPT ![l] = "idle"]
          /\ UNCHANGED <<mainVars, threadVars, queueVars, diskVars, undefined>>

\* Another process sends to the port, or a datagram is lost.
Arrives ==
    /\ Defined
    /\ \/ Sends
       \/ net' = net \cup {Short} /\ UNCHANGED sent
    /\ UNCHANGED <<mainVars, threadVars, queueVars, logger, diskVars, undefined>>

Lost ==
    /\ Defined
    /\ \E m \in net : net' = net \ {m}
    /\ UNCHANGED <<mainVars, threadVars, queueVars, sent, logger, diskVars, undefined>>

\* The system clock reaches another day.
ClockStep ==
    /\ Defined
    /\ day' \in Day \ {day}
    /\ clock_back' = (clock_back \/ day' < day)
    /\ UNCHANGED <<mainVars, threadVars, queueVars, netVars, fd, files, misfiled, undefined>>
------------------------------------------------------------------------------
\* The event-loop thread (oplog_routine).  event_base_dispatch clears the break
\* flag when it starts, tests it before every poll, and polls.

routine_start ==
    /\ Defined /\ routine = "new"
    /\ routine' = "loop" /\ event_break' = FALSE
    /\ UNCHANGED <<mainVars, disk_run, dispatcher, queueVars, netVars, diskVars, undefined>>

routine_test ==
    /\ Defined /\ routine = "loop"
    /\ routine' = IF event_break THEN "ended" ELSE "tested"
    /\ UNCHANGED <<mainVars, event_break, disk_run, dispatcher, queueVars, netVars,
                   diskVars, undefined>>

routine_block ==
    /\ Defined /\ routine = "tested"
    /\ routine' = "poll"
    /\ UNCHANGED <<mainVars, event_break, disk_run, dispatcher, queueVars, netVars,
                   diskVars, undefined>>

\* pthread_cond_broadcast.
BroadcastNone == UNCHANGED dispatcher

Broadcast ==
    dispatcher' = [d \in Dispatcher |->
                     IF dispatcher[d] = "waiting" THEN "woken" ELSE dispatcher[d]]

\* oplog.c:192-193.
AppendUncounted(m) ==
    /\ vector' = Append(vector, m)
    /\ UNCHANGED vector_num

Enqueue(m) ==
    /\ vector' = Append(vector, m)
    /\ vector_num' = vector_num + 1

HasRoom == ~ (vector_num > LOG_RECV_LIST_SIZE)

\* oplog.c:162-197.  A datagram too short, no memory for the copy, or no memory
\* for the item (which leaves the copy behind), or a full queue: it is dropped.
DropShort(m)  == m = Short /\ UNCHANGED <<queueVars, dispatcher>>

DropNoCopy(m) == m # Short /\ UNCHANGED <<queueVars, dispatcher>>

DropNoItem(m) ==
    /\ m # Short
    /\ blocks' = blocks + 1
    /\ leaked' = leaked + 1
    /\ UNCHANGED <<vector, vector_num, accepted, handled, dispatcher>>

DropFull(m) == m # Short /\ ~ HasRoom /\ UNCHANGED <<queueVars, dispatcher>>

Accept(m) ==
    /\ m # Short /\ HasRoom
    /\ blocks' = blocks + 2
    /\ Enqueue(m)
    /\ Broadcast
    /\ accepted' = Append(accepted, m)
    /\ UNCHANGED <<handled, leaked>>

oplog_job ==
    /\ Defined /\ routine = "poll"
    /\ \E m \in net :
          /\ net' = net \ {m}
          /\ \/ DropShort(m)
             \/ DropNoCopy(m)
             \/ DropNoItem(m)
             \/ DropFull(m)
             \/ Accept(m)
    /\ routine' = "loop"
    /\ UNCHANGED <<mainVars, event_break, disk_run, sent, logger, diskVars, undefined>>
------------------------------------------------------------------------------
\* The dispatchers.

\* _oplog_check_disk: the file of today is opened when there is none or nothing
\* is open.  The result is the new value of fd; 0 also stands for a failed open.
KeepsOpen == fd # 0

FileIsCurrent == day \in files /\ fd # 0

_oplog_check_disk ==
    \/ FileIsCurrent /\ UNCHANGED <<fd, files>>
    \/ ~ FileIsCurrent /\ fd' = day /\ files' = files \cup {day}
    \/ ~ FileIsCurrent /\ fd' = 0 /\ UNCHANGED files

\* op_log_prog: nothing is written without a file, and the write may fail.
op_log_prog ==
    /\ _oplog_check_disk
    /\ misfiled' \in {misfiled, misfiled \/ (fd' # 0 /\ fd' # day)}
    /\ UNCHANGED <<day, clock_back>>

\* oplog.c:366-396, for a non-empty queue.
DequeueLast ==
    /\ vector' = SubSeq(vector, 1, Len(vector) - 1)
    /\ vector_num' = vector_num - 1
    /\ blocks' = blocks - 2
    /\ handled' = Append(handled, vector[Len(vector)])
    /\ UNCHANGED <<accepted, leaked>>

Dequeue ==
    /\ vector' = Tail(vector)
    /\ vector_num' = vector_num - 1
    /\ blocks' = blocks - 2
    /\ handled' = Append(handled, Head(vector))
    /\ UNCHANGED <<accepted, leaked>>

TakeFirst ==
    /\ op_log_prog \/ UNCHANGED diskVars
    /\ Dequeue

DispatcherMoves(d, pc) == dispatcher' = [dispatcher EXCEPT ![d] = pc]

dispatch_start(d) ==
    /\ dispatcher[d] = "new"
    /\ disk_run' = 1
    /\ DispatcherMoves(d, "test")
    /\ UNCHANGED <<routine, event_break, mainVars, queueVars, netVars, diskVars, undefined>>

dispatch_test(d) ==
    /\ dispatcher[d] = "test"
    /\ DispatcherMoves(d, IF disk_run = 1 THEN "enter" ELSE "exited")
    /\ UNCHANGED <<routine, event_break, disk_run, mainVars, queueVars, netVars, diskVars,
                   undefined>>

\* Under recv.lock: an empty queue makes the thread wait when it has just come
\* in, and go round again when it has been woken.
dispatch_locked(d) ==
    /\ \/ /\ vector # <<>>
          /\ TakeFirst
          /\ DispatcherMoves(d, "test")
       \/ /\ vector = <<>>
          /\ DispatcherMoves(d, IF dispatcher[d] = "enter" THEN "waiting" ELSE "test")
          /\ UNCHANGED <<queueVars, diskVars>>
    /\ UNCHANGED <<routine, event_break, disk_run, mainVars, netVars, undefined>>

oplog_dispatch(d) ==
    /\ Defined
    /\ IF freed
       THEN dispatcher[d] \notin {"none", "exited", "garbage"} /\ Undefined("dispatcher")
       ELSE \/ dispatch_start(d)
            \/ dispatch_test(d)
            \/ dispatcher[d] \in {"enter", "woken"} /\ dispatch_locked(d)

\* pthread_cond_wait may return without a signal.
SpuriousWake(d) ==
    /\ Defined /\ ~ freed /\ dispatcher[d] = "waiting"
    /\ DispatcherMoves(d, "woken")
    /\ UNCHANGED <<routine, event_break, disk_run, mainVars, queueVars, netVars, diskVars,
                   undefined>>
------------------------------------------------------------------------------
\* oplog_init, then oplog_exit when a step of it fails or the owner calls it.

MainMoves(pc) == main' = pc

\* oplog.c:484-596: memory, configuration, sockets, locks, event base.
oplog_init_setup ==
    /\ main = "setup"
    /\ \/ MainMoves("routine") /\ self' = TRUE
       \/ MainMoves("free") /\ UNCHANGED self
    /\ UNCHANGED <<freed, skipped, threadVars, undefined>>

\* A pthread_create that fails leaves the thread id as it was or meaningless.
oplog_init_routine ==
    /\ main = "routine"
    /\ \/ MainMoves("disk") /\ routine' = "new"
       \/ MainMoves("exit") /\ routine' \in {"none", "garbage"}
    /\ UNCHANGED <<self, freed, skipped, event_break, disk_run, dispatcher, undefined>>

oplog_init_disk ==
    /\ main = "disk"
    /\ \E d \in Dispatcher :
          /\ dispatcher[d] = "none"
          /\ \A e \in Dispatcher : e < d => dispatcher[e] # "none"
          /\ \/ /\ DispatcherMoves(d, "new")
                /\ MainMoves(IF d = LOG_DISK_THREAD_NUM THEN "running" ELSE "disk")
             \/ /\ \E id \in {"none", "garbage"} : DispatcherMoves(d, id)
                /\ MainMoves("exit")
    /\ UNCHANGED <<self, freed, skipped, routine, event_break, disk_run, undefined>>

oplog_exit_call ==
    /\ main = "running"
    /\ MainMoves("exit")
    /\ UNCHANGED <<self, freed, skipped, threadVars, undefined>>

Signal == routine' = IF routine = "poll" THEN "loop" ELSE routine

\* oplog.c:638-645.
exit_break ==
    /\ main = "exit"
    /\ CASE routine = "none" ->
              MainMoves("test") /\ UNCHANGED <<routine, event_break, undefined>>
         [] routine = "garbage" ->
              undefined' = "main" /\ UNCHANGED <<main, routine, event_break>>
         [] OTHER ->
              /\ event_break' = TRUE
              /\ Signal
              /\ MainMoves("join routine")
              /\ UNCHANGED undefined
    /\ UNCHANGED <<self, freed, skipped, disk_run, dispatcher>>

exit_join_routine ==
    /\ main = "join routine" /\ routine = "ended"
    /\ MainMoves("test")
    /\ UNCHANGED <<self, freed, skipped, threadVars, undefined>>

\* oplog.c:655-656, outside the lock.
exit_test ==
    /\ main = "test"
    /\ MainMoves(IF disk_run = 1 THEN "wake" ELSE "free")
    /\ skipped' = (disk_run = 0)
    /\ disk_run' = 0
    /\ UNCHANGED <<self, freed, routine, event_break, dispatcher, undefined>>

exit_wake_none ==
    /\ main = "wake"
    /\ MainMoves("join")
    /\ UNCHANGED <<self, freed, skipped, threadVars, undefined>>

exit_wake ==
    /\ main = "wake"
    /\ Broadcast
    /\ MainMoves("join")
    /\ UNCHANGED <<self, freed, skipped, routine, event_break, disk_run, undefined>>

\* oplog.c:660-666, in the order of the ids.
JoinedFirst == dispatcher[1] \in {"none", "exited", "garbage"}

Joined == \A d \in Dispatcher : dispatcher[d] \in {"none", "exited", "garbage"}

exit_join ==
    /\ main = "join" /\ Joined
    /\ IF \E d \in Dispatcher : dispatcher[d] = "garbage"
       THEN undefined' = "main" /\ UNCHANGED main
       ELSE MainMoves("free") /\ UNCHANGED undefined
    /\ UNCHANGED <<self, freed, skipped, threadVars>>

\* oplog.c:669-687: a condition variable with a waiter must not be destroyed.
exit_free ==
    /\ main = "free"
    /\ IF \E d \in Dispatcher : dispatcher[d] = "waiting"
       THEN undefined' = "dispatcher" /\ UNCHANGED <<main, freed>>
       ELSE freed' = TRUE /\ MainMoves("self") /\ UNCHANGED undefined
    /\ UNCHANGED <<self, skipped, threadVars>>

exit_self ==
    /\ main = "self"
    /\ self' = FALSE
    /\ MainMoves("done")
    /\ UNCHANGED <<freed, skipped, threadVars, undefined>>

\* The steps the main thread takes by itself; calling oplog_exit is a choice.
oplog_exit ==
    /\ Defined
    /\ \/ exit_break \/ exit_join_routine \/ exit_test \/ exit_wake \/ exit_join
       \/ exit_free \/ exit_self
    /\ UNCHANGED <<queueVars, netVars, diskVars>>

oplog_init ==
    /\ Defined
    /\ oplog_init_setup \/ oplog_init_routine \/ oplog_init_disk
    /\ UNCHANGED <<queueVars, netVars, diskVars>>

Owner ==
    /\ Defined
    /\ oplog_exit_call
    /\ UNCHANGED <<queueVars, netVars, diskVars>>

oplog_routine == routine_start \/ routine_test \/ routine_block \/ oplog_job

Next ==
    \/ oplog_init
    \/ Owner
    \/ oplog_exit
    \/ oplog_routine
    \/ \E d \in Dispatcher : oplog_dispatch(d) \/ SpuriousWake(d)
    \/ \E l \in Logger : oplog_print_check(l) \/ oplog_print_send(l)
    \/ Arrives
    \/ Lost
    \/ ClockStep

Spec == Init /\ [][Next]_vars

\* Every thread of the service goes on running, and one that contends for a
\* lock gets it in the end.
Fairness ==
    /\ WF_vars(oplog_init)
    /\ WF_vars(oplog_exit)
    /\ WF_vars(oplog_routine)
    /\ \A d \in Dispatcher : WF_vars(oplog_dispatch(d))

FairSpec == Spec /\ Fairness
------------------------------------------------------------------------------
\* oplog_job refuses on vector_num alone, so it must be the length of the list; the
\* test at oplog.c:186 comes before the insertion, so the queue holds one item more
\* than LOG_RECV_LIST_SIZE, and never two; and the receive path holds two blocks for
\* each queued item and one for each copy it lost (oplog.c:173), no other.
QueueExact ==
    /\ vector_num = Len(vector)
    /\ Len(vector) <= LOG_RECV_LIST_SIZE + 1
    /\ blocks = 2 * Len(vector) + leaked

\* The dispatchers together take each queued message once and in the order in
\* which oplog_job queued them.
InOrderOnce == accepted = handled \o vector

\* oplog_exit frees the structure under a running dispatcher only if it found
\* disk_run still 0 (oplog.c:655) and did not join.
DispatcherOutlivesOnlySkippedJoin == undefined = "dispatcher" => skipped

\* A line goes to the file of another day only after the clock was set back to a
\* day whose file already exists (oplog.c:232).
DayFile == misfiled => clock_back

\* While the service runs, a queued message does not stay queued: a dispatcher
\* is awake or is woken for it.
Drains ==
    \A m \in Message :
       m \in Range(vector) ~> (m \notin Range(vector) \/ main \notin {"disk", "running"})

\* Once oplog_exit has cleared disk_run, it ends if no dispatcher is between its
\* test of disk_run and the lock, and none starts late and sets disk_run again
\* (oplog.c:356).
ExitEnds ==
    main = "wake" /\ disk_run = 0
    /\ (\A d \in Dispatcher : dispatcher[d] \notin {"enter", "new", "garbage"})
       ~> (main = "done" \/ ~ Defined)
==============================================================================
