-------------------------------- MODULE U9300 --------------------------------
(***************************************************************************)
(* The 4G modem driver: the AT-command queue of module/op4g/u9300.c and the  *)
(* UART reader of module/op4g/op4g.c.  Any thread may send a short message:   *)
(* it queues the command SEND, whose answer makes the driver queue and write  *)
(* CONTENT, the text.  Answers and the two timers are handled by the one      *)
(* event-loop thread; the timer callbacks do not take the lock.              *)
(*                                                                         *)
(* A critical section of u->lock is one action, except that a sender first   *)
(* looks at the list; what it does next is a second step under the lock.      *)
(* Texts are numbers.  An answer is a sequence of pieces: "part" has no line  *)
(* end, "line" ends a line without OK, "ok" ends a line with OK.  After a     *)
(* node is linked twice, a data race on the list, or a write before the       *)
(* buffer, undefined # "no" and nothing is promised.                         *)
(***************************************************************************)
EXTENDS Integers, Sequences, Functions, Pdu

CONSTANTS
    Sender,     \* threads that call op4g_send_message
    SetupCmd,   \* commands u9300_init queues, a sequence
    MaxSend,    \* bound on the messages sent
    MaxLost,    \* bound on the answers lost or cut
    MaxUrc,     \* bound on the lines the modem sends unasked
    BufSize,    \* pieces that fit _4G_READ_BUF_SIZE
    Fault,      \* what may go wrong together: a set of subsets of FaultKind
    Center,     \* numbers the configuration may give for the message centre
    Receiver,   \* the number each message goes to
    Size,       \* and the size of its text, in bytes of UCS-2
    NULL

FaultKind == {"write", "error", "split", "spurious", "drop", "read", "urc"}

Cmd == Range(SetupCmd) \cup {"SEND", "CONTENT"}

ASSUME ModemConstants ==
    /\ SetupCmd \in Seq(Cmd) /\ SetupCmd # <<>>
    /\ {"SEND", "CONTENT", NULL} \cap Range(SetupCmd) = {} /\ NULL \notin {"SEND", "CONTENT"}
    /\ MaxSend \in Nat /\ MaxLost \in Nat /\ MaxUrc \in Nat /\ BufSize \in Nat \ {0}
    /\ Fault \subseteq SUBSET FaultKind
    /\ Size \in [1 .. MaxSend -> 0 .. _4G_MESSAGE_SIZE]
    /\ DOMAIN Receiver = 1 .. MaxSend /\ \A n \in 1 .. MaxSend : Number(Receiver[n])
    /\ Center \subseteq Seq(Char) /\ \A c \in Center : Supported(c) => Number(Tail(c))
    /\ "main" \notin Sender /\ NULL \notin Sender \cup {"main"}

Thread == Sender \cup {"main"}

VARIABLES
    list,            \* self->list
    current,         \* self->current
    short_message,   \* the text in self->short_message
    at_cmd, at_no_response, \* the timers are pending
    lock,            \* holder of self->lock between two steps, or NULL
    pc,              \* where each thread is
    timeout,         \* the event loop is inside u9300_atcmd_timeout
    buf,             \* the pieces in self->buf
    uart,            \* pieces the modem has sent
    closed,          \* op4g_job has closed the device
    sent, lost, urc, \* counters for the bounds
    promised,        \* text whose length the last SEND written announced
    mismatched, misattributed, resumed, disturbed, \* history
    fault,           \* what may go wrong in this behaviour
    center,          \* self->center_message
    undefined

queueVars   == <<list, current, short_message>>
timerVars   == <<at_cmd, at_no_response, timeout>>
threadVars  == <<lock, pc, sent>>
modemVars   == <<lost, promised, mismatched, disturbed>>
lineVars    == <<uart, modemVars>>
readVars    == <<buf, closed, urc, misattributed>>
conf        == <<fault, center>>
vars == <<queueVars, timerVars, threadVars, lineVars, readVars, resumed, conf, undefined>>

\* u9300_init has queued its commands and is about to call u9300_write_cmd.
Init ==
    /\ list = SetupCmd /\ current = NULL /\ short_message = 0
    /\ at_cmd = FALSE /\ at_no_response = FALSE /\ timeout = FALSE
    /\ lock = NULL
    /\ pc = [t \in Thread |-> IF t = "main" THEN "write" ELSE "idle"]
    /\ buf = <<>> /\ uart = <<>> /\ closed = FALSE
    /\ sent = 0 /\ lost = 0 /\ urc = 0 /\ promised = 0
    /\ mismatched = FALSE /\ misattributed = FALSE
    /\ resumed = FALSE /\ disturbed = FALSE
    /\ fault \in Fault /\ center \in Center
    /\ undefined = "no"

Defined == undefined = "no"

Undefined(why) ==
    /\ undefined' = why
    /\ UNCHANGED <<queueVars, timerVars, threadVars, lineVars, readVars, resumed, conf>>

Moves(t, where) == pc' = [pc EXCEPT ![t] = where]
------------------------------------------------------------------------------
\* The modem's answer to c, as it will be read: whole, an error, in two pieces,
\* or never.  text tells the answers for one message from those for another.
Piece(c, kind) == [cmd |-> c, text |-> short_message, kind |-> kind]

Answers(c, line) ==
    \/ uart' = Append(line, Piece(c, "ok")) /\ UNCHANGED lost
    \/ "error" \in fault /\ uart' = Append(line, Piece(c, "line")) /\ UNCHANGED lost
    \/ lost < MaxLost /\ lost' = lost + 1 /\ uart' = line

AnswersInPieces(c, line) ==
    /\ "split" \in fault /\ lost < MaxLost
    /\ \E kind \in {"part", "line"} : uart' = line \o <<Piece(c, kind), Piece(c, "ok")>>
    /\ lost' = lost + 1

\* What is in self->short_message: of no size when the centre is not supported.
Coded == message_ucs2_combi_mesage(center, Receiver[short_message], Size[short_message])

Writable(c) == c = "CONTENT" => Coded.size >= 0

\* write() of command c, with line still to be read: SEND announces the length
\* of the text, CONTENT is the text.  again: it has been written before.
Written(c, line, again) ==
    /\ ~ closed /\ Writable(c)
    /\ \/ Answers(c, line) /\ disturbed' = (disturbed \/ again)
       \/ AnswersInPieces(c, line) /\ disturbed' = TRUE
    /\ promised' = IF c = "SEND" THEN short_message ELSE promised
    /\ mismatched' = (mismatched \/ (c = "CONTENT" /\ short_message # promised))

WriteFails(c, line) ==
    /\ closed \/ "write" \in fault \/ ~ Writable(c)
    /\ uart' = line
    /\ UNCHANGED modemVars

\* pthread_cond_signal.
Signal ==
    LET waiting == {s \in Sender : pc[s] = "waiting"} IN
    IF waiting = {} THEN UNCHANGED pc
    ELSE \E s \in waiting : Moves(s, "woken")

\* event_add of the timer that repeats a command.
NeverArms == at_no_response' = FALSE

ArmsRepeat == at_no_response' = TRUE

\* list_add_tail of a command's node: linking a linked node ruins the list.
Linking(c) == undefined' = IF c \in Range(list) THEN "list" ELSE undefined
------------------------------------------------------------------------------
\* u9300_write_cmd; the timer callback may be running, without the lock.
u9300_write_cmd(t) ==
    /\ Defined /\ pc[t] = "write" /\ lock = NULL
    /\ IF timeout THEN Undefined("race") ELSE
       /\ Moves(t, "idle")
       /\ \/ list = <<>> /\ UNCHANGED <<current, at_no_response, lineVars>>
          \/ /\ list # <<>>
             /\ current' = Head(list)
             /\ \/ Written(Head(list), uart, FALSE) /\ ArmsRepeat
                \/ WriteFails(Head(list), uart) /\ UNCHANGED at_no_response
       /\ UNCHANGED <<list, short_message, at_cmd, timeout, lock, sent, readVars, resumed, conf,
                      undefined>>

\* u9300_send_message takes the lock and looks at the list.
send_lock(s) ==
    /\ Defined /\ pc[s] = "idle" /\ lock = NULL /\ sent < MaxSend
    /\ IF timeout THEN Undefined("race") ELSE
       /\ lock' = s
       /\ sent' = sent + 1
       /\ Moves(s, "locked")
       /\ UNCHANGED <<queueVars, timerVars, lineVars, readVars, resumed, conf, undefined>>

\* The list is not empty: pthread_cond_timedwait.
send_wait(s) ==
    /\ Defined /\ pc[s] = "locked" /\ list # <<>>
    /\ lock' = NULL
    /\ Moves(s, "waiting")
    /\ UNCHANGED <<queueVars, timerVars, sent, lineVars, readVars, resumed, conf, undefined>>

\* The wait times out and the message is dropped.
send_timeout(s) ==
    /\ Defined /\ pc[s] = "waiting" /\ lock = NULL
    /\ Moves(s, "idle")
    /\ UNCHANGED <<queueVars, timerVars, lock, sent, lineVars, readVars, resumed, conf, undefined>>

send_spurious(s) ==
    /\ Defined /\ "spurious" \in fault /\ pc[s] = "waiting"
    /\ Moves(s, "woken")
    /\ UNCHANGED <<queueVars, timerVars, lock, sent, lineVars, readVars, resumed, conf, undefined>>

\* The list is empty, or the thread was woken and does not look again.
GoesOnUnchecked(s) ==
    \/ pc[s] = "locked"
    \/ pc[s] = "woken" /\ lock = NULL

GoesOn(s) ==
    \/ pc[s] = "locked" /\ list = <<>>
    \/ pc[s] = "woken" /\ lock = NULL

send_fill(s) ==
    /\ Defined /\ GoesOn(s)
    /\ IF timeout THEN Undefined("race") ELSE
       /\ short_message' = short_message + 1
       /\ Linking("SEND")
       /\ list' = Append(list, "SEND")
       /\ resumed' = (resumed \/ (pc[s] = "woken" /\ list # <<>>))
       /\ lock' = NULL
       /\ Moves(s, "write")
       /\ UNCHANGED <<current, timerVars, sent, lineVars, readVars, conf>>
------------------------------------------------------------------------------
\* The event loop.

\* u9300_uart_handle, MORE: the pieces are kept for the next read.
More(pieces, line) ==
    /\ buf' = pieces
    /\ uart' = line
    /\ UNCHANGED <<queueVars, pc, modemVars, misattributed, undefined>>

\* NONE: nobody is waiting for this, or the queue stops here.
None ==
    /\ buf' = <<>>
    /\ current' = NULL
    /\ Signal

\* The answer ends the current command.  The callback of SEND queues CONTENT;
\* then the next command, if there is one, is written.
Rest == Tail(list) \o IF current = "SEND" THEN <<"CONTENT">> ELSE <<>>

StopsTimer == at_cmd' = FALSE

Completed(pieces, line) ==
    /\ StopsTimer
    /\ list' = Rest
    /\ IF current = "SEND" THEN Linking("CONTENT") ELSE UNCHANGED undefined
    /\ misattributed' =
          (misattributed \/ \A i \in DOMAIN pieces :
              pieces[i].cmd = current /\ pieces[i].text = short_message
                 => pieces[i].kind = "part")
    /\ UNCHANGED short_message
    /\ \/ /\ Rest = <<>>
          /\ None
          /\ at_no_response' = FALSE
          /\ uart' = line
          /\ UNCHANGED modemVars
       \/ /\ Rest # <<>>
          /\ Written(Head(Rest), line, FALSE)
          /\ current' = Head(Rest)
          /\ ArmsRepeat
          /\ buf' = <<>>
          /\ UNCHANGED pc
       \/ /\ Rest # <<>>
          /\ WriteFails(Head(Rest), line)
          /\ None
          /\ at_no_response' = FALSE

HasKind(pieces, kinds) == \E i \in DOMAIN pieces : pieces[i].kind \in kinds

u9300_is_at_cmd_ok(pieces) == HasKind(pieces, {"line", "ok"})

\* The callback of CONTENT wants an OK; the other commands take any line.
CallbackFails(pieces) == current = "CONTENT" /\ ~ HasKind(pieces, {"ok"})

u9300_uart_handle(pieces, line) ==
    IF list = <<>> \/ current = NULL THEN
       /\ None
       /\ uart' = line
       /\ UNCHANGED <<list, short_message, at_cmd, at_no_response, modemVars, misattributed,
                      undefined>>
    ELSE IF ~ u9300_is_at_cmd_ok(pieces) THEN
       More(pieces, line) /\ at_no_response' = FALSE /\ UNCHANGED at_cmd
    ELSE IF CallbackFails(pieces) THEN
       More(pieces, line) /\ at_no_response' = FALSE /\ at_cmd' = TRUE
    ELSE
       Completed(pieces, line)

\* op4g_job.  A full buffer is emptied before the read, which returns some of
\* what has arrived.
Kept == IF Len(buf) >= BufSize THEN <<>> ELSE buf

Space == BufSize - Len(Kept)

op4g_job ==
    /\ Defined /\ ~ timeout /\ ~ closed /\ lock = NULL
    /\ \E k \in 1 .. Space :
          /\ k <= Len(uart)
          /\ u9300_uart_handle(Kept \o SubSeq(uart, 1, k), SubSeq(uart, k + 1, Len(uart)))
    /\ UNCHANGED <<timeout, lock, sent, closed, urc, resumed, conf>>

\* read() returns 0: the device is gone.
op4g_job_drop ==
    /\ Defined /\ ~ timeout /\ ~ closed /\ "drop" \in fault
    /\ closed' = TRUE
    /\ buf' = Kept
    /\ UNCHANGED <<queueVars, timerVars, threadVars, lineVars, urc, misattributed, resumed, conf,
                   undefined>>

\* read() fails: the unsigned index is decremented, which cuts the last byte of
\* what was kept or, with nothing kept, writes far outside the buffer.
op4g_job_read_error ==
    /\ Defined /\ ~ timeout /\ ~ closed /\ lock = NULL /\ "read" \in fault
    /\ IF Kept = <<>> THEN Undefined("index") ELSE
       /\ u9300_uart_handle([Kept EXCEPT ![Len(Kept)].kind = "part"], uart)
       /\ UNCHANGED <<timeout, lock, sent, closed, urc, resumed, conf>>

\* u9300_atcmd_no_respobse: the current command is written again, once.
u9300_atcmd_no_respobse ==
    /\ Defined /\ ~ timeout /\ at_no_response
    /\ at_no_response' = FALSE
    /\ IF current = NULL \/ list = <<>> THEN UNCHANGED lineVars
       ELSE Written(current, uart, TRUE) \/ WriteFails(current, uart)
    /\ UNCHANGED <<queueVars, at_cmd, timeout, threadVars, readVars, resumed, conf, undefined>>

\* u9300_atcmd_timeout: the whole list is dropped, without the lock, and the
\* lock is released.
timeout_begin ==
    /\ Defined /\ ~ timeout /\ at_cmd
    /\ at_cmd' = FALSE
    /\ timeout' = ~ (current = NULL \/ list = <<>>)
    /\ UNCHANGED <<queueVars, at_no_response, threadVars, lineVars, readVars, resumed, conf, undefined>>

timeout_end ==
    /\ Defined /\ timeout
    /\ IF lock # NULL THEN Undefined("race") ELSE
       /\ list' = <<>>
       /\ current' = NULL
       /\ Signal
       /\ timeout' = FALSE
       /\ UNCHANGED <<short_message, at_cmd, at_no_response, lock, sent, lineVars, readVars,
                      resumed, conf, undefined>>

\* The modem reports something unasked.
Unsolicited ==
    /\ Defined /\ "urc" \in fault /\ urc < MaxUrc
    /\ urc' = urc + 1
    /\ uart' = Append(uart, Piece(NULL, "line"))
    /\ disturbed' = TRUE
    /\ UNCHANGED <<queueVars, timerVars, threadVars, lost, promised, mismatched, buf, closed,
                   misattributed, resumed, conf, undefined>>

u9300_atcmd_timeout == timeout_begin \/ timeout_end

EventLoop == op4g_job \/ u9300_atcmd_no_respobse \/ u9300_atcmd_timeout

SendMessage(s) == send_lock(s) \/ send_wait(s) \/ send_fill(s) \/ send_timeout(s)

Next ==
    \/ \E t \in Thread : u9300_write_cmd(t)
    \/ \E s \in Sender : SendMessage(s) \/ send_spurious(s)
    \/ EventLoop
    \/ op4g_job_drop
    \/ op4g_job_read_error
    \/ Unsolicited

Spec == Init /\ [][Next]_vars

\* Threads go on running, the loop reads what has arrived and runs its timers.
Fairness ==
    /\ \A t \in Thread : WF_vars(u9300_write_cmd(t))
    /\ \A s \in Sender : WF_vars(send_wait(s) \/ send_fill(s))
    /\ WF_vars(op4g_job)
    /\ WF_vars(u9300_atcmd_no_respobse)
    /\ WF_vars(u9300_atcmd_timeout)

FairSpec == Spec /\ Fairness
------------------------------------------------------------------------------
\* A receiver reads both numbers whole from what is written, for even and odd numbers of
\* digits: the filler that message_dest_phone_change always adds is cut off again when it
\* is not needed (_4g_pdu.c:37-49, 73-86).
NumbersComeBack ==
    short_message # 0 /\ Coded.ok =>
       /\ Decode(Coded.center) = Tail(center)
       /\ Decode(Coded.phone) = <<"8", "6">> \o Receiver[short_message]

\* The commands of two messages are kept apart unless a sender went on, on waking up,
\* without looking at the list again (the if at u9300.c:400): no node is linked twice, and
\* the text written is the one whose length was announced, or SEND was ended by an answer
\* to something else.
MessagesKeptApart ==
    /\ undefined = "list" => resumed
    /\ mismatched => resumed \/ misattributed

\* An answer ends the command it answers, unless answers come in pieces, a
\* command was repeated after 7 s, or the modem spoke unasked.
AnswerEndsItsCommand == misattributed => disturbed \/ resumed

\* With at most one answer lost, answers that may be errors and a supported message
\* centre, the queue empties again: the command is repeated when its timer expires.
Drains ==
    fault \subseteq {"error"} /\ Supported(center) /\ list # <<>> ~> (list = <<>> \/ ~ Defined)
==============================================================================
