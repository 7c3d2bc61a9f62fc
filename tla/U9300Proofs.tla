----------------------------- MODULE U9300Proofs -----------------------------
(***************************************************************************)
(* Theorems about the modem driver: NumbersComeBack, MessagesKeptApart and    *)
(* AnswerEndsItsCommand hold for any set-up commands, any number of senders   *)
(* and messages, any buffer size and any combination of faults.              *)
(***************************************************************************)
EXTENDS U9300, FiniteSetTheorems, TLAPS

\* The coding of a short message.
LEMMA Chars == "8" \in Char /\ "6" \in Char /\ "F" \in Char
BY DEF Char

\* Swap gives a sequence, shorter by one when the number of characters is odd.
LEMMA SwapType ==
    ASSUME NEW s \in Seq(Char)
    PROVE  /\ Swap(s) \in Seq(Char)
           /\ Len(Swap(s)) = Len(s) - (Len(s) % 2)
           /\ Len(s) - (Len(s) % 2) \in Nat
           /\ (Len(s) - (Len(s) % 2)) % 2 = 0
<1>1. Len(s) \in Nat /\ Len(s) % 2 \in {0, 1}
  OBVIOUS
<1>2. /\ Len(s) - (Len(s) % 2) \in Nat
      /\ (Len(s) - (Len(s) % 2)) % 2 = 0
  BY <1>1
<1>3. \A n \in 1 .. Len(s) - (Len(s) % 2) :
         (IF n % 2 = 1 THEN s[n + 1] ELSE s[n - 1]) \in Char
  <2>1. TAKE n \in 1 .. Len(s) - (Len(s) % 2)
  <2>2. CASE n % 2 = 1
    <3>1. n # Len(s) - (Len(s) % 2)
      BY <1>2, <2>2
    <3>2. n + 1 \in 1 .. Len(s)
      BY <1>1, <1>2, <2>1, <3>1
    <3> QED  BY <2>2, <3>2
  <2>3. CASE n % 2 # 1
    <3>1. n - 1 \in 1 .. Len(s)
      BY <1>1, <1>2, <2>1, <2>3
    <3> QED  BY <2>3, <3>1
  <2> QED  BY <2>2, <2>3
<1> QED  BY <1>2, <1>3 DEF Swap

\* Swapping twice gives back a sequence of even length.
LEMMA SwapSwap ==
    ASSUME NEW s \in Seq(Char), Len(s) % 2 = 0
    PROVE  Swap(Swap(s)) = s
<1>1. Len(s) \in Nat /\ Len(Swap(s)) = Len(s) /\ Swap(s) \in Seq(Char)
  <2>1. Len(s) \in Nat
    OBVIOUS
  <2>2. Len(s) - (Len(s) % 2) = Len(s)
    BY <2>1
  <2> QED  BY <2>1, <2>2, SwapType, Zenon
<1>2. \A n \in 1 .. Len(s) : Swap(s)[n] = IF n % 2 = 1 THEN s[n + 1] ELSE s[n - 1]
  BY <1>1 DEF Swap
<1>3. \A n \in 1 .. Len(s) : Swap(Swap(s))[n] = IF n % 2 = 1 THEN Swap(s)[n + 1] ELSE Swap(s)[n - 1]
  BY <1>1 DEF Swap
<1>4. Swap(Swap(s)) \in Seq(Char) /\ Len(Swap(Swap(s))) = Len(s)
  BY <1>1, SwapType
<1>5. ASSUME NEW n \in 1 .. Len(s)
      PROVE  Swap(Swap(s))[n] = s[n]
  <2>1. CASE n % 2 = 1
    <3>1. n + 1 \in 1 .. Len(s) /\ (n + 1) % 2 # 1 /\ (n + 1) - 1 = n
      BY <1>1, <2>1
    <3> QED  BY <1>2, <1>3, <2>1, <3>1
  <2>2. CASE n % 2 # 1
    <3>1. n - 1 \in 1 .. Len(s) /\ (n - 1) % 2 = 1 /\ (n - 1) + 1 = n
      BY <1>1, <2>2
    <3> QED  BY <1>2, <1>3, <2>2, <3>1
  <2> QED  BY <2>1, <2>2
<1> QED  BY <1>1, <1>4, <1>5, SMTT(30)

\* What is read from a number that was filled up to an even length and swapped is that
\* number (message_center_phone_change, _4g_pdu.c:37-49).
LEMMA PaddedComesBack ==
    ASSUME NEW s, Number(s)
    PROVE  Decode(Swap(Padded(s))) = s
<1> DEFINE p == Padded(s)
<1>1. s \in Seq(Char) /\ Len(s) \in Nat
  BY DEF Number
<1>2. p \in Seq(Char) /\ Len(p) % 2 = 0
  <2>1. CASE Len(s) % 2 = 0
    BY <1>1, <2>1 DEF Padded
  <2>2. CASE Len(s) % 2 # 0
    <3>1. p = Append(s, "F")
      BY <2>2 DEF Padded
    <3>2. p \in Seq(Char) /\ Len(p) = Len(s) + 1
      BY <1>1, <3>1, Chars
    <3> QED  BY <1>1, <2>2, <3>2
  <2> QED  BY <2>1, <2>2
<1>3. Swap(Swap(p)) = p
  BY <1>2, SwapSwap
<1>4. CASE Len(s) % 2 = 0
  <2>1. p = s
    BY <1>4 DEF Padded
  <2>2. ~ (s # <<>> /\ s[Len(s)] = "F")
    BY <1>1 DEF Number
  <2> QED  BY <1>3, <2>1, <2>2 DEF Decode
<1>5. CASE Len(s) % 2 # 0
  <2>1. p = Append(s, "F")
    BY <1>5 DEF Padded
  <2>2. p # <<>> /\ p[Len(p)] = "F" /\ SubSeq(p, 1, Len(p) - 1) = s
    BY <1>1, <2>1
  <2> QED  BY <1>3, <2>2 DEF Decode
<1> QED  BY <1>4, <1>5

\* With a filler that is always appended the same is read: of an even number the swap
\* drops it again (message_dest_phone_change, _4g_pdu.c:76-86).
LEMMA FilledComesBack ==
    ASSUME NEW s, Number(s)
    PROVE  Decode(Swap(Append(s, "F"))) = s
<1>1. s \in Seq(Char) /\ Len(s) \in Nat /\ Append(s, "F") \in Seq(Char)
  BY Chars DEF Number
<1>2. CASE Len(s) % 2 # 0
  <2>1. Append(s, "F") = Padded(s)
    BY <1>2 DEF Padded
  <2> QED  BY <2>1, PaddedComesBack, Zenon
<1>3. CASE Len(s) % 2 = 0
  <2> DEFINE f == Append(s, "F")
  <2>1. Len(f) = Len(s) + 1 /\ Len(f) % 2 = 1
    BY <1>1, <1>3
  <2>2. \A n \in 1 .. Len(s) : f[n] = s[n]
    BY <1>1
  <2>3. Len(f) - (Len(f) % 2) = Len(s) /\ Len(s) - (Len(s) % 2) = Len(s)
    BY <1>1, <1>3, <2>1
  <2>4. ASSUME NEW n \in 1 .. Len(s)
        PROVE  (IF n % 2 = 1 THEN f[n + 1] ELSE f[n - 1]) = (IF n % 2 = 1 THEN s[n + 1] ELSE s[n - 1])
    <3>1. CASE n % 2 = 1
      <4>1. n + 1 \in 1 .. Len(s)
        BY <1>1, <1>3, <3>1
      <4> QED  BY <2>2, <3>1, <4>1
    <3>2. CASE n % 2 # 1
      <4>1. n - 1 \in 1 .. Len(s)
        BY <1>1, <1>3, <3>2
      <4> QED  BY <2>2, <3>2, <4>1
    <3> QED  BY <3>1, <3>2
  <2>5. Swap(f) = Swap(s)
    BY <2>3, <2>4, Zenon DEF Swap
  <2>6. Padded(s) = s
    BY <1>3 DEF Padded
  <2> QED  BY <2>5, <2>6, PaddedComesBack
<1> QED  BY <1>2, <1>3

\* For every supported message centre, receiver and text a receiver reads both numbers
\* whole from what message_ucs2_combi_mesage writes.
THEOREM NumbersReadBack ==
    ASSUME NEW c \in Seq(Char), Number(Tail(c)), Supported(c),
           NEW p, Number(p), NEW b \in Int
    PROVE  LET m == message_ucs2_combi_mesage(c, p, b) IN
           /\ m.ok
           /\ Decode(m.center) = Tail(c)
           /\ Decode(m.phone) = <<"8", "6">> \o p
<1>1. Number(<<"8", "6">> \o p)
  <2>1. p \in Seq(Char)
    BY DEF Number
  <2>2. <<"8", "6">> \in Seq(Char) /\ Len(<<"8", "6">>) = 2
    BY Chars
  <2>3. <<"8", "6">> \o p \in Seq(Char) /\ Len(<<"8", "6">> \o p) = 2 + Len(p)
    BY <2>1, <2>2
  <2>4. ASSUME NEW n \in 1 .. 2 + Len(p)
        PROVE  (<<"8", "6">> \o p)[n] # "F"
    <3>1. CASE n \in 1 .. 2
      BY <2>1, <2>2, <3>1
    <3>2. CASE n \notin 1 .. 2
      <4>1. n - 2 \in 1 .. Len(p)
        BY <2>1, <3>2
      <4>2. (<<"8", "6">> \o p)[n] = p[n - 2]
        BY <2>1, <2>2, <3>2
      <4> QED  BY <4>1, <4>2 DEF Number
    <3> QED  BY <3>1, <3>2
  <2> QED  BY <2>3, <2>4 DEF Number
<1>2. Decode(Swap(Padded(Tail(c)))) = Tail(c)
  BY PaddedComesBack, Zenon
<1>3. Decode(Swap(Append(<<"8", "6">> \o p, "F"))) = <<"8", "6">> \o p
  BY <1>1, FilledComesBack, Zenon
<1> QED
  BY <1>2, <1>3 DEF message_ucs2_combi_mesage, message_center_phone_change, message_dest_phone_change

\* A text of less than 256 bytes is sent whole, and a longer one loses a multiple of 256
\* bytes, never part of a character (the unsigned char of _4g_pdu.c:98, 115-121).
THEOREM TextWholeOrCut ==
    ASSUME NEW b \in Nat
    PROVE  LET kept == (message_ucs2_change(b) - 2) \div 2 IN
           /\ kept \in 0 .. 255
           /\ b < 256 => kept = b
           /\ (b - kept) % 256 = 0
<1>1. message_ucs2_change(b) = 2 + 2 * (b % 256)
  BY DEF message_ucs2_change, Announced, Bad
<1>2. b % 256 \in 0 .. 255 /\ (b < 256 => b % 256 = b) /\ (b - (b % 256)) % 256 = 0
  OBVIOUS
<1>3. (message_ucs2_change(b) - 2) \div 2 = b % 256
  BY <1>1, <1>2
<1> QED  BY <1>2, <1>3
------------------------------------------------------------------------------

\* A piece of an answer.
Answer == [cmd : Cmd \cup {NULL}, text : Nat, kind : {"part", "line", "ok"}]

TypeOK ==
    /\ list \in Seq(Cmd) /\ current \in Cmd \cup {NULL}
    /\ short_message \in Nat /\ promised \in Nat /\ sent \in Nat
    /\ pc \in [Thread -> {"idle", "write", "locked", "waiting", "woken"}]
    /\ buf \in Seq(Answer) /\ uart \in Seq(Answer)
    /\ center \in Center

\* Every sender between u9300_send_message and its text has been counted.
Pending == {s \in Sender : pc[s] \in {"locked", "waiting", "woken"}}

Counted ==
    /\ IsFiniteSet(Pending)
    /\ short_message + Cardinality(Pending) <= sent
    /\ sent <= MaxSend

\* The current command is the first of the list, and there is one while the list is dropped.
HeadIsCurrent ==
    /\ current # NULL => list # <<>> /\ current = list[1]
    /\ timeout => current # NULL

\* An answer is of the text there is or of an earlier one; when it is of this one and of
\* SEND, the length of this one was announced.
OfText(p, m, announced) ==
    p.text <= m /\ (p.cmd = "SEND" /\ p.text = m => announced = m)

AllOfText(s, m, announced) == \A i \in DOMAIN s : OfText(s[i], m, announced)

\* Unless a sender went on without looking: the commands of a message are alone in the
\* list, their text is the one announced, and one thread at most is about to write.
Alone(l) == Len(l) <= 1 \/ \A i \in DOMAIN l : l[i] \notin {"SEND", "CONTENT"}

Holds(l, c) == \E i \in DOMAIN l : l[i] = c

OneWriter ==
    \A t \in Thread : pc[t] = "write" =>
       /\ current = NULL /\ list # <<>> /\ list[1] # "CONTENT"
       /\ \A u \in Thread : pc[u] = "write" => u = t

InOrder ==
    /\ Alone(list)
    /\ ~ misattributed /\ Holds(list, "CONTENT") => promised = short_message
    /\ OneWriter

\* Unless, besides, the line was disturbed: at most one answer is on its way, to the
\* current command.  What may be left in the buffer is one answer to an earlier CONTENT.
Calm ==
    /\ ~ misattributed
    /\ Len(uart) <= 1 /\ Len(buf) <= 1
    /\ uart # <<>> =>
         /\ current # NULL /\ uart[1].cmd = current /\ uart[1].text = short_message
         /\ uart[1].kind # "part"
         /\ current = "CONTENT" => buf = <<>>
    /\ at_cmd => current # NULL /\ uart = <<>>
    /\ timeout => ~ at_cmd /\ uart = <<>>

Queue ==
    /\ HeadIsCurrent
    /\ AllOfText(buf, short_message, promised) /\ AllOfText(uart, short_message, promised)
    /\ MessagesKeptApart
    /\ ~ resumed => InOrder
    /\ ~ resumed /\ ~ disturbed => Calm

IInv == TypeOK /\ Counted /\ Queue
------------------------------------------------------------------------------
\* The commands, and the places of a sender.
LEMMA Commands ==
    /\ "SEND" \in Cmd /\ "CONTENT" \in Cmd /\ NULL \notin Cmd
    /\ SetupCmd \in Seq(Cmd) /\ SetupCmd # <<>>
    /\ \A i \in DOMAIN SetupCmd : SetupCmd[i] \notin {"SEND", "CONTENT"}
    /\ "main" \in Thread /\ Sender \subseteq Thread /\ "main" \notin Sender
<1>1. \A i \in DOMAIN SetupCmd : SetupCmd[i] \in Range(SetupCmd)
  BY DEF Range
<1>2. QED
  BY <1>1, ModemConstants DEF Cmd, Thread

\* An answer of the modem is one piece or two, of the command and the text written.
LEMMA PieceType ==
    ASSUME TypeOK, NEW c \in Cmd \cup {NULL}, NEW kind \in {"part", "line", "ok"}
    PROVE  /\ Piece(c, kind) \in Answer
           /\ Piece(c, kind).cmd = c /\ Piece(c, kind).text = short_message
           /\ Piece(c, kind).kind = kind
BY DEF TypeOK, Piece, Answer

\* What a write, or its failure, does to the line: the promises the other steps need.
LEMMA Wrote ==
    ASSUME TypeOK, NEW c \in Cmd, NEW line \in Seq(Answer), NEW again \in BOOLEAN,
           Written(c, line, again) \/ WriteFails(c, line)
    PROVE  /\ uart' \in Seq(Answer)
           /\ promised' \in {promised, short_message}
           /\ AllOfText(line, short_message, promised)
                 => AllOfText(uart', short_message, promised')
           /\ mismatched' => mismatched \/ (c = "CONTENT" /\ short_message # promised)
           /\ disturbed => disturbed'
           /\ again /\ ~ disturbed' => uart' = line
           /\ line = <<>> /\ ~ disturbed' =>
                /\ Len(uart') <= 1
                /\ uart' # <<>> => /\ uart'[1].cmd = c /\ uart'[1].text = short_message
                                   /\ uart'[1].kind # "part"
<1> DEFINE OK == Piece(c, "ok")
           LINE == Piece(c, "line")
           PART == Piece(c, "part")
<1>0. /\ {OK, LINE, PART} \subseteq Answer
      /\ \A p \in {OK, LINE, PART} : p.cmd = c /\ p.text = short_message
      /\ OK.kind = "ok" /\ LINE.kind = "line"
  BY PieceType
<1>1. CASE WriteFails(c, line)
  BY <1>1 DEF WriteFails, modemVars, AllOfText, OfText
<1>2. CASE Written(c, line, again)
  <2>1. /\ promised' = IF c = "SEND" THEN short_message ELSE promised
        /\ mismatched' = (mismatched \/ (c = "CONTENT" /\ short_message # promised))
    BY <1>2 DEF Written
  <2>2. PICK new \in Seq({OK, LINE, PART}) :
           /\ uart' = line \o new
           /\ disturbed => disturbed'
           /\ ~ disturbed' => ~ again /\ new \in {<<>>, <<OK>>, <<LINE>>}
    <3>1. CASE Answers(c, line) /\ disturbed' = (disturbed \/ again)
      <4>1. CASE uart' = Append(line, OK)
        <5>1. <<OK>> \in Seq({OK, LINE, PART}) /\ uart' = line \o <<OK>>
          BY <4>1, <1>0
        <5>2. QED
          BY <3>1, <5>1, Zenon
      <4>2. CASE uart' = Append(line, LINE)
        <5>1. <<LINE>> \in Seq({OK, LINE, PART}) /\ uart' = line \o <<LINE>>
          BY <4>2, <1>0
        <5>2. QED
          BY <3>1, <5>1, Zenon
      <4>3. CASE uart' = line
        <5>1. <<>> \in Seq({OK, LINE, PART}) /\ uart' = line \o <<>>
          BY <4>3
        <5>2. QED
          BY <3>1, <5>1, Zenon
      <4>4. QED
        BY <3>1, <4>1, <4>2, <4>3, Zenon DEF Answers
    <3>2. CASE AnswersInPieces(c, line) /\ disturbed' = TRUE
      <4>1. PICK kind \in {"part", "line"} : uart' = line \o <<Piece(c, kind), OK>>
        BY <3>2, Zenon DEF AnswersInPieces
      <4>2. <<Piece(c, kind), OK>> \in Seq({OK, LINE, PART})
        <5>1. Piece(c, kind) \in {LINE, PART}
          BY <4>1
        <5> HIDE DEF OK, LINE, PART
        <5>2. QED
          BY <5>1
      <4>3. QED
        BY <3>2, <4>1, <4>2, Zenon
    <3>3. QED
      BY <1>2, <3>1, <3>2, Zenon DEF Written
  <2> HIDE DEF OK, LINE, PART
  <2>3. new \in Seq(Answer) /\ \A i \in DOMAIN new : new[i].cmd = c /\ new[i].text = short_message
    BY <1>0
  <2>4. uart' \in Seq(Answer)
    BY <2>2, <2>3
  <2>5. AllOfText(line, short_message, promised) => AllOfText(uart', short_message, promised')
    <3> SUFFICES ASSUME AllOfText(line, short_message, promised), NEW i \in DOMAIN uart'
                 PROVE  OfText(uart'[i], short_message, promised')
      BY DEF AllOfText
    <3>1. short_message \in Nat
      BY DEF TypeOK
    <3>2. CASE i \in DOMAIN line
      <4>1. uart'[i] = line[i] /\ OfText(line[i], short_message, promised)
        BY <2>2, <2>3, <3>2 DEF AllOfText
      <4>2. QED
        BY <2>1, <4>1 DEF OfText
    <3>3. CASE i \notin DOMAIN line
      <4>1. i - Len(line) \in DOMAIN new /\ uart'[i] = new[i - Len(line)]
        BY <2>2, <2>3, <3>3
      <4>2. QED
        BY <2>1, <2>3, <3>1, <4>1 DEF OfText
    <3>4. QED
      BY <3>2, <3>3
  <2>6. line = <<>> /\ ~ disturbed' =>
                /\ Len(uart') <= 1
                /\ uart' # <<>> => /\ uart'[1].cmd = c /\ uart'[1].text = short_message
                                   /\ uart'[1].kind # "part"
    <3> SUFFICES ASSUME line = <<>>, ~ disturbed'
                 PROVE  /\ Len(uart') <= 1
                        /\ uart' # <<>> => /\ uart'[1].cmd = c /\ uart'[1].text = short_message
                                           /\ uart'[1].kind # "part"
      OBVIOUS
    <3>1. uart' \in {<<>>, <<OK>>, <<LINE>>}
      BY <2>2
    <3>2. ASSUME NEW p, uart' = <<p>> PROVE Len(uart') <= 1 /\ uart'[1] = p
      BY <3>2
    <3>3. CASE uart' = <<>>
      BY <3>3
    <3>4. QED
      BY <1>0, <3>1, <3>2, <3>3
  <2>7. QED
    BY <2>1, <2>2, <2>4, <2>5, <2>6, Zenon
<1>3. QED
  BY <1>1, <1>2

\* pthread_cond_signal moves a waiting sender on, which stays counted and writes nothing.
LEMMA Signals ==
    ASSUME TypeOK, Signal
    PROVE  /\ pc' \in [Thread -> {"idle", "write", "locked", "waiting", "woken"}]
           /\ Pending' = Pending
           /\ \A t \in Thread : pc'[t] = "write" <=> pc[t] = "write"
<1>1. CASE UNCHANGED pc
  BY <1>1 DEF TypeOK, Pending
<1>2. ASSUME NEW s \in Sender, pc[s] = "waiting", Moves(s, "woken")
      PROVE  /\ pc' \in [Thread -> {"idle", "write", "locked", "waiting", "woken"}]
             /\ Pending' = Pending
             /\ \A t \in Thread : pc'[t] = "write" <=> pc[t] = "write"
  <2>1. s \in Thread /\ pc' = [pc EXCEPT ![s] = "woken"] /\ Sender \subseteq Thread
    BY <1>2, Commands DEF Moves
  <2>2. QED
    BY <1>2, <2>1 DEF TypeOK, Pending
<1>3. QED
  BY <1>1, <1>2 DEF Signal

\* What is left of the list when u9300_uart_handle ends a command is a list of commands.
LEMMA RestType ==
    ASSUME TypeOK, list # <<>>
    PROVE  Rest \in Seq(Cmd)
BY Commands DEF TypeOK, Rest

\* u9300_uart_handle leaves the commands, the buffer and the line well-formed.
LEMMA HandleType ==
    ASSUME TypeOK, NEW pieces \in Seq(Answer), NEW line \in Seq(Answer),
           u9300_uart_handle(pieces, line), UNCHANGED <<sent, center>>
    PROVE  TypeOK'
<1>1. CASE list = <<>> \/ current = NULL
  <2>1. /\ buf' = <<>> /\ current' = NULL /\ Signal /\ uart' = line
        /\ UNCHANGED <<list, short_message, promised>>
    BY <1>1 DEF u9300_uart_handle, None, modemVars
  <2>2. QED
    BY <2>1, Signals DEF TypeOK
<1>2. CASE ~ (list = <<>> \/ current = NULL) /\ More(pieces, line)
  BY <1>2 DEF TypeOK, More, queueVars, modemVars
<1>3. CASE ~ (list = <<>> \/ current = NULL) /\ Completed(pieces, line)
  <2>1. Rest \in Seq(Cmd) /\ list' = Rest /\ UNCHANGED short_message
    BY <1>3, RestType DEF Completed
  <2>2. CASE Rest = <<>> /\ None /\ uart' = line /\ UNCHANGED modemVars
    BY <2>1, <2>2, Signals DEF TypeOK, None, modemVars
  <2>3. CASE /\ Rest # <<>> /\ Written(Head(Rest), line, FALSE) /\ current' = Head(Rest)
             /\ buf' = <<>> /\ UNCHANGED pc
    <3>1. Head(Rest) \in Cmd
      BY <2>1, <2>3
    <3>2. uart' \in Seq(Answer) /\ promised' \in {promised, short_message}
      BY <2>3, <3>1, Wrote, Zenon
    <3>3. QED
      BY <2>1, <2>3, <3>1, <3>2 DEF TypeOK
  <2>4. CASE Rest # <<>> /\ WriteFails(Head(Rest), line) /\ None
    BY <2>1, <2>4, Signals DEF TypeOK, None, WriteFails, modemVars
  <2>5. QED
    BY <1>3, <2>2, <2>3, <2>4, Zenon DEF Completed
<1>4. QED
  BY <1>1, <1>2, <1>3 DEF u9300_uart_handle

\* What the reader hands over.
LEMMA ReadType ==
    ASSUME TypeOK
    PROVE  /\ Kept \in Seq(Answer) /\ Kept \in {<<>>, buf}
           /\ \A k \in 0 .. Len(uart) : /\ SubSeq(uart, 1, k) \in Seq(Answer)
                                        /\ SubSeq(uart, k + 1, Len(uart)) \in Seq(Answer)
                                        /\ Kept \o SubSeq(uart, 1, k) \in Seq(Answer)
           /\ Kept # <<>> => [Kept EXCEPT ![Len(Kept)].kind = "part"] \in Seq(Answer)
<1>1. Kept \in Seq(Answer) /\ Kept \in {<<>>, buf}
  BY DEF TypeOK, Kept
<1>2. ASSUME NEW k \in 0 .. Len(uart)
      PROVE  /\ SubSeq(uart, 1, k) \in Seq(Answer)
             /\ SubSeq(uart, k + 1, Len(uart)) \in Seq(Answer)
  BY DEF TypeOK
<1>3. Kept # <<>> => [Kept EXCEPT ![Len(Kept)].kind = "part"] \in Seq(Answer)
  <2> SUFFICES ASSUME Kept # <<>>
               PROVE  [Kept EXCEPT ![Len(Kept)].kind = "part"] \in Seq(Answer)
    OBVIOUS
  <2>1. Len(Kept) \in 1 .. Len(Kept) /\ Kept[Len(Kept)] \in Answer
    BY <1>1
  <2>2. [Kept[Len(Kept)] EXCEPT !.kind = "part"] \in Answer
    BY <2>1 DEF Answer
  <2>3. QED
    BY <1>1, <2>1, <2>2
<1>4. QED
  BY <1>1, <1>2, <1>3

\* Types: at the start and after every step of a thread, the loop or the modem.
LEMMA InitType == Init => TypeOK
BY Commands DEF Init, TypeOK

LEMMA NextType == TypeOK /\ [Next]_vars => TypeOK'
<1> SUFFICES ASSUME TypeOK, [Next]_vars PROVE TypeOK'
  OBVIOUS
<1> USE DEF queueVars, timerVars, threadVars, lineVars, modemVars, readVars, conf
<1>1. ASSUME NEW why, Undefined(why) PROVE TypeOK'
  BY <1>1 DEF Undefined, TypeOK
<1>2. ASSUME NEW t \in Thread, u9300_write_cmd(t) PROVE TypeOK'
  <2>1. CASE timeout
    BY <1>1, <1>2, <2>1 DEF u9300_write_cmd
  <2>2. CASE ~ timeout
    <3>1. /\ Moves(t, "idle") /\ UNCHANGED <<list, short_message, sent, buf, center>>
      BY <1>2, <2>2 DEF u9300_write_cmd
    <3>2. pc' \in [Thread -> {"idle", "write", "locked", "waiting", "woken"}]
      BY <3>1 DEF TypeOK, Moves
    <3>3. CASE list = <<>> /\ UNCHANGED <<current, lineVars>>
      BY <3>1, <3>2, <3>3 DEF TypeOK
    <3>4. CASE /\ list # <<>> /\ current' = Head(list)
               /\ Written(Head(list), uart, FALSE) \/ WriteFails(Head(list), uart)
      <4>1. Head(list) \in Cmd
        BY <3>4 DEF TypeOK
      <4>2. uart' \in Seq(Answer) /\ promised' \in {promised, short_message}
        BY <3>4, <4>1, Wrote, Zenon DEF TypeOK
      <4>3. QED
        BY <3>1, <3>2, <3>4, <4>1, <4>2 DEF TypeOK
    <3>5. QED
      BY <1>2, <2>2, <3>3, <3>4, Zenon DEF u9300_write_cmd
  <2>3. QED
    BY <2>1, <2>2
<1>3. ASSUME NEW s \in Sender, SendMessage(s) \/ send_spurious(s) PROVE TypeOK'
  <2> s \in Thread
    BY Commands
  <2>1. CASE send_lock(s)
    BY <1>1, <2>1 DEF send_lock, TypeOK, Moves
  <2>2. CASE send_wait(s)
    BY <2>2 DEF send_wait, TypeOK, Moves
  <2>3. CASE send_fill(s)
    <3>1. CASE timeout
      BY <1>1, <2>3, <3>1, ZenonT(60) DEF send_fill
    <3>2. CASE ~ timeout
      <4>1. /\ short_message' = short_message + 1 /\ list' = Append(list, "SEND")
            /\ Moves(s, "write") /\ UNCHANGED <<current, sent, lineVars, readVars, conf>>
        BY <2>3, <3>2 DEF send_fill
      <4>2. short_message' \in Nat /\ list' \in Seq(Cmd)
        BY <4>1, Commands DEF TypeOK
      <4>3. QED
        BY <4>1, <4>2 DEF TypeOK, Moves
    <3>3. QED
      BY <3>1, <3>2
  <2>4. CASE send_timeout(s)
    BY <2>4 DEF send_timeout, TypeOK, Moves
  <2>5. CASE send_spurious(s)
    BY <2>5 DEF send_spurious, TypeOK, Moves
  <2>6. QED
    BY <1>3, <2>1, <2>2, <2>3, <2>4, <2>5 DEF SendMessage
<1>4. CASE op4g_job
  <2>1. PICK k \in 1 .. Space :
          /\ k <= Len(uart)
          /\ u9300_uart_handle(Kept \o SubSeq(uart, 1, k), SubSeq(uart, k + 1, Len(uart)))
    BY <1>4 DEF op4g_job
  <2>2. k \in 0 .. Len(uart)
    BY <2>1, ReadType, ModemConstants DEF Space, TypeOK
  <2>3. UNCHANGED <<sent, center>>
    BY <1>4 DEF op4g_job
  <2>4. QED
    BY <2>1, <2>2, <2>3, ReadType, HandleType, Zenon
<1>5. CASE op4g_job_drop
  BY <1>5, ReadType DEF op4g_job_drop, TypeOK
<1>6. CASE op4g_job_read_error
  <2>1. CASE Kept = <<>>
    BY <1>1, <1>6, <2>1 DEF op4g_job_read_error
  <2>2. CASE Kept # <<>>
    <3>1. /\ u9300_uart_handle([Kept EXCEPT ![Len(Kept)].kind = "part"], uart)
          /\ UNCHANGED <<sent, center>>
      BY <1>6, <2>2 DEF op4g_job_read_error
    <3>2. uart \in Seq(Answer)
      BY DEF TypeOK
    <3>3. QED
      BY <2>2, <3>1, <3>2, ReadType, HandleType, Zenon
  <2>3. QED
    BY <2>1, <2>2
<1>7. CASE u9300_atcmd_no_respobse
  <2>1. UNCHANGED <<queueVars, threadVars, readVars, conf>>
    BY <1>7 DEF u9300_atcmd_no_respobse
  <2>2. CASE UNCHANGED lineVars
    BY <2>1, <2>2 DEF TypeOK
  <2>3. CASE /\ current # NULL
             /\ Written(current, uart, TRUE) \/ WriteFails(current, uart)
    <3>1. current \in Cmd /\ uart \in Seq(Answer)
      BY <2>3 DEF TypeOK
    <3>2. uart' \in Seq(Answer) /\ promised' \in {promised, short_message}
      BY <2>3, <3>1, Wrote, Zenon
    <3>3. QED
      BY <2>1, <3>2 DEF TypeOK
  <2>4. QED
    BY <1>7, <2>2, <2>3, Zenon DEF u9300_atcmd_no_respobse
<1>8. CASE timeout_begin
  BY <1>8 DEF timeout_begin, TypeOK
<1>9. CASE timeout_end
  <2>1. CASE lock # NULL
    BY <1>1, <1>9, <2>1, Zenon DEF timeout_end
  <2>2. CASE lock = NULL
    BY <1>9, <2>2, Signals DEF timeout_end, TypeOK
  <2>3. QED
    BY <2>1, <2>2
<1>10. CASE Unsolicited
  <2>1. Piece(NULL, "line") \in Answer
    BY PieceType
  <2>2. QED
    BY <1>10, <2>1 DEF Unsolicited, TypeOK
<1>11. CASE UNCHANGED vars
  BY <1>11 DEF vars, TypeOK
<1>12. QED
  BY <1>2, <1>3, <1>4, <1>5, <1>6, <1>7, <1>8, <1>9, <1>10, <1>11, ZenonT(60)
     DEF Next, EventLoop, u9300_atcmd_timeout
------------------------------------------------------------------------------
\* Every text in self->short_message was counted when its sender took the lock, so the
\* texts are numbered 1 .. MaxSend.
LEMMA InitCounted == Init => Counted
<1> SUFFICES ASSUME Init PROVE Counted
  OBVIOUS
<1>1. Pending = {}
  BY Commands DEF Init, Pending
<1>2. QED
  BY <1>1, FS_EmptySet, ModemConstants DEF Init, Counted

\* A step that keeps the senders pending and counts as before.
LEMMA SameCount ==
    ASSUME Counted, Pending' = Pending, UNCHANGED <<short_message, sent>>
    PROVE  Counted'
BY DEF Counted

\* A step by which a sender leaves; its text may be new.
LEMMA SenderLeaves ==
    ASSUME TypeOK, Counted, NEW s \in Pending, NEW where \in {"idle", "write"},
           Moves(s, where), UNCHANGED sent, short_message' \in {short_message, short_message + 1}
    PROVE  Counted'
<1>1. s \in Sender /\ s \in Thread /\ Sender \subseteq Thread
  BY Commands DEF Pending
<1>2. Pending' = Pending \ {s}
  BY <1>1 DEF Pending, Moves, TypeOK
<1>3. IsFiniteSet(Pending') /\ Cardinality(Pending') = Cardinality(Pending) - 1
  BY <1>2, FS_RemoveElement DEF Counted
<1>4. Cardinality(Pending) \in Nat
  BY FS_CardinalityType DEF Counted
<1>5. QED
  BY <1>3, <1>4 DEF Counted, TypeOK

\* The handler takes no message and lets no sender go.
LEMMA HandleCounted ==
    ASSUME TypeOK, NEW pieces, NEW line, u9300_uart_handle(pieces, line)
    PROVE  Pending' = Pending /\ UNCHANGED short_message
<1>1. UNCHANGED short_message
  BY Zenon DEF u9300_uart_handle, More, Completed, queueVars
<1>2. Signal \/ UNCHANGED pc
  BY Zenon DEF u9300_uart_handle, More, Completed, None
<1>3. QED
  BY <1>1, <1>2, Signals DEF Pending

\* Taking the lock counts a message; filling it in or giving up takes its sender away.
LEMMA NextCounted == TypeOK /\ Counted /\ [Next]_vars => Counted'
<1> SUFFICES ASSUME TypeOK, Counted, [Next]_vars PROVE Counted'
  OBVIOUS
<1> USE DEF queueVars, timerVars, threadVars, lineVars, modemVars, readVars, conf
<1>0. ASSUME UNCHANGED <<pc, short_message, sent>> PROVE Counted'
  <2>1. Pending' = Pending
    BY <1>0 DEF Pending
  <2>2. QED
    BY <1>0, <2>1, SameCount
<1>1. ASSUME NEW why, Undefined(why) PROVE Counted'
  BY <1>0, <1>1 DEF Undefined
<1>2. ASSUME NEW t \in Thread, u9300_write_cmd(t) PROVE Counted'
  <2>1. CASE timeout
    BY <1>1, <1>2, <2>1 DEF u9300_write_cmd
  <2>2. CASE ~ timeout
    <3>1. pc[t] = "write" /\ Moves(t, "idle") /\ UNCHANGED <<short_message, sent>>
      BY <1>2, <2>2 DEF u9300_write_cmd
    <3>2. Pending' = Pending
      BY <3>1, Commands DEF Pending, Moves, TypeOK
    <3>3. QED
      BY <3>1, <3>2, SameCount
  <2>3. QED
    BY <2>1, <2>2
<1>3. ASSUME NEW s \in Sender, SendMessage(s) \/ send_spurious(s) PROVE Counted'
  <2>0. s \in Thread /\ Sender \subseteq Thread
    BY Commands
  <2>1. CASE send_lock(s)
    <3>1. CASE timeout
      BY <1>1, <2>1, <3>1, Zenon DEF send_lock
    <3>2. CASE ~ timeout
      <4>1. /\ pc[s] = "idle" /\ sent < MaxSend /\ sent' = sent + 1 /\ Moves(s, "locked")
            /\ UNCHANGED short_message
        BY <2>1, <3>2 DEF send_lock
      <4>2. Pending' = Pending \cup {s} /\ s \notin Pending
        BY <2>0, <4>1 DEF Pending, Moves, TypeOK
      <4>3. IsFiniteSet(Pending') /\ Cardinality(Pending') = Cardinality(Pending) + 1
        BY <4>2, FS_AddElement DEF Counted
      <4>4. Cardinality(Pending) \in Nat
        BY FS_CardinalityType DEF Counted
      <4>5. QED
        BY <4>1, <4>3, <4>4, ModemConstants DEF Counted, TypeOK
    <3>3. QED
      BY <3>1, <3>2
  <2>2. CASE send_wait(s) \/ send_spurious(s)
    <3>1. /\ s \in Pending /\ UNCHANGED <<short_message, sent>>
          /\ Moves(s, "waiting") \/ Moves(s, "woken")
      BY <2>2 DEF send_wait, send_spurious, Pending
    <3>2. Pending' = Pending
      BY <2>0, <3>1 DEF Pending, Moves, TypeOK
    <3>3. QED
      BY <3>1, <3>2, SameCount, Zenon
  <2>3. CASE send_fill(s)
    <3>1. s \in Pending
      BY <2>3 DEF send_fill, GoesOn, Pending
    <3>2. CASE timeout
      BY <1>1, <2>3, <3>2 DEF send_fill
    <3>3. CASE ~ timeout
      BY <2>3, <3>1, <3>3, SenderLeaves DEF send_fill
    <3>4. QED
      BY <3>2, <3>3
  <2>4. CASE send_timeout(s)
    BY <2>4, SenderLeaves DEF send_timeout, Pending
  <2>5. QED
    BY <1>3, <2>1, <2>2, <2>3, <2>4 DEF SendMessage
<1>4. CASE op4g_job \/ op4g_job_read_error
  <2>1. CASE op4g_job_read_error /\ Kept = <<>>
    BY <1>1, <2>1 DEF op4g_job_read_error
  <2>2. CASE ~ (op4g_job_read_error /\ Kept = <<>>)
    <3>1. UNCHANGED sent /\ \E pieces, line : u9300_uart_handle(pieces, line)
      BY <1>4, <2>2, Zenon DEF op4g_job, op4g_job_read_error
    <3>2. QED
      BY <3>1, HandleCounted, SameCount
  <2>3. QED
    BY <2>1, <2>2
<1>5. CASE op4g_job_drop \/ u9300_atcmd_no_respobse \/ timeout_begin \/ Unsolicited
  BY <1>0, <1>5, Zenon DEF op4g_job_drop, u9300_atcmd_no_respobse, timeout_begin, Unsolicited
<1>6. CASE timeout_end
  BY <1>1, <1>6, Signals, SameCount, Zenon DEF timeout_end
<1>7. CASE UNCHANGED vars
  BY <1>0, <1>7, Zenon DEF vars
<1>8. QED
  BY <1>2, <1>3, <1>4, <1>5, <1>6, <1>7 DEF Next, EventLoop, u9300_atcmd_timeout
------------------------------------------------------------------------------
\* The queue.  First the steps that leave it alone.
LEMMA SameQueue ==
    ASSUME TypeOK, Queue,
           UNCHANGED <<list, current, short_message, promised, uart>>,
           UNCHANGED <<mismatched, misattributed, resumed, disturbed>>,
           undefined' \in {undefined, "race", "index"}, buf' \in {<<>>, buf},
           at_cmd' => at_cmd,
           timeout' => timeout \/ (at_cmd /\ ~ at_cmd' /\ current # NULL),
           \A t \in Thread : pc'[t] = "write" => pc[t] = "write"
    PROVE  Queue'
<1>1. HeadIsCurrent'
  BY Zenon DEF Queue, HeadIsCurrent
<1>2. AllOfText(buf, short_message, promised)' /\ AllOfText(uart, short_message, promised)'
  BY DEF Queue, AllOfText, OfText
<1>3. MessagesKeptApart'
  BY Zenon DEF Queue, MessagesKeptApart
<1>4. ~ resumed' => InOrder'
  BY Zenon DEF Queue, InOrder, Alone, Holds, OneWriter
<1>5. ~ resumed' /\ ~ disturbed' => Calm'
  BY DEF Queue, Calm, TypeOK
<1>6. QED
  BY <1>1, <1>2, <1>3, <1>4, <1>5, Zenon DEF Queue

\* A text is announced or not, an answer stays of it.
LEMMA StaysOfText ==
    ASSUME NEW s, NEW m, NEW a, NEW b \in {a, m}, AllOfText(s, m, a)
    PROVE  AllOfText(s, m, b)
BY Zenon DEF AllOfText, OfText

\* u9300_write_cmd finds no answer on the line.
LEMMA WriteQueue ==
    ASSUME TypeOK, Queue, NEW t \in Thread, pc[t] = "write", Moves(t, "idle"), ~ timeout,
           list # <<>>, current' = Head(list),
           Written(Head(list), uart, FALSE) \/ WriteFails(Head(list), uart),
           UNCHANGED <<list, short_message, at_cmd, timeout, buf, misattributed, resumed, undefined>>
    PROVE  Queue'
<1>0. Head(list) \in Cmd /\ Head(list) = list[1] /\ uart \in Seq(Answer)
  BY DEF TypeOK
<1>1. /\ uart' \in Seq(Answer)
      /\ promised' \in {promised, short_message}
      /\ AllOfText(uart, short_message, promised) => AllOfText(uart', short_message, promised')
      /\ mismatched' => mismatched \/ (list[1] = "CONTENT" /\ short_message # promised)
      /\ disturbed => disturbed'
      /\ uart = <<>> /\ ~ disturbed' =>
           /\ Len(uart') <= 1
           /\ uart' # <<>> => /\ uart'[1].cmd = list[1] /\ uart'[1].text = short_message
                              /\ uart'[1].kind # "part"
  BY <1>0, Wrote, Zenon
<1>2. HeadIsCurrent'
  BY <1>0, Zenon DEF HeadIsCurrent
<1>3. AllOfText(buf, short_message, promised)' /\ AllOfText(uart, short_message, promised)'
  <2>1. AllOfText(buf, short_message, promised')
    BY <1>1, StaysOfText, Zenon DEF Queue
  <2>2. QED
    BY <1>1, <2>1 DEF Queue
<1>4. MessagesKeptApart'
  BY <1>1 DEF Queue, MessagesKeptApart, InOrder, OneWriter
<1>5. ~ resumed' => InOrder'
  <2> SUFFICES ASSUME ~ resumed PROVE InOrder'
    OBVIOUS
  <2>1. Alone(list)'
    BY Zenon DEF Queue, InOrder, Alone
  <2>2. (~ misattributed /\ Holds(list, "CONTENT") => promised = short_message)'
    BY <1>1, Zenon DEF Queue, InOrder, Holds
  <2>3. OneWriter'
    BY Zenon DEF Queue, InOrder, OneWriter, Moves, TypeOK
  <2>4. QED
    BY <2>1, <2>2, <2>3 DEF InOrder
<1>6. ~ resumed' /\ ~ disturbed' => Calm'
  <2> SUFFICES ASSUME ~ resumed, ~ disturbed' PROVE Calm'
    BY Zenon
  <2>1. Calm /\ current = NULL /\ list[1] # "CONTENT"
    BY <1>1, Zenon DEF Queue, InOrder, OneWriter
  <2>2. uart = <<>> /\ ~ at_cmd
    BY <2>1, Zenon DEF Calm
  <2>3. current' = list[1] /\ current' # NULL
    BY <1>0, Commands, ZenonT(60)
  <2>4. QED
    BY <1>1, <2>1, <2>2, <2>3, Zenon DEF Calm
<1>7. QED
  BY <1>2, <1>3, <1>4, <1>5, <1>6 DEF Queue

\* u9300_atcmd_no_respobse disturbs the line when the modem answers.
LEMMA RepeatQueue ==
    ASSUME TypeOK, Queue, current # NULL,
           Written(current, uart, TRUE) \/ WriteFails(current, uart),
           UNCHANGED <<queueVars, at_cmd, timeout, pc, buf, misattributed, resumed, undefined>>
    PROVE  Queue'
<1> USE DEF queueVars
<1>0. current \in Cmd /\ uart \in Seq(Answer)
  BY Zenon DEF TypeOK
<1>1. /\ promised' \in {promised, short_message}
      /\ AllOfText(uart, short_message, promised) => AllOfText(uart', short_message, promised')
      /\ mismatched' => mismatched \/ (current = "CONTENT" /\ short_message # promised)
      /\ disturbed => disturbed'
      /\ ~ disturbed' => uart' = uart
  BY <1>0, Wrote, Zenon
<1>2. HeadIsCurrent'
  BY DEF Queue, HeadIsCurrent
<1>3. AllOfText(buf, short_message, promised)' /\ AllOfText(uart, short_message, promised)'
  <2>1. AllOfText(buf, short_message, promised')
    BY <1>1, StaysOfText DEF Queue
  <2>2. QED
    BY <1>1, <2>1 DEF Queue
<1>4. MessagesKeptApart'
  <2>1. current = "CONTENT" => Holds(list, "CONTENT")
    BY DEF Queue, HeadIsCurrent, Holds, TypeOK
  <2>2. QED
    BY <1>1, <2>1, Zenon DEF Queue, MessagesKeptApart, InOrder
<1>5. ~ resumed' => InOrder'
  BY <1>1, Zenon DEF Queue, InOrder, Alone, Holds, OneWriter
<1>6. ~ resumed' /\ ~ disturbed' => Calm'
  BY <1>1 DEF Queue, Calm
<1>7. QED
  BY <1>2, <1>3, <1>4, <1>5, <1>6 DEF Queue

\* send_fill finds the list empty, unless the sender went on without looking.
LEMMA FillQueue ==
    ASSUME TypeOK, Queue, NEW s \in Sender, send_fill(s), ~ timeout
    PROVE  Queue'
<1> USE DEF queueVars, timerVars, lineVars, modemVars, readVars
<1>0. /\ short_message' = short_message + 1 /\ list' = Append(list, "SEND")
      /\ undefined' = IF "SEND" \in Range(list) THEN "list" ELSE undefined
      /\ resumed' = (resumed \/ (pc[s] = "woken" /\ list # <<>>))
      /\ Moves(s, "write")
      /\ UNCHANGED <<current, at_cmd, timeout, uart, promised, mismatched, disturbed, buf, misattributed>>
  BY DEF send_fill, Linking
<1>1. ~ resumed' => ~ resumed /\ list = <<>>
  BY <1>0, Zenon DEF send_fill, GoesOn
<1>2. HeadIsCurrent'
  BY <1>0 DEF Queue, HeadIsCurrent, TypeOK
<1>3. AllOfText(buf, short_message, promised)' /\ AllOfText(uart, short_message, promised)'
  <2>1. ASSUME NEW q \in Seq(Answer), AllOfText(q, short_message, promised)
        PROVE  AllOfText(q, short_message + 1, promised)
    <3> SUFFICES ASSUME NEW i \in DOMAIN q
                 PROVE  OfText(q[i], short_message + 1, promised)
      BY DEF AllOfText
    <3>1. q[i] \in Answer /\ OfText(q[i], short_message, promised)
      BY <2>1 DEF AllOfText
    <3>2. q[i].text \in Nat /\ q[i].text <= short_message /\ short_message \in Nat
      BY <3>1 DEF OfText, Answer, TypeOK
    <3>3. QED
      BY <3>2 DEF OfText
  <2>2. QED
    BY <1>0, <2>1 DEF Queue, TypeOK
<1>4. MessagesKeptApart'
  <2>1. list = <<>> => Range(list) = {}
    BY DEF Range
  <2>2. (undefined' = "list" => undefined = "list" \/ resumed') /\ (resumed => resumed')
    BY <1>0, <1>1, <2>1
  <2>3. QED
    BY <1>0, <2>2 DEF Queue, MessagesKeptApart
<1>5. ~ resumed' => InOrder'
  <2> SUFFICES ASSUME ~ resumed' PROVE InOrder'
    OBVIOUS
  <2>1. ~ resumed /\ list = <<>> /\ current = NULL /\ \A t \in Thread : pc[t] # "write"
    BY <1>1, Zenon DEF Queue, HeadIsCurrent, InOrder, OneWriter
  <2>2. Len(list') = 1 /\ list'[1] = "SEND" /\ list' # <<>> /\ DOMAIN list' = {1}
    BY <1>0, <2>1
  <2>3. Alone(list)' /\ ~ Holds(list, "CONTENT")'
    BY <2>2 DEF Alone, Holds
  <2>4. OneWriter'
    BY <1>0, <2>1, <2>2, Commands, Zenon DEF OneWriter, Moves, TypeOK
  <2>5. QED
    BY <2>3, <2>4 DEF InOrder
<1>6. ~ resumed' /\ ~ disturbed' => Calm'
  BY <1>0, <1>1, Zenon DEF Queue, HeadIsCurrent, Calm
<1>7. QED
  BY <1>2, <1>3, <1>4, <1>5, <1>6, Zenon DEF Queue

\* The timeout callback drops the list while no thread is about to write.
LEMMA DropQueue ==
    ASSUME TypeOK, Queue, timeout_end, lock = NULL
    PROVE  Queue'
<1> USE DEF lineVars, modemVars, readVars
<1>0. /\ timeout /\ list' = <<>> /\ current' = NULL /\ Signal /\ ~ timeout'
      /\ UNCHANGED <<short_message, at_cmd, uart, promised, mismatched, disturbed, buf>>
      /\ UNCHANGED <<misattributed, resumed, undefined>>
  BY Zenon DEF timeout_end
<1>1. HeadIsCurrent' /\ MessagesKeptApart'
  BY <1>0 DEF Queue, HeadIsCurrent, MessagesKeptApart
<1>2. AllOfText(buf, short_message, promised)' /\ AllOfText(uart, short_message, promised)'
  BY <1>0 DEF Queue
<1>3. ~ resumed' => InOrder'
  <2> SUFFICES ASSUME ~ resumed PROVE InOrder'
    BY <1>0, Zenon
  <2>1. \A t \in Thread : pc[t] # "write"
    BY <1>0 DEF Queue, HeadIsCurrent, InOrder, OneWriter
  <2>2. \A t \in Thread : pc'[t] # "write"
    BY <1>0, <2>1, Signals, Zenon
  <2>3. QED
    BY <1>0, <2>2 DEF InOrder, OneWriter, Alone, Holds
<1>4. ~ resumed' /\ ~ disturbed' => Calm'
  BY <1>0 DEF Queue, Calm
<1>5. QED
  BY <1>1, <1>2, <1>3, <1>4, Zenon DEF Queue

\* A line sent unasked is an answer to no command.
LEMMA UnsolicitedQueue ==
    ASSUME TypeOK, Queue, Unsolicited
    PROVE  Queue'
<1> USE DEF queueVars, timerVars, threadVars
<1> DEFINE p == Piece(NULL, "line")
<1>0. /\ uart' = Append(uart, p) /\ disturbed' = TRUE
      /\ UNCHANGED <<queueVars, at_cmd, timeout, pc, promised, mismatched, buf, misattributed>>
      /\ UNCHANGED <<resumed, undefined>>
  BY DEF Unsolicited
<1>1. p.cmd = NULL /\ p.text = short_message
  BY PieceType
<1> HIDE DEF p
<1>2. AllOfText(uart, short_message, promised)'
  <2> SUFFICES ASSUME NEW i \in DOMAIN uart' PROVE OfText(uart'[i], short_message, promised)
    BY <1>0 DEF AllOfText
  <2>1. CASE i \in DOMAIN uart
    <3>1. uart'[i] = uart[i]
      BY <1>0, <2>1 DEF TypeOK
    <3>2. QED
      BY <2>1, <3>1, Zenon DEF Queue, AllOfText
  <2>2. CASE i \notin DOMAIN uart
    <3>1. uart'[i] = p
      BY <1>0, <2>2 DEF TypeOK
    <3>2. QED
      BY <1>1, <3>1, ModemConstants DEF OfText, TypeOK
  <2>3. QED
    BY <2>1, <2>2
<1>3. AllOfText(buf, short_message, promised)'
  BY <1>0, Zenon DEF Queue
<1>4. HeadIsCurrent' /\ MessagesKeptApart'
  BY <1>0, Zenon DEF Queue, HeadIsCurrent, MessagesKeptApart
<1>5. ~ resumed' => InOrder'
  BY <1>0, Zenon DEF Queue, InOrder, OneWriter
<1>6. QED
  BY <1>0, <1>2, <1>3, <1>4, <1>5, Zenon DEF Queue

\* What op4g_job hands over when nothing disturbed the line: the whole answer to the
\* current command or, after a failed read, a cut answer to an earlier one.
Answered(pieces, line) ==
    /\ line = <<>> /\ current # NULL
    /\ \E i \in DOMAIN pieces : /\ pieces[i].cmd = current /\ pieces[i].text = short_message
                                /\ pieces[i].kind # "part"
    /\ current = "CONTENT" => Len(pieces) = 1

Cut(pieces, line) ==
    /\ line = uart /\ Len(pieces) = 1 /\ pieces[1].kind = "part"
    /\ current = "CONTENT" => uart = <<>>

HandedOver(pieces, line) ==
    /\ pieces \in Seq(Answer) /\ line \in Seq(Answer)
    /\ AllOfText(pieces, short_message, promised) /\ AllOfText(line, short_message, promised)
    /\ ~ resumed /\ ~ disturbed => Answered(pieces, line) \/ Cut(pieces, line)

\* Which of them has the end of a line.
LEMMA HasLineEnd ==
    ASSUME NEW pieces \in Seq(Answer), NEW line
    PROVE  /\ Answered(pieces, line) => u9300_is_at_cmd_ok(pieces)
           /\ Cut(pieces, line) => ~ u9300_is_at_cmd_ok(pieces)
<1>1. \A p \in Answer : p.kind \in {"part", "line", "ok"}
  BY Zenon DEF Answer
<1>2. \A i \in DOMAIN pieces : pieces[i].kind \in {"part", "line", "ok"}
  BY <1>1
<1>3. QED
  BY <1>2 DEF Answered, Cut, u9300_is_at_cmd_ok, HasKind

\* NONE and MORE of u9300_uart_handle.
LEMMA NobodyWaits ==
    ASSUME TypeOK, Queue, ~ timeout, NEW pieces, NEW line, HandedOver(pieces, line),
           list = <<>> \/ current = NULL, None, uart' = line,
           UNCHANGED <<list, short_message, at_cmd, modemVars, misattributed, undefined>>,
           UNCHANGED <<timeout, resumed>>
    PROVE  Queue'
<1> USE DEF modemVars
<1>0. buf' = <<>> /\ current' = NULL /\ Signal /\ current = NULL
  BY DEF None, Queue, HeadIsCurrent
<1>1. HeadIsCurrent' /\ MessagesKeptApart'
  BY <1>0, Zenon DEF Queue, HeadIsCurrent, MessagesKeptApart
<1>2. AllOfText(buf, short_message, promised)' /\ AllOfText(uart, short_message, promised)'
  BY <1>0 DEF HandedOver, AllOfText
<1>3. ~ resumed' => InOrder'
  <2>1. \A t \in Thread : pc'[t] = "write" <=> pc[t] = "write"
    BY <1>0, Signals, Zenon
  <2>2. QED
    BY <1>0, <2>1 DEF Queue, InOrder, OneWriter
<1>4. ~ resumed' /\ ~ disturbed' => Calm'
  BY <1>0 DEF Queue, Calm, HandedOver, Answered, Cut
<1>5. QED
  BY <1>1, <1>2, <1>3, <1>4, Zenon DEF Queue

\* The buffer is kept; only CONTENT keeps an answer with a line end, one without OK.
LEMMA MoreQueue ==
    ASSUME TypeOK, Queue, ~ timeout, NEW pieces, NEW line, HandedOver(pieces, line),
           current # NULL, More(pieces, line),
           \/ ~ u9300_is_at_cmd_ok(pieces) /\ UNCHANGED at_cmd
           \/ u9300_is_at_cmd_ok(pieces) /\ current = "CONTENT",
           UNCHANGED <<timeout, resumed>>
    PROVE  Queue'
<1>0. /\ buf' = pieces /\ uart' = line
      /\ UNCHANGED <<list, current, short_message, pc, promised, mismatched, disturbed>>
      /\ UNCHANGED <<misattributed, undefined>>
  BY DEF More, queueVars, modemVars
<1>1. HeadIsCurrent' /\ MessagesKeptApart'
  BY <1>0 DEF Queue, HeadIsCurrent, MessagesKeptApart
<1>2. AllOfText(buf, short_message, promised)' /\ AllOfText(uart, short_message, promised)'
  BY <1>0, Zenon DEF HandedOver
<1>3. ~ resumed' => InOrder'
  BY <1>0 DEF Queue, InOrder, OneWriter
<1>4. ~ resumed' /\ ~ disturbed' => Calm'
  <2> SUFFICES ASSUME ~ resumed, ~ disturbed PROVE Calm'
    BY <1>0, Zenon
  <2>0. Calm
    BY Zenon DEF Queue
  <2>1. CASE Answered(pieces, line)
    <3>1. line = <<>> /\ Len(pieces) = 1
      BY <2>1, HasLineEnd, Zenon DEF HandedOver, Answered
    <3>2. Len(pieces) <= 1 /\ Len(line) <= 1
      BY <3>1
    <3>3. QED
      BY <1>0, <2>0, <3>1, <3>2, Zenon DEF Calm
  <2>2. CASE Cut(pieces, line)
    <3>1. UNCHANGED at_cmd /\ line = uart /\ Len(pieces) = 1 /\ (current = "CONTENT" => uart = <<>>)
      BY <2>2, HasLineEnd DEF HandedOver, Cut
    <3>2. Len(pieces) <= 1
      BY <3>1
    <3>3. QED
      BY <1>0, <2>0, <3>1, <3>2, Zenon DEF Calm
  <2>3. QED
    BY <2>1, <2>2, Zenon DEF HandedOver
<1>5. QED
  BY <1>1, <1>2, <1>3, <1>4 DEF Queue

\* What is left of a list in which the commands of a message are alone: after SEND its
\* CONTENT only, and after any other command no CONTENT.
LEMMA RestInOrder ==
    ASSUME TypeOK, list # <<>>, current = list[1], Alone(list)
    PROVE  /\ Alone(Rest)
           /\ Holds(Rest, "CONTENT") => current = "SEND"
           /\ current = "SEND" => "CONTENT" \notin Range(list)
<1>0. list \in Seq(Cmd) /\ Len(list) \in Nat /\ Len(list) >= 1 /\ DOMAIN list = 1 .. Len(list)
  BY DEF TypeOK
<1>1. CASE current = "SEND"
  <2>1. 1 \in DOMAIN list /\ list[1] = "SEND"
    BY <1>0, <1>1
  <2>2. Len(list) = 1
    BY <1>0, <2>1 DEF Alone
  <2>3. Tail(list) \in Seq(Cmd) /\ Len(Tail(list)) = 0
    BY <1>0, <2>2
  <2>4. Rest = Tail(list) \o <<"CONTENT">>
    BY <1>1 DEF Rest
  <2>5. <<"CONTENT">> \in Seq(Cmd) /\ Len(<<"CONTENT">>) = 1
    BY Commands
  <2>6. Len(Rest) = 1
    BY <2>3, <2>4, <2>5
  <2>7. "CONTENT" \notin Range(list)
    <3>1. DOMAIN list = {1}
      BY <1>0, <2>2
    <3>2. QED
      BY <2>1, <3>1 DEF Range
  <2>8. QED
    BY <1>1, <2>6, <2>7 DEF Alone
<1>2. CASE current # "SEND"
  <2>1. Rest = Tail(list)
    BY <1>2 DEF Rest, TypeOK
  <2>2. Len(Rest) = Len(list) - 1 /\ \A i \in DOMAIN Rest : i + 1 \in DOMAIN list /\ Rest[i] = list[i + 1]
    BY <2>1 DEF TypeOK
  <2>3. QED
    BY <1>2, <2>2 DEF Alone, Holds, TypeOK
<1>3. QED
  BY <1>1, <1>2

\* The answer that ends a command.
LEMMA CompletedQueue ==
    ASSUME TypeOK, Queue, ~ timeout, NEW pieces, NEW line, HandedOver(pieces, line),
           current # NULL, u9300_is_at_cmd_ok(pieces), Completed(pieces, line),
           UNCHANGED <<timeout, resumed>>
    PROVE  Queue'
<1> DEFINE Matches == \E i \in DOMAIN pieces : /\ pieces[i].cmd = current
                                               /\ pieces[i].text = short_message
                                               /\ pieces[i].kind # "part"
           Next1 == Head(Rest)
<1>0. list # <<>> /\ current = list[1] /\ Rest \in Seq(Cmd) /\ line \in Seq(Answer)
  BY RestType, Zenon DEF Queue, HeadIsCurrent, HandedOver
<1>1. /\ list' = Rest /\ UNCHANGED short_message /\ at_cmd' = FALSE /\ buf' = <<>>
      /\ undefined' = IF current = "SEND" /\ "CONTENT" \in Range(list) THEN "list" ELSE undefined
      /\ misattributed => misattributed'
      /\ Matches /\ ~ misattributed => ~ misattributed'
      /\ ~ misattributed' => Matches
  BY Zenon DEF Completed, StopsTimer, Linking, None
<1>2. \A t \in Thread : pc'[t] = "write" <=> pc[t] = "write"
  <2>1. Signal \/ UNCHANGED pc
    BY Zenon DEF Completed, None
  <2>2. QED
    BY <2>1, Signals, Zenon
<1>3. /\ promised' \in {promised, short_message}
      /\ AllOfText(uart', short_message, promised')
      /\ mismatched' => \/ mismatched
                        \/ Rest # <<>> /\ Rest[1] = "CONTENT" /\ short_message # promised
      /\ disturbed => disturbed'
      /\ current' # NULL => Rest # <<>> /\ current' = Rest[1]
      /\ line = <<>> /\ ~ disturbed' =>
           /\ Len(uart') <= 1
           /\ uart' # <<>> => /\ current' # NULL /\ uart'[1].cmd = current'
                              /\ uart'[1].text = short_message /\ uart'[1].kind # "part"
  <2>1. CASE Rest = <<>> /\ None /\ uart' = line /\ UNCHANGED modemVars
    BY <2>1, SMTT(30) DEF None, modemVars, HandedOver
  <2>2. CASE Rest # <<>> /\ Written(Next1, line, FALSE) /\ current' = Next1
    <3>1. Next1 \in Cmd /\ Next1 = Rest[1] /\ Next1 # NULL
      <4>1. Head(Rest) \in Cmd /\ Head(Rest) = Rest[1]
        BY <1>0, <2>2
      <4>2. QED
        BY <4>1, Commands, Zenon
    <3> HIDE DEF Next1
    <3>2. QED
      BY <1>0, <2>2, <3>1, Wrote, Zenon DEF HandedOver
  <2>3. CASE Rest # <<>> /\ WriteFails(Next1, line) /\ None
    BY <2>3 DEF None, modemVars, HandedOver, WriteFails
  <2>4. QED
    BY <2>1, <2>2, <2>3, Zenon DEF Completed
<1>4. ~ resumed => /\ Alone(Rest)
                   /\ Holds(Rest, "CONTENT") => current = "SEND"
                   /\ current = "SEND" => "CONTENT" \notin Range(list)
  BY <1>0, RestInOrder, Zenon DEF Queue, InOrder
<1>5. ~ resumed /\ ~ misattributed' /\ Holds(Rest, "CONTENT") => promised = short_message
  BY <1>1, <1>4, Zenon DEF HandedOver, AllOfText, OfText
<1>6. HeadIsCurrent'
  BY <1>1, <1>3, Zenon DEF HeadIsCurrent
<1>7. AllOfText(buf, short_message, promised)' /\ AllOfText(uart, short_message, promised)'
  BY <1>1, <1>3 DEF AllOfText
<1>8. MessagesKeptApart'
  <2>1. undefined' = "list" => resumed
    BY <1>1, <1>4, Zenon DEF Queue, MessagesKeptApart
  <2>2. Rest # <<>> /\ Rest[1] = "CONTENT" => Holds(Rest, "CONTENT")
    <3>1. Rest # <<>> => 1 \in DOMAIN Rest
      BY <1>0
    <3>2. QED
      BY <3>1, Zenon DEF Holds
  <2>3. mismatched' => resumed \/ misattributed'
    BY <1>1, <1>3, <1>5, <2>2, Zenon DEF Queue, MessagesKeptApart
  <2>4. QED
    BY <2>1, <2>3, Zenon DEF MessagesKeptApart
<1>9. ~ resumed' => InOrder'
  <2> SUFFICES ASSUME ~ resumed PROVE InOrder'
    OBVIOUS
  <2>1. \A t \in Thread : pc[t] # "write"
    BY DEF Queue, InOrder, OneWriter
  <2>2. OneWriter'
    BY <1>2, <2>1, Zenon DEF OneWriter
  <2>3. QED
    BY <1>1, <1>3, <1>4, <1>5, <2>2, Zenon DEF InOrder
<1>10. ~ resumed' /\ ~ disturbed' => Calm'
  <2> SUFFICES ASSUME ~ resumed, ~ disturbed' PROVE Calm'
    BY Zenon
  <2>1. ~ disturbed /\ ~ misattributed
    BY <1>3 DEF Queue, Calm
  <2>2. Answered(pieces, line)
    BY <2>1, HasLineEnd, Zenon DEF HandedOver
  <2>3. ~ misattributed' /\ line = <<>>
    BY <1>1, <2>1, <2>2, Zenon DEF Answered
  <2>4. Len(buf') <= 1
    BY <1>1
  <2>5. QED
    BY <1>1, <1>3, <2>3, <2>4, Zenon DEF Calm
<1>11. QED
  BY <1>6, <1>7, <1>8, <1>9, <1>10 DEF Queue

\* op4g_job hands over what it should.
LEMMA ReadsAnswer ==
    ASSUME TypeOK, Queue, NEW k \in 1 .. Len(uart)
    PROVE  HandedOver(Kept \o SubSeq(uart, 1, k), SubSeq(uart, k + 1, Len(uart)))
<1> DEFINE got == SubSeq(uart, 1, k)
           pieces == Kept \o got
           line == SubSeq(uart, k + 1, Len(uart))
<1>0. /\ uart \in Seq(Answer) /\ Kept \in Seq(Answer) /\ Kept \in {<<>>, buf}
      /\ got \in Seq(Answer) /\ pieces \in Seq(Answer) /\ line \in Seq(Answer)
  BY ReadType DEF TypeOK
<1>1. /\ Len(got) = k /\ \A i \in DOMAIN got : i \in DOMAIN uart /\ got[i] = uart[i]
      /\ Len(line) = Len(uart) - k
      /\ \A i \in DOMAIN line : i + k \in DOMAIN uart /\ line[i] = uart[i + k]
  BY <1>0
<1> HIDE DEF got, line
<1>2. Len(pieces) = Len(Kept) + k /\ Len(Kept) \in Nat /\ Len(uart) \in Nat
  <2>1. Kept \in Seq(Answer) /\ got \in Seq(Answer) /\ uart \in Seq(Answer) /\ Len(got) = k
    BY <1>0, <1>1
  <2>2. Len(pieces) = Len(Kept) + Len(got)
    BY <2>1
  <2>3. QED
    BY <2>1, <2>2
<1>3. \A i \in DOMAIN pieces : IF i \in DOMAIN Kept THEN pieces[i] = Kept[i]
                               ELSE i - Len(Kept) \in DOMAIN got /\ pieces[i] = got[i - Len(Kept)]
  BY <1>0, <1>1
<1>4. Len(Kept) + 1 \in DOMAIN pieces /\ pieces[Len(Kept) + 1] = got[1]
  BY <1>0, <1>1, <1>2
<1> HIDE DEF pieces
<1>5. AllOfText(Kept, short_message, promised)
  BY <1>0 DEF Queue, AllOfText
<1>6. AllOfText(pieces, short_message, promised)
  BY <1>1, <1>2, <1>3, <1>5, ZenonT(60) DEF Queue, AllOfText
<1>7. AllOfText(line, short_message, promised)
  BY <1>1, Zenon DEF Queue, AllOfText
<1>8. ASSUME ~ resumed, ~ disturbed PROVE Answered(pieces, line)
  <2>0. Calm
    BY <1>8 DEF Queue
  <2>1. Len(uart) = 1 /\ k = 1 /\ uart # <<>>
    <3>1. Len(uart) <= 1
      BY <2>0 DEF Calm
    <3>2. \A n \in Nat : n <= 1 /\ k \in 1 .. n => n = 1 /\ k = 1
      OBVIOUS
    <3>3. Len(uart) = 1 /\ k = 1
      BY <1>2, <3>1, <3>2, Zenon
    <3>4. Len(<<>>) = 0
      OBVIOUS
    <3>5. QED
      BY <3>3, <3>4
  <2>2. line = <<>> /\ got[1] = uart[1]
    BY <1>0, <1>1, <2>1
  <2>3. current = "CONTENT" => Len(pieces) = 1
    BY <1>0, <1>2, <2>0, <2>1 DEF Calm
  <2>4. QED
    BY <1>4, <2>0, <2>1, <2>2, <2>3, Zenon DEF Calm, Answered
<1>9. HandedOver(pieces, line)
  BY <1>0, <1>6, <1>7, <1>8 DEF HandedOver
<1>10. QED
  BY <1>9 DEF pieces, line, got

\* After a failed read what was kept is handed over again, its end cut.
LEMMA ReadsCut ==
    ASSUME TypeOK, Queue, Kept # <<>>
    PROVE  HandedOver([Kept EXCEPT ![Len(Kept)].kind = "part"], uart)
<1> DEFINE pieces == [Kept EXCEPT ![Len(Kept)].kind = "part"]
<1>0. /\ uart \in Seq(Answer) /\ Kept \in Seq(Answer) /\ Kept = buf /\ pieces \in Seq(Answer)
  BY ReadType DEF TypeOK
<1>1. Len(Kept) \in DOMAIN Kept /\ Kept[Len(Kept)] \in Answer
  BY <1>0
<1>2. /\ DOMAIN pieces = DOMAIN Kept /\ Len(pieces) = Len(Kept)
      /\ \A i \in DOMAIN Kept : pieces[i] = IF i = Len(Kept) THEN [Kept[i] EXCEPT !.kind = "part"]
                                            ELSE Kept[i]
  BY <1>0
<1>3. /\ [Kept[Len(Kept)] EXCEPT !.kind = "part"].kind = "part"
      /\ [Kept[Len(Kept)] EXCEPT !.kind = "part"].text = Kept[Len(Kept)].text
      /\ [Kept[Len(Kept)] EXCEPT !.kind = "part"].cmd = Kept[Len(Kept)].cmd
  BY <1>1 DEF Answer
<1> HIDE DEF pieces
<1>4. AllOfText(Kept, short_message, promised)
  BY <1>0 DEF Queue
<1>5. AllOfText(pieces, short_message, promised)
  BY <1>2, <1>3, <1>4, Zenon DEF AllOfText, OfText
<1>6. ASSUME ~ resumed, ~ disturbed PROVE Cut(pieces, uart)
  <2>0. Calm
    BY <1>6 DEF Queue
  <2>1. Len(buf) = 1 /\ buf # <<>>
    <3>1. Len(buf) <= 1
      BY <2>0 DEF Calm
    <3>2. Len(buf) \in Nat /\ Len(buf) # 0
      BY <1>0
    <3>3. \A n \in Nat : n <= 1 /\ n # 0 => n = 1
      OBVIOUS
    <3>4. Len(buf) = 1
      BY <3>1, <3>2, <3>3, Zenon
    <3>5. QED
      BY <1>0, <3>4, Zenon
  <2>2. Len(pieces) = 1 /\ pieces[1].kind = "part"
    BY <1>0, <1>1, <1>2, <1>3, <2>1, Zenon
  <2>3. QED
    BY <2>0, <2>1, <2>2 DEF Calm, Cut
<1>7. HandedOver(pieces, uart)
  BY <1>0, <1>5, <1>6, Zenon DEF HandedOver, Queue
<1>8. QED
  BY <1>7 DEF pieces

\* u9300_uart_handle.
LEMMA HandleQueue ==
    ASSUME TypeOK, Queue, ~ timeout, NEW pieces, NEW line, HandedOver(pieces, line),
           u9300_uart_handle(pieces, line), UNCHANGED <<timeout, resumed>>
    PROVE  Queue'
<1>1. CASE list = <<>> \/ current = NULL
  BY <1>1, NobodyWaits, Zenon DEF u9300_uart_handle
<1>2. CASE ~ (list = <<>> \/ current = NULL) /\ ~ u9300_is_at_cmd_ok(pieces)
  BY <1>2, MoreQueue DEF u9300_uart_handle
<1>3. CASE /\ ~ (list = <<>> \/ current = NULL) /\ u9300_is_at_cmd_ok(pieces)
           /\ CallbackFails(pieces)
  BY <1>3, MoreQueue, Zenon DEF u9300_uart_handle, CallbackFails
<1>4. CASE /\ ~ (list = <<>> \/ current = NULL) /\ u9300_is_at_cmd_ok(pieces)
           /\ ~ CallbackFails(pieces)
  BY <1>4, CompletedQueue, Zenon DEF u9300_uart_handle
<1>5. QED
  BY <1>1, <1>2, <1>3, <1>4, Zenon

\* The set-up commands are queued and u9300_init is the one thread about to write.
LEMMA InitQueue == Init => Queue
<1> SUFFICES ASSUME Init PROVE Queue
  OBVIOUS
<1>1. /\ HeadIsCurrent /\ MessagesKeptApart /\ Calm
      /\ AllOfText(buf, short_message, promised) /\ AllOfText(uart, short_message, promised)
  BY Commands DEF Init, HeadIsCurrent, MessagesKeptApart, Calm, AllOfText
<1>2. Alone(list) /\ ~ Holds(list, "CONTENT")
  BY Commands, Zenon DEF Init, Alone, Holds
<1>3. OneWriter
  <2>1. list # <<>> /\ 1 \in DOMAIN list /\ list[1] # "CONTENT"
    BY Commands DEF Init
  <2>2. QED
    BY <2>1, Commands, Zenon DEF Init, OneWriter
<1>4. QED
  BY <1>1, <1>2, <1>3, Zenon DEF Queue, InOrder

\* One step per action; the steps that do not touch the queue are SameQueue.
LEMMA NextQueue == TypeOK /\ Queue /\ [Next]_vars => Queue'
<1> SUFFICES ASSUME TypeOK, Queue, [Next]_vars PROVE Queue'
  OBVIOUS
<1> USE DEF queueVars, timerVars, threadVars, lineVars, modemVars, readVars, conf
<1>1. ASSUME NEW why \in {"race", "index"}, Undefined(why) PROVE Queue'
  BY <1>1, SameQueue, Zenon DEF Undefined
<1>2. ASSUME NEW t \in Thread, u9300_write_cmd(t) PROVE Queue'
  <2>1. CASE timeout
    BY <1>1, <1>2, <2>1, Zenon DEF u9300_write_cmd
  <2>2. CASE ~ timeout
    <3>1. /\ pc[t] = "write" /\ Moves(t, "idle")
          /\ UNCHANGED <<list, short_message, at_cmd, timeout, buf, misattributed, resumed, undefined>>
      BY <1>2, <2>2, Zenon DEF u9300_write_cmd
    <3>2. CASE list = <<>> /\ UNCHANGED <<current, lineVars>>
      <4>1. \A u \in Thread : pc'[u] = "write" => pc[u] = "write"
        BY <3>1 DEF Moves, TypeOK
      <4>2. QED
        BY <2>2, <3>1, <3>2, <4>1, SameQueue, Zenon
    <3>3. CASE /\ list # <<>> /\ current' = Head(list)
               /\ Written(Head(list), uart, FALSE) \/ WriteFails(Head(list), uart)
      BY <2>2, <3>1, <3>3, WriteQueue, Zenon
    <3>4. QED
      BY <1>2, <2>2, <3>2, <3>3, Zenon DEF u9300_write_cmd
  <2>3. QED
    BY <2>1, <2>2
<1>3. ASSUME NEW s \in Sender, SendMessage(s) \/ send_spurious(s) PROVE Queue'
  <2>1. ASSUME NEW where \in {"locked", "waiting", "idle", "woken"}, Moves(s, where),
               UNCHANGED <<queueVars, timerVars, lineVars, readVars, resumed, undefined>>
        PROVE  Queue'
    <3>1. \A u \in Thread : pc'[u] = "write" => pc[u] = "write"
      BY <2>1 DEF Moves, TypeOK
    <3>2. QED
      BY <2>1, <3>1, SameQueue, ZenonT(60)
  <2>2. CASE send_lock(s)
    BY <1>1, <2>1, <2>2, Zenon DEF send_lock
  <2>3. CASE send_wait(s) \/ send_timeout(s) \/ send_spurious(s)
    BY <2>1, <2>3, ZenonT(60) DEF send_wait, send_timeout, send_spurious
  <2>4. CASE send_fill(s)
    <3>1. CASE timeout
      BY <1>1, <2>4, <3>1 DEF send_fill
    <3>2. CASE ~ timeout
      BY <2>4, <3>2, FillQueue, Zenon
    <3>3. QED
      BY <3>1, <3>2
  <2>5. QED
    BY <1>3, <2>2, <2>3, <2>4, Zenon DEF SendMessage
<1>4. CASE op4g_job
  <2>1. PICK k \in 1 .. Space :
          /\ k <= Len(uart)
          /\ u9300_uart_handle(Kept \o SubSeq(uart, 1, k), SubSeq(uart, k + 1, Len(uart)))
    BY <1>4 DEF op4g_job
  <2>2. k \in 1 .. Len(uart)
    BY <2>1, ReadType, ModemConstants DEF Space, TypeOK
  <2>3. ~ timeout /\ UNCHANGED <<timeout, resumed>>
    BY <1>4 DEF op4g_job
  <2>4. HandedOver(Kept \o SubSeq(uart, 1, k), SubSeq(uart, k + 1, Len(uart)))
    BY <2>2, ReadsAnswer
  <2>5. QED
    BY <2>1, <2>3, <2>4, HandleQueue, Zenon
<1>5. CASE op4g_job_drop
  BY <1>5, ReadType, SameQueue DEF op4g_job_drop
<1>6. CASE op4g_job_read_error
  <2>1. CASE Kept = <<>>
    BY <1>1, <1>6, <2>1 DEF op4g_job_read_error
  <2>2. CASE Kept # <<>>
    <3>1. /\ u9300_uart_handle([Kept EXCEPT ![Len(Kept)].kind = "part"], uart)
          /\ ~ timeout /\ UNCHANGED <<timeout, resumed>>
      BY <1>6, <2>2 DEF op4g_job_read_error
    <3>2. QED
      BY <2>2, <3>1, ReadsCut, HandleQueue, Zenon
  <2>3. QED
    BY <2>1, <2>2
<1>7. CASE u9300_atcmd_no_respobse
  <2>1. UNCHANGED <<queueVars, at_cmd, timeout, pc, buf, misattributed, resumed, undefined>>
    BY <1>7, Zenon DEF u9300_atcmd_no_respobse
  <2>2. CASE UNCHANGED lineVars
    BY <2>1, <2>2, SameQueue
  <2>3. CASE /\ current # NULL
             /\ Written(current, uart, TRUE) \/ WriteFails(current, uart)
    BY <2>1, <2>3, RepeatQueue, Zenon
  <2>4. QED
    BY <1>7, <2>2, <2>3, Zenon DEF u9300_atcmd_no_respobse
<1>8. CASE timeout_begin
  <2>1. /\ at_cmd /\ at_cmd' = FALSE /\ timeout' = ~ (current = NULL \/ list = <<>>)
        /\ UNCHANGED <<queueVars, threadVars, lineVars, readVars, resumed, undefined>>
    BY <1>8 DEF timeout_begin
  <2>2. QED
    BY <2>1, SameQueue, Zenon
<1>9. CASE timeout_end
  <2>1. CASE lock # NULL
    BY <1>1, <1>9, <2>1, Zenon DEF timeout_end
  <2>2. CASE lock = NULL
    BY <1>9, <2>2, DropQueue
  <2>3. QED
    BY <2>1, <2>2, Zenon
<1>10. CASE Unsolicited
  BY <1>10, UnsolicitedQueue, Zenon
<1>11. CASE UNCHANGED vars
  BY <1>11, SameQueue DEF vars
<1>12. QED
  BY <1>2, <1>3, <1>4, <1>5, <1>6, <1>7, <1>8, <1>9, <1>10, <1>11, Zenon
     DEF Next, EventLoop, u9300_atcmd_timeout
------------------------------------------------------------------------------
\* IInv is an invariant of the driver.  MessagesKeptApart is not inductive: it needs that
\* the commands of a message are alone in the list and were announced with their own text,
\* for which at most one thread is about to write and, on a line that nothing disturbed, at
\* most one answer is on its way.
THEOREM Invariance == Spec => []IInv
<1>1. Init => IInv
  BY InitType, InitCounted, InitQueue, Zenon DEF IInv
<1>2. IInv /\ [Next]_vars => IInv'
  BY NextType, NextCounted, NextQueue DEF IInv
<1>3. QED
  BY <1>1, <1>2, PTL DEF Spec

\* Whatever the faults and the threads do, no command is linked twice and no text is
\* written under the length of another, unless a sender woke up and went on without
\* looking at the list (u9300.c:400) or SEND was ended by another command's answer.
THEOREM KeptApart == Spec => []MessagesKeptApart
<1>1. IInv => MessagesKeptApart
  BY Zenon DEF IInv, Queue
<1>2. QED
  BY <1>1, Invariance, PTL

\* For any set-up commands, senders and buffer size, an answer ends the command it
\* answers, unless the line was disturbed or a sender went on without looking
\* (u9300_uart_handle takes whatever line comes for the answer to self->current).
THEOREM AnswersAttributed == Spec => []AnswerEndsItsCommand
<1>1. IInv => AnswerEndsItsCommand
  BY DEF IInv, Queue, Calm, AnswerEndsItsCommand
<1>2. QED
  BY <1>1, Invariance, PTL

\* Every message has a receiver and a size.
LEMMA Messages == \A n \in 1 .. MaxSend : Number(Receiver[n]) /\ Size[n] \in Int
<1>1. \A n \in 1 .. MaxSend : Number(Receiver[n])
  BY ModemConstants, Zenon
<1>2. Size \in [1 .. MaxSend -> 0 .. 1024]
  BY ModemConstants, Zenon DEF _4G_MESSAGE_SIZE
<1>3. \A n \in 1 .. MaxSend : Size[n] \in 0 .. 1024
  BY <1>2, Zenon
<1>4. ASSUME NEW n \in 1 .. MaxSend PROVE Size[n] \in Int
  <2>1. Size[n] \in 0 .. 1024
    BY <1>3, Zenon
  <2>2. QED
    BY <2>1
<1>5. QED
  BY <1>1, <1>4, Zenon

\* In every state the message in self->short_message is coded so that a receiver reads
\* both numbers whole, for numbers of any length (_4g_pdu.c:37-49, 73-86).
THEOREM NumbersSurvive == Spec => []NumbersComeBack
<1>1. ASSUME IInv PROVE NumbersComeBack
  <2> SUFFICES ASSUME short_message # 0, Coded.ok
               PROVE  /\ Decode(Coded.center) = Tail(center)
                      /\ Decode(Coded.phone) = <<"8", "6">> \o Receiver[short_message]
    BY DEF NumbersComeBack
  <2>1. short_message \in 1 .. MaxSend
    <3>1. Cardinality(Pending) \in Nat
      BY <1>1, FS_CardinalityType, Zenon DEF IInv, Counted
    <3>2. QED
      BY <1>1, <3>1, ModemConstants DEF IInv, Counted, TypeOK
  <2>2. Number(Receiver[short_message]) /\ Size[short_message] \in Int
    BY <2>1, Messages, Zenon
  <2>3. Supported(center)
    BY Zenon DEF Coded, message_ucs2_combi_mesage
  <2>4. center \in Seq(Char) /\ Number(Tail(center))
    BY <1>1, <2>3, ModemConstants DEF IInv, TypeOK
  <2>5. QED
    BY <2>2, <2>3, <2>4, NumbersReadBack, Zenon DEF Coded
<1>2. QED
  BY <1>1, Invariance, PTL
==============================================================================
