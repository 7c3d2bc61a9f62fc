------------------------------ MODULE VtyProofs ------------------------------
(***************************************************************************)
(* Theorems about the terminal of the command line: LineSound, HistoryExact   *)
(* and ChunkingInvisible hold for any buffer, any ring of lines and any       *)
(* stream of bytes, however it is cut into reads.                            *)
(***************************************************************************)
EXTENDS Vty, SequenceTheorems, WellFoundedInduction, TLAPS

Byte == UNION {t.byte : t \in Terminal}
Place == 0 .. max - 1
Ring == 0 .. VTY_HIST_CMD_SIZE - 1

Session ==
    [buf : [Place -> Byte \cup {NUL}], cp : Nat, length : Nat,
     hist : [Ring -> Seq(Byte)], hp : Ring, hindex : Ring,
     escape : {"NORMAL", "PRE_ESCAPE", "ESCAPE", "LITERAL"}, iac : BOOLEAN, sb : BOOLEAN,
     sb_buf : [0 .. TELNET_NAWS_SB_LEN - 1 -> Byte \cup {NUL}], sb_len : Nat,
     window : Byte \cup {NUL}, option : BOOLEAN]

\* A line of n bytes in a buffer with the cursor at c.
LineOf(b, c, n) ==
    /\ b \in [Place -> Byte \cup {NUL}] /\ c \in Nat /\ n \in Nat /\ c <= n /\ n < max
    /\ \A i \in Place : b[i] = NUL <=> i >= n

\* A session between two turns of vty_read.
Sound(v) ==
    /\ v \in Session /\ v.option = FALSE
    /\ LineOf(v.buf, v.cp, v.length)
    /\ \A h \in Ring : Len(v.hist[h]) < max

\* The session w is sound and has the history of v.
Kept(v, w) == Sound(w) /\ w.hist = v.hist /\ w.hindex = v.hindex

VtyInv ==
    /\ Sound(vty) /\ chunk \in Seq(terminal.byte) /\ terminal \in Terminal
    /\ log \in Seq(Seq(Byte) \ {<<>>}) /\ cut \in BOOLEAN
    /\ HistoryExact
    /\ ~ cut => ref = vty
------------------------------------------------------------------------------
USE DEF Kept

LEMMA VtyNumbers ==
    /\ max \in Nat /\ max >= 2 /\ VTY_HIST_CMD_SIZE \in Nat /\ VTY_HIST_CMD_SIZE > 0
    /\ TELNET_NAWS_SB_LEN \in Nat /\ TELNET_NAWS_SB_LEN > 0
    /\ NUL \notin Byte
BY VtyConstants DEF Byte

LEMMA CursorMoved ==
    ASSUME NEW v, Sound(v), NEW c \in Nat, c <= v.length
    PROVE  Kept(v, [v EXCEPT !.cp = c])
BY Zenon DEF Sound, Session, LineOf

LEMMA LineCut ==
    ASSUME NEW v, Sound(v), NEW b, NEW n, LineOf(b, v.cp, n)
    PROVE  Kept(v, [v EXCEPT !.buf = b, !.length = n])
BY Zenon DEF Sound, Session, LineOf

LEMMA CursorMoves ==
    ASSUME NEW v, Sound(v)
    PROVE  /\ Kept(v, vty_backward_char(v)) /\ Kept(v, vty_forward_char(v))
           /\ Kept(v, vty_beginning_of_line(v)) /\ Kept(v, vty_end_of_line(v))
<1>1. v.cp \in Nat /\ v.length \in Nat /\ v.cp <= v.length
  BY DEF Sound, LineOf
<1>2. Kept(v, vty_backward_char(v))
  BY <1>1, CursorMoved DEF vty_backward_char
<1>3. Kept(v, vty_forward_char(v))
  BY <1>1, CursorMoved DEF vty_forward_char
<1>4. Kept(v, vty_beginning_of_line(v)) /\ Kept(v, vty_end_of_line(v))
  BY <1>1, CursorMoved DEF vty_beginning_of_line, vty_end_of_line
<1>5. QED
  BY <1>2, <1>3, <1>4

LEMMA KillLine ==
    ASSUME NEW v, Sound(v)
    PROVE  Kept(v, vty_kill_line(v))
<1> DEFINE b == [i \in DOMAIN v.buf |-> IF i \in v.cp .. v.length - 1 THEN NUL ELSE v.buf[i]]
<1>1. LineOf(b, v.cp, v.cp)
  BY VtyNumbers DEF Sound, LineOf, Place
<1>2. vty_kill_line(v) = [v EXCEPT !.buf = b, !.length = v.cp]
  BY DEF vty_kill_line
<1> HIDE DEF b
<1>3. Kept(v, [v EXCEPT !.buf = b, !.length = v.cp])
  BY <1>1, Zenon DEF Sound, Session, LineOf
<1>4. QED
  BY <1>2, <1>3

LEMMA KillFromBeginning ==
    ASSUME NEW v, Sound(v)
    PROVE  Kept(v, vty_kill_line_from_beginning(v)) /\ vty_kill_line_from_beginning(v).length = 0
<1> DEFINE u == vty_beginning_of_line(v)
<1>1. Kept(v, u) /\ u.cp = 0
  BY CursorMoves, Zenon DEF vty_beginning_of_line, Sound, Session
<1> HIDE DEF u
<1>2. Kept(u, vty_kill_line(u)) /\ vty_kill_line(u).length = 0
  BY <1>1, KillLine, ZenonT(60) DEF vty_kill_line, Sound, Session
<1>3. QED
  BY <1>1, <1>2 DEF vty_kill_line_from_beginning, u

LEMMA Deleted ==
    ASSUME NEW v, Sound(v), NEW n \in Nat, v.cp + n <= v.length
    PROVE  Kept(v, Delete(v, n))
<1> DEFINE b == [i \in DOMAIN v.buf |->
                   IF i \in v.cp .. v.length - n - 1 THEN v.buf[i + n]
                   ELSE IF i \in v.length - n .. v.length - 1 THEN NUL ELSE v.buf[i]]
<1>0. /\ v.cp \in Nat /\ v.length \in Nat /\ v.length < max /\ DOMAIN v.buf = Place
      /\ \A i \in Place : v.buf[i] \in Byte \cup {NUL} /\ (v.buf[i] = NUL <=> i >= v.length)
      /\ \A i \in Place : i \in Int /\ 0 <= i /\ i < max
      /\ \A i \in Nat : i < max => i \in Place
  BY VtyNumbers DEF Sound, LineOf, Place
<1>1. LineOf(b, v.cp, v.length - n)
  <2>1. \A i \in Place : b[i] \in Byte \cup {NUL} /\ (b[i] = NUL <=> i >= v.length - n)
    <3> SUFFICES ASSUME NEW i \in Place
                 PROVE  b[i] \in Byte \cup {NUL} /\ (b[i] = NUL <=> i >= v.length - n)
      OBVIOUS
    <3>1. CASE i \in v.cp .. v.length - n - 1
      <4>1. i + n \in Place /\ i + n < v.length /\ b[i] = v.buf[i + n] /\ ~ (i >= v.length - n)
        <5>1. i \in Int /\ i + n \in Nat /\ i + n < v.length /\ i + n < max /\ ~ (i >= v.length - n)
          BY <1>0, <3>1, VtyNumbers
        <5>2. QED
          BY <1>0, <3>1, <5>1
      <4>2. QED
        BY <1>0, <4>1
    <3>2. CASE i \in v.length - n .. v.length - 1
      BY <1>0, <3>2
    <3>3. CASE i \notin v.cp .. v.length - n - 1 /\ i \notin v.length - n .. v.length - 1
      <4>1. b[i] = v.buf[i] /\ (i >= v.length <=> i >= v.length - n)
        BY <1>0, <3>3
      <4>2. QED
        BY <1>0, <4>1
    <3>4. QED
      BY <3>1, <3>2, <3>3
  <2>2. b \in [Place -> Byte \cup {NUL}]
    BY <1>0, <2>1, Zenon
  <2>3. v.length - n \in Nat /\ v.cp <= v.length - n /\ v.length - n < max
    BY <1>0, VtyNumbers
  <2> HIDE DEF b
  <2>4. QED
    BY <1>0, <2>1, <2>2, <2>3 DEF LineOf
<1>2. QED
  BY <1>1, LineCut, ZenonT(60) DEF Delete

LEMMA DeleteChar ==
    ASSUME NEW v, Sound(v)
    PROVE  Kept(v, vty_delete_char(v)) /\ Kept(v, vty_delete_backward_char(v))
<1>1. ASSUME NEW w, Sound(w) PROVE Kept(w, vty_delete_char(w))
  <2>1. w.cp \in Nat /\ w.length \in Nat /\ w.cp <= w.length
    BY <1>1 DEF Sound, LineOf
  <2>2. w.length # 0 /\ w.cp # w.length => w.cp + 1 <= w.length
    BY <2>1
  <2>3. Kept(w, [w EXCEPT !.cp = 0])
    BY <1>1, <2>1, CursorMoved
  <2>4. QED
    BY <1>1, <2>2, <2>3, Deleted DEF vty_delete_char
<1>2. QED
  BY <1>1, CursorMoves DEF vty_delete_backward_char

\* The loops over a word stop, not before they started and not beyond the line.
LEMMA StopsForward ==
    ASSUME NEW v, Sound(v), NEW a \in Nat, a <= v.length, NEW S
    PROVE  StopForward(v, a, S) \in Nat /\ a <= StopForward(v, a, S) /\ StopForward(v, a, S) <= v.length
<1> DEFINE T == {j \in a .. v.length : j = v.length \/ v.buf[j] \notin S}
<1>0. v.length \in Nat
  BY DEF Sound, LineOf
<1>1. T # {} /\ T \subseteq Nat
  <2>1. v.length \in T
    BY <1>0
  <2>2. QED
    BY <1>0, <2>1
<1>2. PICK f \in T : \A g \in T : ~ (<<g, f>> \in OpToRel(<, Nat))
  BY <1>1, NatLessThanWellFounded, WFMin, Zenon
<1>3. \A g \in T : f <= g
  <2>1. SUFFICES ASSUME NEW g \in T, ~ (f <= g) PROVE FALSE
    OBVIOUS
  <2>2. f \in Nat /\ g \in Nat
    BY <1>1
  <2>3. <<g, f>> \in OpToRel(<, Nat)
    BY <2>1, <2>2 DEF OpToRel
  <2>4. QED
    BY <1>2, <2>3
<1>4. StopForward(v, a, S) \in T
  BY <1>3, Zenon DEF Min, StopForward
<1>5. QED
  BY <1>0, <1>4

LEMMA StopsBackward ==
    ASSUME NEW v, NEW a \in Nat, NEW S
    PROVE  StopBackward(v, a, S) \in Nat /\ StopBackward(v, a, S) <= a
<1> DEFINE T == {j \in 0 .. a : j = 0 \/ v.buf[j - 1] \notin S}
           R == {n \in Nat : \E j \in T : n = a - j}
<1>1. R # {} /\ R \subseteq Nat
  <2>1. 0 \in T /\ a = a - 0
    OBVIOUS
  <2>2. a \in R
    BY <2>1
  <2>3. QED
    BY <2>2, Zenon
<1>2. PICK f \in R : \A g \in R : ~ (<<g, f>> \in OpToRel(<, Nat))
  BY <1>1, NatLessThanWellFounded, WFMin, Zenon
<1>3. PICK j \in T : f = a - j
  OBVIOUS
<1>4. \A k \in T : j >= k
  <2>1. SUFFICES ASSUME NEW k \in T, ~ (j >= k) PROVE FALSE
    OBVIOUS
  <2>2. j \in Nat /\ k \in Nat /\ k <= a /\ a - k \in Nat /\ a - k < f /\ f \in Nat
    BY <1>3, <2>1
  <2>3. a - k \in R /\ <<a - k, f>> \in OpToRel(<, Nat)
    BY <2>2 DEF OpToRel
  <2>4. QED
    BY <1>2, <2>3
<1>5. StopBackward(v, a, S) \in T
  BY <1>4, Zenon DEF Max, StopBackward
<1>6. QED
  BY <1>5

LEMMA Words ==
    ASSUME NEW v, Sound(v)
    PROVE  /\ Kept(v, vty_backward_word(v)) /\ Kept(v, vty_forward_word(v))
           /\ Kept(v, vty_forward_kill_word(v)) /\ Kept(v, vty_backward_kill_word(v))
<1>0. v.cp \in Nat /\ v.length \in Nat /\ v.cp <= v.length
  BY DEF Sound, LineOf
<1> DEFINE back == StopBackward(v, StopBackward(v, v.cp, Space), Word)
<1>1. back \in Nat /\ back <= v.cp
  <2>1. StopBackward(v, v.cp, Space) \in Nat /\ StopBackward(v, v.cp, Space) <= v.cp
    BY <1>0, StopsBackward
  <2> DEFINE x == StopBackward(v, v.cp, Space)
  <2> HIDE DEF x
  <2>2. StopBackward(v, x, Word) \in Nat /\ StopBackward(v, x, Word) <= x
    BY <2>1, StopsBackward DEF x
  <2>3. QED
    BY <1>0, <2>1, <2>2 DEF x
<1>2. \A S1, S2 : LET e == StopForward(v, StopForward(v, v.cp, S1), S2)
                  IN  e \in Nat /\ v.cp <= e /\ e <= v.length
  <2> SUFFICES ASSUME NEW S1, NEW S2
               PROVE  LET e == StopForward(v, StopForward(v, v.cp, S1), S2)
                      IN  e \in Nat /\ v.cp <= e /\ e <= v.length
    OBVIOUS
  <2> DEFINE x == StopForward(v, v.cp, S1)
             y == StopForward(v, x, S2)
  <2>1. x \in Nat /\ v.cp <= x /\ x <= v.length
    BY <1>0, StopsForward
  <2> HIDE DEF x
  <2>2. y \in Nat /\ x <= y /\ y <= v.length
    BY <2>1, StopsForward
  <2> HIDE DEF y
  <2>3. y \in Nat /\ v.cp <= y /\ y <= v.length
    BY <1>0, <2>1, <2>2
  <2>4. QED
    BY <2>3 DEF x, y
<1> HIDE DEF back
<1>3. vty_backward_word(v) = [v EXCEPT !.cp = back]
  BY DEF vty_backward_word, back
<1>4. Kept(v, vty_backward_word(v))
  BY <1>0, <1>1, <1>3, CursorMoved
<1>5. Kept(v, vty_forward_word(v))
  BY <1>0, <1>2, CursorMoved DEF vty_forward_word
<1>6. Kept(v, vty_forward_kill_word(v))
  <2> DEFINE e == StopForward(v, StopForward(v, v.cp, Space), Word)
  <2>1. e \in Nat /\ v.cp <= e /\ e <= v.length
    BY <1>2
  <2> HIDE DEF e
  <2>2. e - v.cp \in Nat /\ v.cp + (e - v.cp) <= v.length
    BY <1>0, <2>1
  <2>3. Kept(v, Delete(v, e - v.cp))
    BY <2>2, Deleted
  <2>4. QED
    BY <2>3 DEF e, vty_forward_kill_word
<1>7. Kept(v, vty_backward_kill_word(v))
  <2> DEFINE w == vty_backward_word(v)
  <2>1. w.cp = back /\ w.length = v.length
    BY <1>3 DEF Sound, Session
  <2>2. v.cp - w.cp \in Nat /\ w.cp + (v.cp - w.cp) <= w.length
    BY <1>0, <1>1, <2>1
  <2> HIDE DEF w
  <2>3. Kept(w, Delete(w, v.cp - w.cp))
    BY <1>4, <2>2, Deleted DEF w
  <2>4. QED
    BY <1>4, <2>3 DEF w, vty_backward_kill_word
<1>8. QED
  BY <1>4, <1>5, <1>6, <1>7

LEMMA SelfInsert ==
    ASSUME NEW v, Sound(v), NEW c \in Byte
    PROVE  Kept(v, vty_self_insert(v, c))
<1> DEFINE b == [i \in DOMAIN v.buf |->
                   IF i \in {v.length + 1, max - 1} THEN NUL
                   ELSE IF i = v.cp THEN c
                   ELSE IF i \in v.cp + 1 .. v.length THEN v.buf[i - 1] ELSE v.buf[i]]
<1>0. /\ v.cp \in Nat /\ v.length \in Nat /\ v.cp <= v.length /\ v.length < max /\ DOMAIN v.buf = Place
      /\ \A i \in Place : v.buf[i] \in Byte \cup {NUL} /\ (v.buf[i] = NUL <=> i >= v.length)
      /\ \A i \in Place : i \in Int /\ 0 <= i /\ i < max
      /\ \A i \in Nat : i < max => i \in Place
  BY VtyNumbers DEF Sound, LineOf, Place
<1>1. ASSUME HasRoom(v) PROVE LineOf(b, v.cp + 1, v.length + 1)
  <2>1. v.length + 1 < max /\ max \in Nat /\ c # NUL
    BY <1>1, VtyNumbers, ZenonT(60) DEF HasRoom
  <2>2. \A i \in Place : b[i] \in Byte \cup {NUL} /\ (b[i] = NUL <=> i >= v.length + 1)
    <3> SUFFICES ASSUME NEW i \in Place
                 PROVE  b[i] \in Byte \cup {NUL} /\ (b[i] = NUL <=> i >= v.length + 1)
      OBVIOUS
    <3>1. CASE i \in {v.length + 1, max - 1}
      BY <1>0, <2>1, <3>1
    <3>2. CASE i \notin {v.length + 1, max - 1} /\ i = v.cp
      BY <1>0, <2>1, <3>2
    <3>3. CASE i \notin {v.length + 1, max - 1} /\ i # v.cp /\ i \in v.cp + 1 .. v.length
      <4>1. i - 1 \in Nat /\ i - 1 < v.length /\ i - 1 < max /\ ~ (i >= v.length + 1)
        BY <1>0, <2>1, <3>3
      <4>2. b[i] = v.buf[i - 1]
        BY <1>0, <3>3
      <4>3. QED
        BY <1>0, <4>1, <4>2
    <3>4. CASE i \notin {v.length + 1, max - 1} /\ i # v.cp /\ i \notin v.cp + 1 .. v.length
      <4>1. b[i] = v.buf[i] /\ (i >= v.length <=> i >= v.length + 1)
        BY <1>0, <3>4
      <4>2. QED
        BY <1>0, <4>1
    <3>5. QED
      BY <3>1, <3>2, <3>3, <3>4
  <2>3. b \in [Place -> Byte \cup {NUL}]
    BY <1>0, <2>2, Zenon
  <2> HIDE DEF b
  <2>4. QED
    BY <1>0, <2>1, <2>2, <2>3 DEF LineOf
<1>2. vty_self_insert(v, c) = IF HasRoom(v) THEN [v EXCEPT !.buf = b, !.length = v.length + 1, !.cp = v.cp + 1]
                              ELSE v
  BY DEF vty_self_insert
<1> HIDE DEF b
<1>3. HasRoom(v) => Kept(v, [v EXCEPT !.buf = b, !.length = v.length + 1, !.cp = v.cp + 1])
  BY <1>1, Zenon DEF Sound, Session, LineOf
<1>4. QED
  BY <1>2, <1>3

LEMMA TransposeChars ==
    ASSUME NEW v, Sound(v)
    PROVE  Kept(v, vty_transpose_chars(v))
<1>0. /\ v.cp \in Nat /\ v.length \in Nat /\ v.cp <= v.length /\ v.length < max
      /\ v.buf \in [Place -> Byte \cup {NUL}]
      /\ \A i \in Place : v.buf[i] = NUL <=> i >= v.length
      /\ \A i \in Place : i \in Int /\ 0 <= i /\ i < max
      /\ \A i \in Nat : i < max => i \in Place
  BY VtyNumbers DEF Sound, LineOf, Place
<1>1. ASSUME ~ (v.length < 2 \/ v.cp < 1) PROVE Kept(v, vty_transpose_chars(v))
  <2> DEFINE a == IF v.cp = v.length THEN v.cp - 2 ELSE v.cp - 1
             b == [[[v.buf EXCEPT ![a] = v.buf[a + 1]] EXCEPT ![a + 1] = v.buf[a]] EXCEPT ![max - 1] = NUL]
  <2>1. a \in Nat /\ a + 1 < v.length /\ a + 2 <= v.length
    BY <1>0, <1>1
  <2>2. vty_transpose_chars(v) = [v EXCEPT !.buf = b, !.cp = a + 2]
    BY <1>1, ZenonT(60) DEF vty_transpose_chars, Sound, Session
  <2> HIDE DEF a
  <2>3. a \in Place /\ a + 1 \in Place /\ max - 1 \in Place /\ a # a + 1 /\ max - 1 >= v.length
        /\ a + 1 # max - 1 /\ a # max - 1 /\ v.buf[max - 1] = NUL
    BY <1>0, <2>1, VtyNumbers
  <2>4. \A i \in Place : b[i] \in Byte \cup {NUL} /\ (b[i] = NUL <=> i >= v.length)
    BY <1>0, <2>1, <2>3
  <2>5. b \in [Place -> Byte \cup {NUL}]
    BY <1>0, <2>3, VtyNumbers
  <2> HIDE DEF b
  <2>6. LineOf(b, a + 2, v.length)
    BY <1>0, <2>1, <2>4, <2>5 DEF LineOf
  <2>7. Kept(v, [v EXCEPT !.buf = b, !.cp = a + 2])
    BY <2>6, Zenon DEF Sound, Session, LineOf
  <2>8. QED
    BY <2>2, <2>7
<1>2. QED
  BY <1>1 DEF vty_transpose_chars
------------------------------------------------------------------------------
LEMMA RingPlaces ==
    ASSUME NEW h \in Ring
    PROVE  Before(h) \in Ring /\ After(h) \in Ring
BY VtyNumbers DEF Ring, Before, After

LEMMA HistoryPrinted ==
    ASSUME NEW v, Sound(v)
    PROVE  Kept(v, vty_history_print(v))
<1> DEFINE line == v.hist[v.hp]
           w == vty_kill_line_from_beginning(v)
           b == [i \in DOMAIN w.buf |-> IF i < Len(line) THEN line[i + 1]
                                         ELSE IF i = Len(line) THEN NUL ELSE w.buf[i]]
<1>1. Kept(v, w) /\ w.length = 0
  BY KillFromBeginning
<1> HIDE DEF w
<1>2. line \in Seq(Byte) /\ Len(line) < max /\ Len(line) \in Nat
  BY DEF Sound, Session
<1> HIDE DEF line
<1>3. DOMAIN w.buf = Place /\ \A i \in Place : w.buf[i] = NUL /\ i \in Nat /\ i < max
  BY <1>1, VtyNumbers DEF Sound, LineOf, Place
<1>4. \A i \in Place : b[i] \in Byte \cup {NUL} /\ (b[i] = NUL <=> i >= Len(line))
  <2> SUFFICES ASSUME NEW i \in Place PROVE b[i] \in Byte \cup {NUL} /\ (b[i] = NUL <=> i >= Len(line))
    OBVIOUS
  <2>1. CASE i < Len(line)
    <3>1. i + 1 \in 1 .. Len(line) /\ b[i] = line[i + 1] /\ ~ (i >= Len(line))
      BY <1>2, <1>3, <2>1
    <3>2. line[i + 1] \in Byte
      BY <1>2, <3>1
    <3>3. QED
      BY <3>1, <3>2, VtyNumbers
  <2>2. CASE ~ (i < Len(line))
    BY <1>2, <1>3, <2>2
  <2>3. QED
    BY <2>1, <2>2
<1>5. b \in [Place -> Byte \cup {NUL}]
  BY <1>3, <1>4, Zenon
<1>6. vty_history_print(v) = [w EXCEPT !.buf = b, !.cp = Len(line), !.length = Len(line)]
  BY DEF vty_history_print, w, line
<1> HIDE DEF b
<1>7. LineOf(b, Len(line), Len(line))
  BY <1>2, <1>4, <1>5 DEF LineOf
<1>8. Kept(w, [w EXCEPT !.buf = b, !.cp = Len(line), !.length = Len(line)])
  BY <1>1, <1>7, ZenonT(60) DEF Sound, Session, LineOf
<1>9. QED
  BY <1>1, <1>6, <1>8, Zenon

LEMMA HistoryLines ==
    ASSUME NEW v, Sound(v)
    PROVE  Kept(v, vty_previous_line(v)) /\ Kept(v, vty_next_line(v))
<1>1. ASSUME NEW h \in Ring PROVE Kept(v, vty_history_print([v EXCEPT !.hp = h]))
  <2> DEFINE w == [v EXCEPT !.hp = h]
  <2>1. Kept(v, w)
    BY <1>1, Zenon DEF Sound, Session, LineOf
  <2> HIDE DEF w
  <2>2. Kept(w, vty_history_print(w))
    BY <2>1, HistoryPrinted
  <2>3. QED
    BY <2>1, <2>2 DEF w
<1>2. v.hp \in Ring /\ Before(v.hp) \in Ring /\ After(v.hp) \in Ring
  BY RingPlaces DEF Sound, Session
<1>3. Kept(v, vty_previous_line(v))
  BY <1>1, <1>2 DEF vty_previous_line
<1>4. Kept(v, vty_next_line(v))
  BY <1>1, <1>2 DEF vty_next_line
<1>5. QED
  BY <1>3, <1>4

\* strdup of the buffer: a sequence of bytes that is empty only when the line is.
LEMMA TextIsLine ==
    ASSUME NEW v, Sound(v)
    PROVE  Text(v) \in Seq(Byte) /\ Len(Text(v)) = v.length /\ (v.length > 0 => Text(v) # <<>>)
<1>1. v.length \in Nat /\ v.length < max /\ \A n \in 1 .. v.length : v.buf[n - 1] \in Byte
  <2>1. v.length \in Nat /\ v.length < max
    BY DEF Sound, LineOf
  <2>2. ASSUME NEW n \in 1 .. v.length PROVE v.buf[n - 1] \in Byte
    <3>1. n - 1 \in Place /\ ~ (n - 1 >= v.length)
      BY <2>1, VtyNumbers DEF Place
    <3>2. QED
      BY <3>1 DEF Sound, LineOf
  <2>3. QED
    BY <2>1, <2>2
<1>2. QED
  BY <1>1 DEF Text

\* The history and the place in it, after a line was executed.
LEMMA Executed ==
    ASSUME NEW v, Sound(v)
    PROVE  /\ Sound(vty_execute(v))
           /\ vty_execute(v).hist = vty_hist_add(v).hist /\ vty_execute(v).hindex = vty_hist_add(v).hindex
<1>0. v.hindex \in Ring /\ After(v.hindex) \in Ring
  BY RingPlaces DEF Sound, Session
<1>1. Sound(vty_hist_add(v))
  <2>1. Kept(v, [v EXCEPT !.hp = v.hindex])
    BY <1>0, Zenon DEF Sound, Session, LineOf
  <2>2. Sound([v EXCEPT !.hist[v.hindex] = Text(v), !.hindex = After(@), !.hp = After(v.hindex)])
    BY <1>0, TextIsLine, Zenon DEF Sound, Session, LineOf
  <2>3. QED
    BY <2>1, <2>2 DEF vty_hist_add
<1> DEFINE w == vty_hist_add(v)
           b == [i \in DOMAIN w.buf |-> NUL]
<1> HIDE DEF w
<1>2. Sound(w)
  BY <1>1 DEF w
<1>3. LineOf(b, 0, 0)
  BY <1>2, VtyNumbers DEF Sound, LineOf, Place
<1>4. vty_execute(v) = [w EXCEPT !.cp = 0, !.length = 0, !.buf = b]
  BY DEF vty_execute, w
<1> HIDE DEF b
<1>5. Sound([w EXCEPT !.cp = 0, !.length = 0, !.buf = b])
  BY <1>2, <1>3, Zenon DEF Sound, Session, LineOf
<1>6. QED
  BY <1>2, <1>4, <1>5, Zenon DEF w, Sound, Session
------------------------------------------------------------------------------
\* A turn of vty_read keeps the session sound; only an executed line changes the history.
LEMMA Bookkeeping ==
    ASSUME NEW v, Sound(v)
    PROVE  /\ \A x \in BOOLEAN : Kept(v, [v EXCEPT !.iac = x])
           /\ \A e \in {"NORMAL", "PRE_ESCAPE", "ESCAPE", "LITERAL"} : Kept(v, [v EXCEPT !.escape = e])
BY Zenon DEF Sound, Session

LEMMA Escaped ==
    ASSUME NEW v, Sound(v), NEW c \in Byte
    PROVE  /\ Kept(v, [vty_escape_map(v, c) EXCEPT !.escape = "NORMAL"])
           /\ Kept(v, [vty_self_insert(v, c) EXCEPT !.escape = "NORMAL"])
           /\ Kept(v, PreEscape(v, c))
<1>1. ASSUME NEW w, Kept(v, w), NEW e \in {"NORMAL", "ESCAPE"} PROVE Kept(v, [w EXCEPT !.escape = e])
  <2>1. Sound(w) /\ e \in {"NORMAL", "PRE_ESCAPE", "ESCAPE", "LITERAL"}
    BY <1>1
  <2>2. Kept(w, [w EXCEPT !.escape = e])
    BY <2>1, Bookkeeping, Zenon
  <2>3. QED
    BY <1>1, <2>2
<1>2. Kept(v, vty_escape_map(v, c))
  BY HistoryLines, CursorMoves DEF vty_escape_map
<1>3. Kept(v, vty_self_insert(v, c))
  BY SelfInsert
<1>4. Kept(v, PreEscape(v, c))
  BY <1>1, Words, Zenon DEF PreEscape
<1>5. QED
  BY <1>1, <1>2, <1>3, <1>4, Zenon

LEMMA PlainKept ==
    ASSUME NEW v, Sound(v), NEW c \in Byte
    PROVE  IF c = "CR" THEN Plain(v, c) = vty_execute(v) ELSE Kept(v, Plain(v, c))
<1>1. c = "CR" => Plain(v, c) = vty_execute(v)
  BY DEF Plain
<1>2. ASSUME c # "CR" PROVE Kept(v, Plain(v, c))
  BY <1>2, CursorMoves, KillLine, KillFromBeginning, DeleteChar, HistoryLines, TransposeChars, Words, SelfInsert,
     Bookkeeping, ZenonT(60) DEF Plain
<1>3. QED
  BY <1>1, <1>2

LEMMA TelnetKept ==
    ASSUME NEW v, Sound(v), NEW c \in Byte
    PROVE  /\ Kept(v, vty_telnet_option(v, c).v)
           /\ Kept(v, Collect(v, c))
<1>0. /\ v.sb_len \in Nat /\ v.sb_buf \in [0 .. TELNET_NAWS_SB_LEN - 1 -> Byte \cup {NUL}]
      /\ v.window \in Byte \cup {NUL} /\ v.sb \in BOOLEAN
  BY DEF Sound, Session
<1>1. Kept(v, Collect(v, c))
  <2> DEFINE b == IF v.sb_len < TELNET_NAWS_SB_LEN THEN [v.sb_buf EXCEPT ![v.sb_len] = c] ELSE v.sb_buf
             n == IF v.sb_len > TELNET_NAWS_SB_LEN THEN v.sb_len ELSE v.sb_len + 1
  <2>1. b \in [0 .. TELNET_NAWS_SB_LEN - 1 -> Byte \cup {NUL}] /\ n \in Nat
    BY <1>0, VtyNumbers
  <2>2. Collect(v, c) = [v EXCEPT !.sb_buf = b, !.sb_len = n]
    BY DEF Collect
  <2> HIDE DEF b, n
  <2>3. QED
    BY <2>1, <2>2, Zenon DEF Sound, Session
<1>2. Kept(v, vty_telnet_option(v, c).v)
  <2>1. v.sb_buf[TELNET_NAWS_SB_LEN - 1] \in Byte \cup {NUL}
    BY <1>0, VtyNumbers
  <2>2. CASE c = "SB"
    <3>1. vty_telnet_option(v, c).v = [v EXCEPT !.sb_len = 0, !.sb = TRUE]
      BY <2>2 DEF vty_telnet_option
    <3>2. Kept(v, [v EXCEPT !.sb_len = 0, !.sb = TRUE])
      BY ZenonT(60) DEF Sound, Session
    <3>3. QED
      BY <3>1, <3>2
  <2>3. CASE c = "SE"
    <3>1. \E x \in Byte \cup {NUL} : vty_telnet_option(v, c).v = [v EXCEPT !.sb = FALSE, !.window = x]
      BY <1>0, <2>1, <2>3, Zenon DEF vty_telnet_option
    <3>2. PICK x \in Byte \cup {NUL} : vty_telnet_option(v, c).v = [v EXCEPT !.sb = FALSE, !.window = x]
      BY <3>1, Zenon
    <3>3. Kept(v, [v EXCEPT !.sb = FALSE, !.window = x])
      BY Zenon DEF Sound, Session
    <3>4. QED
      BY <3>2, <3>3
  <2>4. CASE c \notin {"SB", "SE"}
    BY <2>4 DEF vty_telnet_option
  <2>5. QED
    BY <2>2, <2>3, <2>4
<1>3. QED
  BY <1>1, <1>2

LEMMA TurnSound ==
    ASSUME NEW v, Sound(v), NEW s, Head(s) \in Byte
    PROVE  /\ Turn(v, s).n \in {1, 2}
           /\ IF Executes(v, Head(s)) THEN Turn(v, s).v = vty_execute(v) ELSE Kept(v, Turn(v, s).v)
<1> DEFINE c == Head(s)
           u == [v EXCEPT !.iac = FALSE]
<1> HIDE DEF c
<1>c. c \in Byte /\ c = Head(s)
  BY DEF c
<1>u. Kept(v, u) /\ (~ v.iac => u = v) /\ u.sb = v.sb /\ u.escape = v.escape
  <2>1. Kept(v, u)
    BY Bookkeeping, Zenon
  <2>2. QED
    BY <2>1, Zenon DEF Sound, Session
<1>n. v.sb \in BOOLEAN /\ v.iac \in BOOLEAN /\ v.escape \in {"NORMAL", "PRE_ESCAPE", "ESCAPE", "LITERAL"}
  BY DEF Sound, Session
<1> HIDE DEF u
<1>e. /\ \A w : Kept(u, w) => Kept(v, w)
      /\ Sound(u)
  BY <1>u
<1>k. /\ Kept(v, [vty_escape_map(u, c) EXCEPT !.escape = "NORMAL"])
      /\ Kept(v, [vty_self_insert(u, c) EXCEPT !.escape = "NORMAL"])
      /\ Kept(v, PreEscape(u, c))
  <2>1. /\ Kept(u, [vty_escape_map(u, c) EXCEPT !.escape = "NORMAL"])
        /\ Kept(u, [vty_self_insert(u, c) EXCEPT !.escape = "NORMAL"])
        /\ Kept(u, PreEscape(u, c))
    BY <1>c, <1>e, Escaped, Zenon
  <2>2. QED
    BY <1>e, <2>1, Zenon
<1>g. ASSUME NEW w, Kept(v, w), ~ Executes(v, c), NEW n \in {1, 2}, Turn(v, s) = [v |-> w, n |-> n]
      PROVE  Turn(v, s).n \in {1, 2} /\ ~ Executes(v, Head(s)) /\ Kept(v, Turn(v, s).v)
  BY <1>g, <1>c
<1>1. CASE c = "IAC" /\ ~ v.iac
  <2>1. Turn(v, s) = [v |-> [v EXCEPT !.iac = TRUE], n |-> 1]
    BY <1>1 DEF Turn, c
  <2>2. Kept(v, [v EXCEPT !.iac = TRUE])
    BY Bookkeeping, Zenon
  <2>3. ~ Executes(v, c)
    BY <1>1 DEF Executes
  <2>4. QED
    BY <1>g, <2>1, <2>2, <2>3, Zenon
<1>2. CASE ~ (c = "IAC" /\ ~ v.iac) /\ v.sb /\ (c = "IAC" \/ ~ v.iac)
  <2>1. Turn(v, s) = [v |-> Collect(u, c), n |-> 1]
    BY <1>2 DEF Turn, c, u
  <2>2. QED
    BY <1>2, <2>1, <1>c, <1>e, TelnetKept DEF Executes
<1>3. CASE v.iac /\ c # "IAC"
  <2>1. Turn(v, s) = vty_telnet_option(u, c)
    BY <1>3 DEF Turn, c, u
  <2>2. vty_telnet_option(u, c).n \in {1, 2}
    BY DEF vty_telnet_option
  <2>3. QED
    BY <1>3, <2>1, <2>2, <1>c, <1>e, TelnetKept DEF Executes
<1> DEFINE through == ~ (c = "IAC" /\ ~ v.iac) /\ ~ (v.sb /\ (c = "IAC" \/ ~ v.iac)) /\ ~ (v.iac /\ c # "IAC")
<1>4. CASE through /\ v.escape = "ESCAPE"
  <2>1. Turn(v, s) = [v |-> [vty_escape_map(u, c) EXCEPT !.escape = "NORMAL"], n |-> 1]
    BY <1>4 DEF Turn, c, u
  <2>2. Kept(v, [vty_escape_map(u, c) EXCEPT !.escape = "NORMAL"])
    BY <1>k
  <2>3. ~ Executes(v, c)
    BY <1>4 DEF Executes
  <2>4. QED
    BY <1>g, <2>1, <2>2, <2>3, Zenon
<1>5. CASE through /\ v.escape = "LITERAL"
  <2>1. Turn(v, s) = [v |-> [vty_self_insert(u, c) EXCEPT !.escape = "NORMAL"], n |-> 1]
    BY <1>5 DEF Turn, c, u
  <2>2. Kept(v, [vty_self_insert(u, c) EXCEPT !.escape = "NORMAL"])
    BY <1>k
  <2>3. ~ Executes(v, c)
    BY <1>5 DEF Executes
  <2>4. QED
    BY <1>g, <2>1, <2>2, <2>3, Zenon
<1>6. CASE through /\ v.escape = "PRE_ESCAPE"
  <2>1. Turn(v, s) = [v |-> PreEscape(u, c), n |-> 1]
    BY <1>6 DEF Turn, c, u
  <2>2. Kept(v, PreEscape(u, c))
    BY <1>k
  <2>3. ~ Executes(v, c)
    BY <1>6 DEF Executes
  <2>4. QED
    BY <1>g, <2>1, <2>2, <2>3, Zenon
<1>7. CASE through /\ v.escape = "NORMAL" /\ c = "ESC"
  <2>1. \/ Turn(v, s) = [v |-> [u EXCEPT !.escape = "ESCAPE"], n |-> 2]
        \/ Turn(v, s) = [v |-> [u EXCEPT !.escape = "PRE_ESCAPE"], n |-> 1]
    BY <1>7 DEF Turn, c, u
  <2>2. Kept(u, [u EXCEPT !.escape = "ESCAPE"]) /\ Kept(u, [u EXCEPT !.escape = "PRE_ESCAPE"])
    BY <1>e, Bookkeeping, Zenon
  <2>3. ~ Executes(v, c)
    BY <1>7 DEF Executes
  <2>4. Kept(v, [u EXCEPT !.escape = "ESCAPE"]) /\ Kept(v, [u EXCEPT !.escape = "PRE_ESCAPE"])
    BY <1>e, <2>2
  <2>5. QED
    BY <1>g, <2>1, <2>3, <2>4, Zenon
<1>8. CASE through /\ v.escape = "NORMAL" /\ c # "ESC"
  <2>1. Turn(v, s) = [v |-> Plain(u, c), n |-> 1]
    BY <1>8 DEF Turn, c, u
  <2>2. c = "CR" => Executes(v, c) /\ u = v
    BY <1>8, <1>n, <1>u DEF Executes
  <2>3. QED
    BY <2>1, <2>2, <1>c, <1>e, PlainKept DEF Executes
<1>9. QED
  BY <1>1, <1>2, <1>3, <1>4, <1>5, <1>6, <1>7, <1>8, <1>n, ZenonT(60)
------------------------------------------------------------------------------
\* A turn on several bytes does what the turns on its bytes do one by one.
LEMMA OneByOne ==
    ASSUME NEW v, Sound(v), NEW s \in Seq(Byte), s # <<>>, Turn(v, s).n <= Len(s)
    PROVE  Turn(v, s).v = IF Turn(v, s).n > 1 /\ Len(s) > 1 THEN ByteTurn(ByteTurn(v, s[1]), s[2])
                          ELSE ByteTurn(v, s[1])
<1> DEFINE t == Turn(v, s)
           o == Turn(v, <<s[1]>>)
<1>1. Len(s) \in Nat /\ Len(s) >= 1 /\ Head(s) = s[1] /\ s[1] \in Byte
  BY EmptySeq, HeadTailProperties
<1>2. v.option = FALSE /\ Head(<<s[1]>>) = s[1] /\ Len(<<s[1]>>) = 1
  BY DEF Sound
<1>3. t.n \in {1, 2} /\ Sound(t.v)
  BY <1>1, TurnSound, Executed
<1>4. CASE ~ (s[1] = "ESC" /\ ~ v.iac /\ ~ v.sb /\ v.escape = "NORMAL" /\ t.n = 2)
  <2>1. o = t
    BY <1>1, <1>2, <1>4 DEF Turn, Sound, Session
  <2>2. ByteTurn(v, s[1]) = [t.v EXCEPT !.option = (t.n = 2)]
    BY <1>2, <2>1 DEF ByteTurn
  <2>3. CASE t.n = 1
    <3>0. (t.n = 2) = FALSE
      BY <2>3
    <3>1. ByteTurn(v, s[1]) = [t.v EXCEPT !.option = FALSE]
      BY <2>2, <3>0, Zenon
    <3>2. [t.v EXCEPT !.option = FALSE] = t.v
      <4> HIDE DEF t
      <4>1. QED
        BY <1>3, Zenon DEF Sound, Session
    <3>3. QED
      BY <2>3, <3>1, <3>2
  <2>4. CASE t.n = 2
    <3>1. ByteTurn(v, s[1]) = [t.v EXCEPT !.option = TRUE]
      BY <2>2, <2>4, Zenon
    <3>2. ByteTurn([t.v EXCEPT !.option = TRUE], s[2]) = t.v
      BY <1>3, ZenonT(60) DEF ByteTurn, Sound, Session
    <3>3. QED
      BY <1>1, <2>4, <3>1, <3>2
  <2>5. QED
    BY <1>3, <2>3, <2>4
<1>5. CASE s[1] = "ESC" /\ ~ v.iac /\ ~ v.sb /\ v.escape = "NORMAL" /\ t.n = 2
  <2> DEFINE w == [v EXCEPT !.escape = "PRE_ESCAPE"]
             x == [v EXCEPT !.escape = "ESCAPE"]
  <2>0. v = [v EXCEPT !.iac = FALSE] /\ w = [w EXCEPT !.iac = FALSE] /\ w = [w EXCEPT !.option = FALSE]
    BY <1>2, <1>5, Zenon DEF Sound, Session
  <2>1. \A r : Head(r) = "ESC" =>
           Turn(v, r) = IF Len(r) > 1 /\ r[2] = "[" THEN [v |-> x, n |-> 2] ELSE [v |-> w, n |-> 1]
    <3> SUFFICES ASSUME NEW r, Head(r) = "ESC"
                 PROVE  Turn(v, r) = IF Len(r) > 1 /\ r[2] = "[" THEN [v |-> x, n |-> 2] ELSE [v |-> w, n |-> 1]
      OBVIOUS
    <3> DEFINE u == [v EXCEPT !.iac = FALSE]
    <3>1. Turn(v, r) = IF Len(r) > 1 /\ r[2] = "[" THEN [v |-> [u EXCEPT !.escape = "ESCAPE"], n |-> 2]
                       ELSE [v |-> [u EXCEPT !.escape = "PRE_ESCAPE"], n |-> 1]
      <4> HIDE DEF u
      <4>1. QED
        BY <1>5 DEF Turn, u
    <3>2. u = v
      BY <2>0
    <3> HIDE DEF u
    <3>3. QED
      BY <3>1, <3>2
  <2>4. w.option = FALSE /\ w.iac = FALSE /\ w.sb = FALSE /\ w.escape = "PRE_ESCAPE"
    BY <1>2, <1>5 DEF Sound, Session
  <2>5. [w EXCEPT !.escape = "ESCAPE"] = x /\ [x EXCEPT !.option = FALSE] = x
    BY <1>2, Zenon DEF Sound, Session
  <2> HIDE DEF w, x
  <2>2. s[2] = "[" /\ Len(s) > 1 /\ t = [v |-> x, n |-> 2]
    BY <1>1, <1>5, <2>1
  <2>3. ByteTurn(v, s[1]) = w
    <3>1. o = [v |-> w, n |-> 1]
      BY <1>2, <1>5, <2>1
    <3>2. ByteTurn(v, s[1]) = [o.v EXCEPT !.option = (o.n = 2)]
      BY <1>2 DEF ByteTurn
    <3>3. o.v = w /\ (o.n = 2) = FALSE
      BY <3>1
    <3>4. QED
      BY <2>0, <3>2, <3>3, Zenon
  <2>6. Turn(w, <<"[">>) = [v |-> PreEscape(w, "["), n |-> 1]
    <3> DEFINE u == [w EXCEPT !.iac = FALSE]
    <3>1. Turn(w, <<"[">>) = [v |-> PreEscape(u, "["), n |-> 1]
      <4> HIDE DEF u
      <4>1. Head(<<"[">>) = "["
        OBVIOUS
      <4>2. QED
        BY <2>4, <4>1 DEF Turn, u
    <3>2. QED
      BY <2>0, <3>1, Zenon
  <2>7. PreEscape(w, "[") = x
    BY <2>5 DEF PreEscape
  <2>8. ByteTurn(w, "[") = x
    <3> DEFINE q == Turn(w, <<"[">>)
    <3>1. ByteTurn(w, "[") = [q.v EXCEPT !.option = (q.n = 2)]
      BY <2>4 DEF ByteTurn
    <3>2. q.v = x /\ (q.n = 2) = FALSE
      BY <2>6, <2>7
    <3>3. QED
      BY <2>5, <3>1, <3>2, Zenon
  <2>9. t.v = x
    BY <2>2
  <2>10. QED
    BY <1>5, <2>2, <2>3, <2>8, <2>9
<1>6. QED
  BY <1>4, <1>5
------------------------------------------------------------------------------
\* The ring hist with next place h holds the lines lg, newest before h.
RingHolds(hist, h, lg) ==
    \A j \in Ring : hist[(h - 1 - j) % VTY_HIST_CMD_SIZE] = IF j < Len(lg) THEN lg[Len(lg) - j] ELSE <<>>

LEMMA Around ==
    ASSUME NEW h \in Ring, NEW j \in Ring
    PROVE  /\ (h - 1 - j) % VTY_HIST_CMD_SIZE \in Ring
           /\ (h - 1 - j) % VTY_HIST_CMD_SIZE = IF j < h THEN h - 1 - j ELSE h - 1 - j + VTY_HIST_CMD_SIZE
<1>1. VTY_HIST_CMD_SIZE \in Nat /\ VTY_HIST_CMD_SIZE > 0 /\ h \in Nat /\ j \in Nat
      /\ h < VTY_HIST_CMD_SIZE /\ j < VTY_HIST_CMD_SIZE
  BY VtyNumbers DEF Ring
<1>2. CASE j < h
  BY <1>1, <1>2 DEF Ring
<1>3. CASE ~ (j < h)
  BY <1>1, <1>3 DEF Ring
<1>4. QED
  BY <1>2, <1>3

LEMMA RingStepped ==
    ASSUME NEW h \in Ring
    PROVE  /\ Before(h) = (h - 1 - 0) % VTY_HIST_CMD_SIZE /\ 0 \in Ring
           /\ (After(h) - 1 - 0) % VTY_HIST_CMD_SIZE = h
           /\ \A j \in Ring : j > 0 => /\ j - 1 \in Ring
                                       /\ (After(h) - 1 - j) % VTY_HIST_CMD_SIZE = (h - 1 - (j - 1)) % VTY_HIST_CMD_SIZE
                                       /\ (After(h) - 1 - j) % VTY_HIST_CMD_SIZE # h
<1>1. /\ VTY_HIST_CMD_SIZE \in Nat /\ VTY_HIST_CMD_SIZE > 0 /\ h \in Nat /\ h < VTY_HIST_CMD_SIZE
      /\ 0 \in Ring /\ After(h) \in Ring
  BY VtyNumbers, RingPlaces DEF Ring
<1>2. Before(h) = (h - 1 - 0) % VTY_HIST_CMD_SIZE
  <2>1. (h - 1 - 0) % VTY_HIST_CMD_SIZE = IF 0 < h THEN h - 1 - 0 ELSE h - 1 - 0 + VTY_HIST_CMD_SIZE
    BY <1>1, Around
  <2>2. QED
    BY <1>1, <2>1 DEF Before
<1>3. (After(h) - 1 - 0) % VTY_HIST_CMD_SIZE = h
  <2>1. (After(h) - 1 - 0) % VTY_HIST_CMD_SIZE
           = IF 0 < After(h) THEN After(h) - 1 - 0 ELSE After(h) - 1 - 0 + VTY_HIST_CMD_SIZE
    BY <1>1, Around, Zenon
  <2>2. QED
    BY <1>1, <2>1 DEF After
<1>4. ASSUME NEW j \in Ring, j > 0
      PROVE  /\ j - 1 \in Ring
             /\ (After(h) - 1 - j) % VTY_HIST_CMD_SIZE = (h - 1 - (j - 1)) % VTY_HIST_CMD_SIZE
             /\ (After(h) - 1 - j) % VTY_HIST_CMD_SIZE # h
  <2>1. j - 1 \in Ring /\ j \in Nat /\ j < VTY_HIST_CMD_SIZE
    BY <1>1, <1>4 DEF Ring
  <2>2. (After(h) - 1 - j) % VTY_HIST_CMD_SIZE
           = IF j < After(h) THEN After(h) - 1 - j ELSE After(h) - 1 - j + VTY_HIST_CMD_SIZE
    BY <1>1, Around, Zenon
  <2>3. (h - 1 - (j - 1)) % VTY_HIST_CMD_SIZE
           = IF j - 1 < h THEN h - 1 - (j - 1) ELSE h - 1 - (j - 1) + VTY_HIST_CMD_SIZE
    BY <2>1, Around
  <2>4. After(h) = IF h = VTY_HIST_CMD_SIZE - 1 THEN 0 ELSE h + 1
    BY DEF After
  <2> DEFINE a == (After(h) - 1 - j) % VTY_HIST_CMD_SIZE
             b == (h - 1 - (j - 1)) % VTY_HIST_CMD_SIZE
  <2> HIDE DEF a, b
  <2>5. a = IF j < After(h) THEN After(h) - 1 - j ELSE After(h) - 1 - j + VTY_HIST_CMD_SIZE
    BY <2>2 DEF a
  <2>6. b = IF j - 1 < h THEN h - 1 - (j - 1) ELSE h - 1 - (j - 1) + VTY_HIST_CMD_SIZE
    BY <2>3 DEF b
  <2>7. a = b /\ a # h
    BY <1>1, <1>4, <2>1, <2>4, <2>5, <2>6
  <2>8. QED
    BY <2>1, <2>7 DEF a, b
<1>5. QED
  BY <1>1, <1>2, <1>3, <1>4

\* vty_hist_add: the ring goes on holding the lines executed.
LEMMA HistoryStep ==
    ASSUME NEW v, Sound(v), NEW lg \in Seq(Seq(Byte) \ {<<>>}), RingHolds(v.hist, v.hindex, lg),
           NEW m, m = IF v.length > 0 /\ (lg = <<>> \/ lg[Len(lg)] # Text(v)) THEN Append(lg, Text(v)) ELSE lg
    PROVE  m \in Seq(Seq(Byte) \ {<<>>}) /\ RingHolds(vty_hist_add(v).hist, vty_hist_add(v).hindex, m)
<1> DEFINE w == vty_hist_add(v)
<1>1. /\ v.hindex \in Ring /\ v.hist \in [Ring -> Seq(Byte)] /\ v.length \in Nat /\ Len(lg) \in Nat
      /\ Text(v) \in Seq(Byte) /\ (v.length > 0 => Text(v) # <<>>)
  <2>1. v.hindex \in Ring /\ v.hist \in [Ring -> Seq(Byte)] /\ v.length \in Nat /\ Len(lg) \in Nat
    BY DEF Sound, Session
  <2>2. QED
    BY <2>1, TextIsLine
<1>2. m \in Seq(Seq(Byte) \ {<<>>})
  BY <1>1
<1>3. v.length > 0 => (IsRepeated(v) <=> lg # <<>> /\ lg[Len(lg)] = Text(v))
  <2>1. v.hist[Before(v.hindex)] = IF 0 < Len(lg) THEN lg[Len(lg) - 0] ELSE <<>>
    BY <1>1, RingStepped, ZenonT(60) DEF RingHolds
  <2>2. 0 < Len(lg) <=> lg # <<>>
    BY EmptySeq
  <2>3. QED
    BY <1>1, <2>1, <2>2 DEF IsRepeated
<1>4. CASE v.length = 0 \/ IsRepeated(v)
  <2>1. m = lg
    BY <1>1, <1>3, <1>4
  <2>2. w.hist = v.hist /\ w.hindex = v.hindex
    BY <1>4 DEF vty_hist_add, Sound, Session
  <2>3. QED
    BY <1>2, <2>1, <2>2
<1>5. CASE v.length > 0 /\ ~ IsRepeated(v)
  <2>1. m = Append(lg, Text(v))
    BY <1>1, <1>3, <1>5
  <2>2. w.hist = [v.hist EXCEPT ![v.hindex] = Text(v)] /\ w.hindex = After(v.hindex)
    BY <1>5, <1>1 DEF vty_hist_add, Sound, Session
  <2>3. Len(m) = Len(lg) + 1 /\ m[Len(m)] = Text(v) /\ \A i \in 1 .. Len(lg) : m[i] = lg[i]
    BY <1>1, <2>1
  <2>4. ASSUME NEW j \in Ring
        PROVE  w.hist[(w.hindex - 1 - j) % VTY_HIST_CMD_SIZE] = IF j < Len(m) THEN m[Len(m) - j] ELSE <<>>
    <3>0. j \in Nat
      BY VtyNumbers DEF Ring
    <3>1. CASE j = 0
      <4>1. (After(v.hindex) - 1 - j) % VTY_HIST_CMD_SIZE = v.hindex
        BY <1>1, <3>1, RingStepped, Zenon
      <4>2. w.hist[v.hindex] = Text(v)
        BY <1>1, <2>2, Zenon
      <4>3. QED
        BY <1>1, <2>2, <2>3, <3>1, <4>1, <4>2
    <3>2. CASE j > 0
      <4> DEFINE i == (After(v.hindex) - 1 - j) % VTY_HIST_CMD_SIZE
      <4>1. j - 1 \in Ring /\ i = (v.hindex - 1 - (j - 1)) % VTY_HIST_CMD_SIZE /\ i # v.hindex
        BY <1>1, <3>2, RingStepped, Zenon
      <4>2. i \in Ring
        BY <1>1, <4>1, Around, Zenon
      <4> HIDE DEF i
      <4>3. w.hist[i] = v.hist[i]
        BY <1>1, <2>2, <4>1, <4>2, Zenon
      <4>4. v.hist[i] = IF j - 1 < Len(lg) THEN lg[Len(lg) - (j - 1)] ELSE <<>>
        BY <4>1 DEF RingHolds
      <4>5. j - 1 < Len(lg) => Len(lg) - (j - 1) \in 1 .. Len(lg) /\ Len(m) - j = Len(lg) - (j - 1)
        BY <1>1, <2>3, <3>0, <3>2
      <4>6. j - 1 < Len(lg) <=> j < Len(m)
        BY <1>1, <2>3, <3>0
      <4>7. QED
        BY <2>2, <2>3, <4>3, <4>4, <4>5, <4>6, Zenon DEF i
    <3>3. QED
      BY <3>0, <3>1, <3>2
  <2>5. QED
    BY <1>2, <2>4, Zenon DEF RingHolds
<1>6. QED
  BY <1>1, <1>4, <1>5
------------------------------------------------------------------------------
LEMMA VtyInitInv == VtyInit => VtyInv
<1> SUFFICES ASSUME VtyInit PROVE VtyInv
  OBVIOUS
<1>1. Sound(NewVty)
  <2>1. LineOf(NewVty.buf, NewVty.cp, NewVty.length)
    BY VtyNumbers DEF NewVty, LineOf, Place
  <2>2. NewVty \in Session /\ NewVty.option = FALSE
    BY VtyNumbers DEF NewVty, Session, Place, Ring
  <2>3. \A h \in Ring : Len(NewVty.hist[h]) < max
    BY VtyNumbers DEF NewVty, Ring
  <2>4. QED
    BY <2>1, <2>2, <2>3 DEF Sound
<1>2. HistoryExact
  <2>1. \A j \in Ring : NewVty.hist[(NewVty.hindex - 1 - j) % VTY_HIST_CMD_SIZE] = <<>>
    <3>1. NewVty.hindex = 0 /\ 0 \in Ring /\ \A h \in Ring : NewVty.hist[h] = <<>>
      BY VtyNumbers DEF NewVty, Ring
    <3>2. QED
      BY <3>1, Around
  <2>2. \A j \in Ring : ~ (j < Len(log))
    BY VtyNumbers DEF VtyInit, Ring
  <2>3. QED
    BY <2>1, <2>2 DEF HistoryExact, VtyInit, Ring
<1>3. Sound(vty) /\ terminal \in Terminal /\ cut = FALSE /\ ref = vty
  BY <1>1 DEF VtyInit
<1>4. chunk \in Seq(terminal.byte) /\ log \in Seq(Seq(Byte) \ {<<>>})
  BY DEF VtyInit
<1>5. QED
  BY <1>2, <1>3, <1>4, Zenon DEF VtyInv

LEMMA VtyNextInv == VtyInv /\ [VtyNext]_vty_vars => VtyInv'
<1> SUFFICES ASSUME VtyInv, [VtyNext]_vty_vars PROVE VtyInv'
  OBVIOUS
<1>1. CASE Receive
  <2>1. chunk' \in Seq(terminal.byte) /\ terminal' = terminal
    BY <1>1, VtyConstants DEF Receive, VtyInv
  <2>2. UNCHANGED <<vty, ref, cut, log, terminal>>
    BY <1>1 DEF Receive
  <2>3. QED
    BY <2>1, <2>2 DEF VtyInv, HistoryExact
<1>2. CASE vty_read
  <2> DEFINE t == Turn(vty, chunk)
             c == chunk[1]
  <2>1. /\ Sound(vty) /\ chunk \in Seq(terminal.byte) /\ chunk # <<>> /\ terminal \in Terminal /\ terminal' = terminal
        /\ log \in Seq(Seq(Byte) \ {<<>>}) /\ HistoryExact
    BY <1>2 DEF VtyInv, vty_read
  <2>2. /\ vty' = t.v
        /\ chunk' = IF t.n > Len(chunk) THEN <<>> ELSE SubSeq(chunk, t.n + 1, Len(chunk))
        /\ cut' = (cut \/ t.n > Len(chunk))
        /\ ref' = IF t.n > 1 /\ Len(chunk) > 1 THEN ByteTurn(ByteTurn(ref, c), chunk[2]) ELSE ByteTurn(ref, c)
        /\ log' = IF Executes(vty, c) /\ vty.length > 0 /\ (log = <<>> \/ log[Len(log)] # Text(vty))
                  THEN Append(log, Text(vty)) ELSE log
    BY <1>2 DEF vty_read
  <2>3. chunk \in Seq(Byte) /\ c = Head(chunk) /\ c \in Byte /\ Len(chunk) \in Nat /\ Len(chunk) >= 1
    <3>1. \A x \in terminal.byte : x \in Byte
      BY <2>1 DEF Byte
    <3>2. Len(chunk) \in Nat /\ Len(chunk) >= 1 /\ c = Head(chunk)
      BY <2>1, EmptySeq
    <3>3. QED
      BY <2>1, <3>1, <3>2
  <2>4. t.n \in {1, 2} /\ IF Executes(vty, c) THEN t.v = vty_execute(vty) ELSE Kept(vty, t.v)
    BY <2>1, <2>3, TurnSound, Zenon
  <2> HIDE DEF c
  <2>5. Sound(vty')
    BY <2>1, <2>2, <2>4, Executed
  <2>6. chunk' \in Seq(terminal'.byte)
    <3> DEFINE k == t.n + 1
               rest == SubSeq(chunk, k, Len(chunk))
    <3>1. k \in Int /\ Len(chunk) \in Int /\ \A i \in k .. Len(chunk) : chunk[i] \in terminal.byte
      BY <2>1, <2>3, <2>4
    <3>2. chunk' = <<>> \/ chunk' = rest
      BY <2>2, Zenon
    <3> HIDE DEF t, k
    <3>3. rest \in Seq(terminal.byte)
      BY <3>1, SubSeqProperties, Zenon
    <3>4. <<>> \in Seq(terminal.byte)
      OBVIOUS
    <3> HIDE DEF rest
    <3>5. chunk' \in Seq(terminal.byte)
      BY <3>2, <3>3, <3>4, Zenon
    <3>6. QED
      BY <2>1, <3>5, ZenonT(60)
  <2>7. cut' \in BOOLEAN
    BY <2>2 DEF VtyInv
  <2>8. log' \in Seq(Seq(Byte) \ {<<>>}) /\ RingHolds(vty'.hist, vty'.hindex, log')
    <3>1. RingHolds(vty.hist, vty.hindex, log)
      BY <2>1 DEF HistoryExact, RingHolds, Ring
    <3>2. CASE Executes(vty, c)
      <4>1. log' = IF vty.length > 0 /\ (log = <<>> \/ log[Len(log)] # Text(vty))
                   THEN Append(log, Text(vty)) ELSE log
        BY <2>2, <3>2, Zenon
      <4>2. vty'.hist = vty_hist_add(vty).hist /\ vty'.hindex = vty_hist_add(vty).hindex
        BY <2>1, <2>2, <2>4, <3>2, Executed, Zenon
      <4>3. QED
        BY <2>1, <3>1, <4>1, <4>2, HistoryStep, Zenon
    <3>3. CASE ~ Executes(vty, c)
      <4>1. log' = log /\ vty'.hist = vty.hist /\ vty'.hindex = vty.hindex
        BY <2>2, <2>4, <3>3
      <4>2. QED
        BY <2>1, <3>1, <4>1, ZenonT(60)
    <3>4. QED
      BY <3>2, <3>3
  <2>9. HistoryExact'
    BY <2>8 DEF HistoryExact, RingHolds, Ring
  <2>10. ASSUME ~ cut' PROVE ref' = vty'
    <3>1. ref = vty /\ ~ (t.n > Len(chunk))
      BY <2>2, <2>10, Zenon DEF VtyInv
    <3>2. t.n <= Len(chunk)
      BY <2>3, <2>4, <3>1
    <3>3. t.v = IF t.n > 1 /\ Len(chunk) > 1 THEN ByteTurn(ByteTurn(vty, c), chunk[2]) ELSE ByteTurn(vty, c)
      BY <2>1, <2>3, <3>2, OneByOne, ZenonT(60) DEF c
    <3>4. QED
      BY <2>2, <3>1, <3>3
  <2>11. QED
    BY <2>1, <2>5, <2>6, <2>7, <2>8, <2>9, <2>10, ZenonT(60) DEF VtyInv
<1>3. CASE UNCHANGED vty_vars
  BY <1>3 DEF vty_vars, VtyInv, HistoryExact
<1>4. QED
  BY <1>1, <1>2, <1>3 DEF VtyNext

LEMMA VtyInductive == VtySpec => []VtyInv
<1>1. VtyInit => VtyInv
  BY VtyInitInv
<1>2. VtyInv /\ [VtyNext]_vty_vars => VtyInv'
  BY VtyNextInv
<1>3. QED
  BY <1>1, <1>2, PTL DEF VtySpec

\* For every buffer, ring and stream of bytes: no key of the editor (vty.c:261-475, 535-574)
\* moves the cursor out of the line, or the line out of the buffer, or leaves behind the
\* line a byte that strlen or strdup of the buffer would see.
THEOREM LineIsSound == VtySpec => []LineSound
<1>1. VtyInv => LineSound
  BY VtyNumbers DEF VtyInv, Sound, LineOf, LineSound, Place
<1>2. QED
  BY <1>1, VtyInductive, PTL

\* For every size of the ring and every sequence of lines: the ring holds the last lines
\* executed, newest before hindex, immediate repetitions left out (vty.c:617-643).
THEOREM HistoryIsExact == VtySpec => []HistoryExact
<1>1. VtyInv => HistoryExact
  BY DEF VtyInv
<1>2. QED
  BY <1>1, VtyInductive, PTL

\* For every stream of bytes and every way of cutting it into reads that does not part a
\* telnet command from its option: the session is the one fed byte by byte (vty.c:3154-3330).
THEOREM CutsAreInvisible == VtySpec => []ChunkingInvisible
<1>1. VtyInv => ChunkingInvisible
  BY DEF VtyInv, ChunkingInvisible
<1>2. QED
  BY <1>1, VtyInductive, PTL
==============================================================================
