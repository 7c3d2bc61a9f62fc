--------------------------------- MODULE Vty ---------------------------------
(***************************************************************************)
(* The terminal of the command line (opbox/vty.c): the telnet option parser, *)
(* the escape sequences, the line editor and the history of a session.  The   *)
(* session is a record v with the fields of struct _vty; the functions of    *)
(* the code are operators on it.  The status VTY_MORE is never set.  Output   *)
(* to the terminal, completion ("tab") and help ("?") are left out; what a    *)
(* command line does is OpCli's matter.                                     *)
(*                                                                         *)
(* The bytes come in chunks, one for every read of the socket, and vty_read   *)
(* looks at the byte after the current one: ref is the same session fed byte  *)
(* by byte with nothing lost between two reads.                              *)
(***************************************************************************)
EXTENDS Integers, Sequences, FiniteSetsExt

CONSTANTS
    Terminal,      \* terminals: the bytes each sends, in a read and in all
    Printable,     \* the bytes that are printable
    max,           \* VTY_INPUT_BUF_SIZE
    VTY_HIST_CMD_SIZE,
    TELNET_NAWS_SB_LEN,
    NUL

ASSUME VtyConstants ==
    /\ \A t \in Terminal : NUL \notin t.byte /\ t.chunk \in Nat /\ t.total \in Nat
    /\ max \in Nat /\ max >= 2
    /\ VTY_HIST_CMD_SIZE \in Nat \ {0} /\ TELNET_NAWS_SB_LEN \in Nat \ {0}

VARIABLES
    vty,       \* the session
    chunk,     \* what vty_read has not looked at yet
    ref,       \* the session fed byte by byte
    cut,       \* a read ended between a telnet command and its option
    log,       \* the command lines executed, without immediate repetitions
    bytes,     \* bytes received
    terminal   \* the one at the other end

vty_vars == <<vty, chunk, ref, cut, log, bytes, terminal>>

\* vty_new_init.
NewVty ==
    [buf |-> [i \in 0 .. max - 1 |-> NUL], cp |-> 0, length |-> 0,
     hist |-> [i \in 0 .. VTY_HIST_CMD_SIZE - 1 |-> <<>>], hp |-> 0, hindex |-> 0,
     escape |-> "NORMAL", iac |-> FALSE, sb |-> FALSE,
     sb_buf |-> [i \in 0 .. TELNET_NAWS_SB_LEN - 1 |-> NUL], sb_len |-> 0,
     window |-> NUL, option |-> FALSE]   \* option: of ref only

VtyInit ==
    /\ vty = NewVty /\ ref = NewVty /\ chunk = <<>>
    /\ cut = FALSE /\ log = <<>> /\ bytes = 0
    /\ terminal \in Terminal
------------------------------------------------------------------------------
\* The line editor.

vty_backward_char(v) == IF v.cp > 0 THEN [v EXCEPT !.cp = @ - 1] ELSE v

vty_forward_char(v) == IF v.cp < v.length THEN [v EXCEPT !.cp = @ + 1] ELSE v

vty_beginning_of_line(v) == [v EXCEPT !.cp = 0]

vty_end_of_line(v) == [v EXCEPT !.cp = v.length]

vty_kill_line(v) ==
    [v EXCEPT !.buf = [i \in DOMAIN @ |-> IF i \in v.cp .. v.length - 1 THEN NUL ELSE @[i]],
              !.length = v.cp]

vty_kill_line_from_beginning(v) == vty_kill_line(vty_beginning_of_line(v))

\* Take out the n characters at the cursor: n times vty_delete_char.
Delete(v, n) ==
    [v EXCEPT !.buf = [i \in DOMAIN @ |->
                         IF i \in v.cp .. v.length - n - 1 THEN @[i + n]
                         ELSE IF i \in v.length - n .. v.length - 1 THEN NUL ELSE @[i]],
              !.length = @ - n]

vty_delete_char(v) ==
    IF v.length = 0 THEN [v EXCEPT !.cp = 0]
    ELSE IF v.cp = v.length THEN v ELSE Delete(v, 1)

vty_delete_backward_char(v) == IF v.cp = 0 THEN v ELSE vty_delete_char(vty_backward_char(v))

\* The first place from a on, up to the end, where the loop "while S" stops.
StopForward(v, a, S) == Min({j \in a .. v.length : j = v.length \/ v.buf[j] \notin S})

StopBackward(v, a, S) == Max({j \in 0 .. a : j = 0 \/ v.buf[j - 1] \notin S})

Space == {" "}
Word == UNION {t.byte : t \in Terminal} \ Space

vty_backward_word(v) == [v EXCEPT !.cp = StopBackward(v, StopBackward(v, @, Space), Word)]

vty_forward_word(v) == [v EXCEPT !.cp = StopForward(v, StopForward(v, @, Word), Space)]

vty_forward_kill_word(v) ==
    Delete(v, StopForward(v, StopForward(v, v.cp, Space), Word) - v.cp)

vty_backward_kill_word(v) ==
    LET w == vty_backward_word(v) IN Delete(w, v.cp - w.cp)

HasRoom(v) == v.length + 1 < max

vty_self_insert(v, c) ==
    IF ~ HasRoom(v) THEN v ELSE
    [v EXCEPT !.buf = [i \in DOMAIN @ |->
                         IF i \in {v.length + 1, max - 1} THEN NUL
                         ELSE IF i = v.cp THEN c
                         ELSE IF i \in v.cp + 1 .. v.length THEN @[i - 1] ELSE @[i]],
              !.length = @ + 1, !.cp = @ + 1]

\* Two characters are overwritten; at the end of the line these are the last two.
vty_transpose_chars(v) ==
    IF v.length < 2 \/ v.cp < 1 THEN v ELSE
    LET a == IF v.cp = v.length THEN v.cp - 2 ELSE v.cp - 1
    IN  [v EXCEPT !.buf[a] = v.buf[a + 1], !.buf[a + 1] = v.buf[a],
                  !.buf[max - 1] = NUL, !.cp = a + 2]
------------------------------------------------------------------------------
\* The history: a ring of lines, <<>> for NULL.

Text(v) == [n \in 1 .. v.length |-> v.buf[n - 1]]

vty_history_print(v) ==
    LET line == v.hist[v.hp]
        w == vty_kill_line_from_beginning(v)
    IN  [w EXCEPT !.buf = [i \in DOMAIN @ |-> IF i < Len(line) THEN line[i + 1]
                                                  ELSE IF i = Len(line) THEN NUL ELSE @[i]],
                  !.cp = Len(line), !.length = Len(line)]

Before(n) == IF n = 0 THEN VTY_HIST_CMD_SIZE - 1 ELSE n - 1

After(n) == IF n = VTY_HIST_CMD_SIZE - 1 THEN 0 ELSE n + 1

vty_previous_line(v) ==
    IF v.hist[Before(v.hp)] = <<>> THEN v
    ELSE vty_history_print([v EXCEPT !.hp = Before(@)])

vty_next_line(v) ==
    IF v.hp = v.hindex \/ v.hist[After(v.hp)] = <<>> THEN v
    ELSE vty_history_print([v EXCEPT !.hp = After(@)])

IsRepeated(v) == v.hist[Before(v.hindex)] = Text(v)

\* As vty_hist_add, comparing with the entry it is about to replace.
hist_add_compares_oldest(v) ==
    IF v.length = 0 THEN v
    ELSE IF v.hist[v.hindex] = Text(v) THEN [v EXCEPT !.hp = v.hindex]
    ELSE [v EXCEPT !.hist[v.hindex] = Text(v), !.hindex = After(@), !.hp = After(v.hindex)]

vty_hist_add(v) ==
    IF v.length = 0 THEN v
    ELSE IF IsRepeated(v) THEN [v EXCEPT !.hp = v.hindex]
    ELSE [v EXCEPT !.hist[v.hindex] = Text(v), !.hindex = After(@), !.hp = After(v.hindex)]

\* As vty_execute, without vty_clear_buf.
execute_keeps_buf(v) == [vty_hist_add(v) EXCEPT !.cp = 0, !.length = 0]

vty_execute(v) ==
    [vty_hist_add(v) EXCEPT !.cp = 0, !.length = 0, !.buf = [i \in DOMAIN @ |-> NUL]]
------------------------------------------------------------------------------
\* vty_read.

\* vty_telnet_option: SB and SE end there, any other command has an option byte.
vty_telnet_option(v, c) ==
    CASE c = "SB" -> [v |-> [v EXCEPT !.sb_len = 0, !.sb = TRUE], n |-> 1]
      [] c = "SE" ->
           [v |-> [v EXCEPT !.sb = FALSE,
                            !.window = IF v.sb /\ v.sb_len = TELNET_NAWS_SB_LEN /\ v.sb_buf[0] = "NAWS"
                                       THEN v.sb_buf[TELNET_NAWS_SB_LEN - 1] ELSE @], n |-> 1]
      [] c \notin {"SB", "SE"} -> [v |-> v, n |-> 2]

\* A byte of a sub-negotiation.  sb_len counts on; it is only compared with the
\* size of sb_buf.
Collect(v, c) ==
    [v EXCEPT !.sb_buf = IF v.sb_len < TELNET_NAWS_SB_LEN THEN [@ EXCEPT ![v.sb_len] = c] ELSE @,
              !.sb_len = IF @ > TELNET_NAWS_SB_LEN THEN @ ELSE @ + 1]

\* The line after ESC [, and after ESC.
vty_escape_map(v, c) ==
    CASE c = "A" -> vty_previous_line(v)
      [] c = "B" -> vty_next_line(v)
      [] c = "C" -> vty_forward_char(v)
      [] c = "D" -> vty_backward_char(v)
      [] OTHER -> v

\* As PreEscape, without the bracket that comes in a read of its own.
pre_escape_no_bracket(v, c) ==
    CASE c = "b" -> [vty_backward_word(v) EXCEPT !.escape = "NORMAL"]
      [] c = "f" -> [vty_forward_word(v) EXCEPT !.escape = "NORMAL"]
      [] c = "d" -> [vty_forward_kill_word(v) EXCEPT !.escape = "NORMAL"]
      [] OTHER -> [v EXCEPT !.escape = "NORMAL"]

PreEscape(v, c) ==
    CASE c = "[" -> [v EXCEPT !.escape = "ESCAPE"]
      [] c = "b" -> [vty_backward_word(v) EXCEPT !.escape = "NORMAL"]
      [] c = "f" -> [vty_forward_word(v) EXCEPT !.escape = "NORMAL"]
      [] c = "d" -> [vty_forward_kill_word(v) EXCEPT !.escape = "NORMAL"]
      [] c = "^H" -> [vty_backward_kill_word(v) EXCEPT !.escape = "NORMAL"]
      [] OTHER -> [v EXCEPT !.escape = "NORMAL"]

\* The switch of vty_read on a byte outside every sequence.
Plain(v, c) ==
    CASE c = "^A" -> vty_beginning_of_line(v)
      [] c = "^B" -> vty_backward_char(v)
      [] c = "^D" -> vty_delete_char(v)
      [] c = "^E" -> vty_end_of_line(v)
      [] c = "^F" -> vty_forward_char(v)
      [] c = "^H" -> vty_delete_backward_char(v)
      [] c = "^K" -> vty_kill_line(v)
      [] c = "^N" -> vty_next_line(v)
      [] c = "^P" -> vty_previous_line(v)
      [] c = "^T" -> vty_transpose_chars(v)
      [] c = "^U" -> vty_kill_line_from_beginning(v)
      [] c = "^V" -> [v EXCEPT !.escape = "LITERAL"]
      [] c = "^W" -> vty_backward_kill_word(v)
      [] c = "CR" -> vty_execute(v)
      [] OTHER -> IF c \in Printable THEN vty_self_insert(v, c) ELSE v

\* A turn of the loop of vty_read on the bytes s: the session and the bytes used up.
Turn(v, s) ==
    LET c == Head(s)
        u == [v EXCEPT !.iac = FALSE]
        one(w) == [v |-> w, n |-> 1]
    IN  IF c = "IAC" /\ ~ v.iac THEN one([v EXCEPT !.iac = TRUE])
        ELSE IF v.sb /\ (c = "IAC" \/ ~ v.iac) THEN one(Collect(u, c))
        ELSE IF v.iac /\ c # "IAC" THEN vty_telnet_option(u, c)
        ELSE IF v.escape = "ESCAPE" THEN one([vty_escape_map(u, c) EXCEPT !.escape = "NORMAL"])
        ELSE IF v.escape = "LITERAL" THEN one([vty_self_insert(u, c) EXCEPT !.escape = "NORMAL"])
        ELSE IF v.escape = "PRE_ESCAPE" THEN one(PreEscape(u, c))
        ELSE IF c = "ESC"
        THEN IF Len(s) > 1 /\ s[2] = "[" THEN [v |-> [u EXCEPT !.escape = "ESCAPE"], n |-> 2]
             ELSE one([u EXCEPT !.escape = "PRE_ESCAPE"])
        ELSE one(Plain(u, c))

\* The byte ends the command line.
Executes(v, c) == c = "CR" /\ v.escape = "NORMAL" /\ ~ v.sb /\ ~ v.iac

\* The byte at a time: an option byte is skipped whenever it comes.
ByteTurn(v, c) ==
    IF v.option THEN [v EXCEPT !.option = FALSE]
    ELSE LET t == Turn(v, <<c>>) IN [t.v EXCEPT !.option = t.n = 2]

\* opcli_job_thread reads some bytes.
Receive ==
    /\ chunk = <<>>
    /\ \E n \in 1 .. terminal.chunk :
          /\ bytes + n <= terminal.total
          /\ chunk' \in [1 .. n -> terminal.byte]
          /\ bytes' = bytes + n
    /\ UNCHANGED <<vty, ref, cut, log, terminal>>

\* vty_read goes on.
vty_read ==
    /\ chunk # <<>>
    /\ LET t == Turn(vty, chunk)
           w == ByteTurn(ref, chunk[1])
       IN  /\ vty' = t.v
           /\ chunk' = IF t.n > Len(chunk) THEN <<>> ELSE SubSeq(chunk, t.n + 1, Len(chunk))
           /\ ref' = IF t.n > 1 /\ Len(chunk) > 1 THEN ByteTurn(w, chunk[2]) ELSE w
           /\ cut' = (cut \/ t.n > Len(chunk))
           /\ log' = IF Executes(vty, chunk[1]) /\ vty.length > 0
                        /\ (log = <<>> \/ log[Len(log)] # Text(vty))
                     THEN Append(log, Text(vty)) ELSE log
    /\ UNCHANGED <<bytes, terminal>>

VtyNext == Receive \/ vty_read

VtySpec == VtyInit /\ [][VtyNext]_vty_vars
------------------------------------------------------------------------------
\* Every edit leaves the cursor in the line, the line in the buffer with a zero
\* behind it, and the rest of the buffer clear (vty.c:261-475, 535-574): strlen and
\* strdup of the buffer see exactly the line.
LineSound ==
    /\ 0 <= vty.cp /\ vty.cp <= vty.length /\ vty.length < max
    /\ DOMAIN vty.buf = 0 .. max - 1
    /\ \A i \in DOMAIN vty.buf : vty.buf[i] = NUL <=> i >= vty.length

\* The ring holds the last lines executed, newest before hindex, and no line twice in
\* a row (vty.c:617-643).
HistoryExact ==
    \A j \in 0 .. VTY_HIST_CMD_SIZE - 1 :
       vty.hist[(vty.hindex - 1 - j) % VTY_HIST_CMD_SIZE] =
          IF j < Len(log) THEN log[Len(log) - j] ELSE <<>>

\* How the reads cut the stream makes no difference, but for one cut: an option byte
\* that comes in the next read is taken for a key (vty.c:3184-3188).
ChunkingInvisible ==
    chunk = <<>> /\ ~ cut => [vty EXCEPT !.option = FALSE] = [ref EXCEPT !.option = FALSE]
==============================================================================
