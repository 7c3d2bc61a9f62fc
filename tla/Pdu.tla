---------------------------------- MODULE Pdu ----------------------------------
(***************************************************************************)
(* The coding of a short message (module/op4g/_4g_pdu.c): the number of the   *)
(* message centre and of the receiver with the digits of every pair swapped,  *)
(* and the text in UCS-2, in hexadecimal.  Numbers are sequences of            *)
(* characters.  A text is the number of its bytes in UCS-2, or Bad when iconv  *)
(* refuses it.                                                              *)
(***************************************************************************)
EXTENDS Integers, Sequences

_4G_MESSAGE_SIZE == 1024

\* The characters of a coded number; of those of a number none is the filler "F".
Char == {"+", "0", "1", "2", "3", "4", "5", "6", "7", "8", "9", "F"}

Number(s) == s \in Seq(Char) /\ \A n \in 1 .. Len(s) : s[n] # "F"

Bad == -1

\* The loops that swap every two characters.  Of an odd number the last one is swapped
\* with the end of the string, so the string ends before it.
Swap(s) ==
    [n \in 1 .. Len(s) - (Len(s) % 2) |-> IF n % 2 = 1 THEN s[n + 1] ELSE s[n - 1]]

\* As Padded, never filling up.
Unpadded(s) == s

Padded(s) == IF Len(s) % 2 = 0 THEN s ELSE Append(s, "F")

\* The tests of message_center_phone_change: one of the three characters is enough.
Supported(c) ==
    Len(c) >= 3 /\ (c[1] = "+" \/ c[2] = "8" \/ c[3] = "6")

\* The octets announced, and the digits behind "91".
message_center_phone_change(c) ==
    LET digits == Swap(Padded(Tail(c))) IN [octets |-> (2 + Len(digits)) \div 2, digits |-> digits]

\* "F" is always there before the swap.
message_dest_phone_change(p) == Swap(Append(<<"8", "6">> \o p, "F"))

\* len is an unsigned char.
Announced(b) == b % 256

\* message_ucs2_change: hexadecimal digits of the announced size and of so many bytes.
message_ucs2_change(b) == IF b = Bad THEN -1 ELSE 2 + 2 * Announced(b)

\* memlcpy into the rest of dest, its size unsigned.
Copied(room, n) == IF n < 0 \/ n > room THEN room ELSE n

\* message_ucs2_combi_mesage: *count_set, in octets behind the message centre, and the
\* size returned, the final 0x1a included.
message_ucs2_combi_mesage(c, p, b) ==
    IF ~ Supported(c) THEN [ok |-> FALSE, count |-> 0, size |-> -1]
    ELSE LET center == message_center_phone_change(c)
             phone == message_dest_phone_change(p)
             head == 2 + 2 * center.octets + 8 + Len(phone) + 6
             hex == message_ucs2_change(b)
         IN  [ok |-> TRUE, center |-> center.digits, phone |-> phone,
              count |-> (8 + Len(phone) + 6 + hex) \div 2,
              size |-> head + Copied(_4G_MESSAGE_SIZE - head, hex) + 1]

\* What a receiver of a coded number reads: pairs swapped back, up to the filler.
Decode(s) ==
    LET t == Swap(s) IN
    IF t # <<>> /\ t[Len(t)] = "F" THEN SubSeq(t, 1, Len(t) - 1) ELSE t
==============================================================================
