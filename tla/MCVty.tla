-------------------------------- MODULE MCVty --------------------------------
(***************************************************************************)
(* Vty with a buffer of four bytes and a ring of two lines.                  *)
(***************************************************************************)
EXTENDS Vty

\* Someone edits and looks through the history, key by key.
Keys ==
    [byte |-> {"d", "f", " ", "ESC", "^A", "^B", "^D", "^E", "^F", "^H", "^K", "^N", "^P",
               "^T", "^U", "^W", "CR"},
     chunk |-> 1, total |-> 8]

\* Telnet options and escape sequences, several bytes to a read; "^A" is also ECHO.
Telnet ==
    [byte |-> {"IAC", "SB", "SE", "NAWS", "^A", "^V", "ESC", "[", "A", "B", "C", "D", "b",
               "f", "d", "CR"},
     chunk |-> 3, total |-> 5]

MCTerminal == {Keys, Telnet}
==============================================================================
