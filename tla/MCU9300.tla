------------------------------- MODULE MCU9300 -------------------------------
(* One set-up command, two senders.  The message centre has an odd number of     *)
(* digits or, with what else may go wrong, an even number or is not supported;     *)
(* the receivers have one of either.                                          *)
EXTENDS U9300, TLC

CONSTANTS s1, s2, PDU

MCSetupCmd == <<PDU>>
MCFault == {{"error"}, {"write", "spurious"}, {"split", "drop"}, {"split", "read", "urc"}}
MCCenter == {<<"+", "8", "6", "1">>, <<"+", "8", "6">>, <<"1", "3", "8">>}
MCReceiver == <<<<"1", "3">>, <<"1", "3", "8">>>>
MCSize == <<4, 256>>

MCInit ==
    /\ Init
    /\ ~ Supported(center) => fault = {"error"}
    /\ center = <<"+", "8", "6">> <=> fault = {"split", "drop"}

MCSpec == MCInit /\ [][Next]_vars /\ Fairness
==============================================================================
