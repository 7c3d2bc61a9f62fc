SPECIFICATION MCSpec
CONSTANTS
  NULL = NULL
  PDU = PDU
  s1 = s1
  s2 = s2
  Sender = {s1, s2}
  SetupCmd <- MCSetupCmd
  MaxSend = 2
  MaxLost = 1
  MaxUrc = 1
  BufSize = 2
  Fault <- MCFault
  Center <- MCCenter
  Receiver <- MCReceiver
  Size <- MCSize
INVARIANTS
  
  MessagesKeptApart
  AnswerEndsItsCommand

  
CHECK_DEADLOCK FALSE
