---------------------------- MODULE SpiderProofs -----------------------------
(***************************************************************************)
(* Theorems about the watch on share prices: AlertsAlternate,                *)
(* AlertOnOwnPrice and HandlesExact hold for any shares, prices and limits,  *)
(* any number of checks, restarts and lost connections, and any failure.     *)
(* The inductive invariant has a part for each: what memory, the database    *)
(* and the last message say of a share, what the check has read of the       *)
(* price, and which connection its statement belongs to.                     *)
(***************************************************************************)
EXTENDS Spider, TLAPS

Side == {"buy", "sale"}
Alert == [side : Side, own : BOOLEAN, price : Price]

\* Where the check is between the fetch of a price and the end of the item; where it
\* has a statement; where it has an item.
Priced == {"buy", "buy_update", "buy_message", "sale", "sale_update", "sale_message", "free"}
Holding == Priced \union {"query", "fetch"}
InItem == Holding \union {"alloc"}

TypeOK ==
    /\ price \in [Stock -> Price] /\ db \in [Stock -> {"BUY", "SALE"}]
    /\ stat \in [Stock -> {"BUY", "SALE"}] /\ size \in 0 .. Len(Stocks)
    /\ pc \in InItem \union {"down", "idle", "out"} /\ at \in 0 .. Len(Stocks)
    /\ closing \in Price /\ handle \in Nat /\ conn \in Nat \ {0}
    /\ open \in Int /\ leaked \in Int
    /\ alerts \in [Stock -> Seq(Alert)]
    /\ failed \subseteq lost
    /\ pc \in InItem => at \in 1 .. size

Updating(side) == pc = IF side = "buy" THEN "buy_update" ELSE "sale_update"
Messaging(side) == pc = IF side = "buy" THEN "buy_message" ELSE "sale_message"

\* Memory and the database agree on a share, except between the two writes of a turn.
StatFollows(s) ==
    pc # "down" =>
       /\ stat[s] # db[s] => (Updating("buy") \/ Updating("sale")) /\ Item = s
       /\ \A side \in Side : Updating(side) /\ Item = s => stat[s] = Target(side) /\ db[s] # stat[s]

\* The last message of a share says what the database holds, except between the update
\* and its message, which says the other.
LastSays(s) ==
    LET n == Len(alerts[s])
        pending == (Messaging("buy") \/ Messaging("sale")) /\ Item = s
    IN  /\ n > 0 => ((Target(alerts[s][n].side) = db[s]) <=> ~ pending)
        /\ \A side \in Side : Messaging(side) /\ Item = s => db[s] = Target(side)

Alternates(s) == \A n \in 2 .. Len(alerts[s]) : alerts[s][n].side # alerts[s][n - 1].side

InTurn == \A s \in Stock \ lost : StatFollows(s) /\ LastSays(s) /\ Alternates(s)

\* The price at hand is the item's own, and the message about to be sent is due.
Due(side, s, p) == IF side = "buy" THEN Limit[s][1] >= p ELSE Limit[s][2] <= p

OwnPrice ==
    /\ pc \in Priced /\ ~ unread => closing = price[Item]
    /\ \A side \in Side : Updating(side) \/ Messaging(side) => Due(side, Item, closing)
    /\ AlertOnOwnPrice

\* One statement more is open than will be freed as long as the check's own belongs to the
\* connection there is.
Handles ==
    /\ handle <= conn
    /\ pc \in {"down", "idle"} => handle = 0
    /\ pc \in Holding => handle # 0
    /\ handle # 0 => handle = conn \/ renewed
    /\ open = leaked + IF handle = conn THEN 1 ELSE 0
    /\ undefined => renewed

IInv == TypeOK /\ InTurn /\ OwnPrice /\ Handles
------------------------------------------------------------------------------
\* The shares are the rows.
LEMMA Rows ==
    /\ Stocks \in Seq(Stock) /\ Len(Stocks) \in Nat /\ DOMAIN Stocks = 1 .. Len(Stocks)
    /\ \A n \in 1 .. Len(Stocks) : Stocks[n] \in Stock
    /\ \A s \in Stock : Limit[s][1] \in Nat /\ Limit[s][2] \in Nat
<1>1. Stocks \in Seq(Stock) /\ Limit \in [Stock -> Price \X Price] /\ Price \subseteq Nat
  BY SpiderConstants
<1>2. Len(Stocks) \in Nat /\ DOMAIN Stocks = 1 .. Len(Stocks)
  BY <1>1
<1>3. \A n \in 1 .. Len(Stocks) : Stocks[n] \in Stock
  BY <1>1, <1>2
<1>4. \A s \in Stock : Limit[s] \in Price \X Price
  BY <1>1
<1>5. QED
  BY <1>1, <1>2, <1>3, <1>4, Zenon

\* A check that has an item is at one of the rows.
LEMMA ItemIsStock ==
    ASSUME TypeOK, pc \in InItem
    PROVE  at \in 1 .. size /\ at \in 1 .. Len(Stocks) /\ Item \in Stock
BY Rows DEF TypeOK, Item

\* Types: the first state, and every step.
LEMMA InitType == Init => TypeOK
<1> SUFFICES ASSUME Init PROVE TypeOK
  OBVIOUS
<1>1. 0 \in Price /\ Len(Stocks) \in Nat
  BY SpiderConstants, Rows
<1>2. alerts \in [Stock -> Seq(Alert)]
  BY DEF Init
<1>3. QED
  BY <1>1, <1>2 DEF Init, TypeOK, InItem, Holding, Priced

\* Every step keeps the types of the rows, the item and the messages.
LEMMA NextType ==
    ASSUME TypeOK, Next
    PROVE  TypeOK'
<1>0. Len(Stocks) \in Nat /\ 0 \in Price /\ Price \subseteq Nat
  BY Rows, SpiderConstants
<1> USE <1>0 DEF TypeOK, InItem, Holding, Priced
<1>1. CASE Load
  BY <1>1 DEF Load, data_vars, sql_vars
<1>2. CASE End
  BY <1>2 DEF End, data_vars, count_vars
<1>3. CASE Drop
  BY <1>3 DEF Drop, data_vars, item_vars
<1>4. CASE OtherAlloc
  BY <1>4 DEF OtherAlloc, data_vars, item_vars, count_vars
<1>5. CASE Check
  BY <1>5 DEF Check, data_vars, item_vars, sql_vars
<1>6. CASE Alloc
  BY <1>6 DEF Alloc, Allocated, data_vars, item_vars, count_vars
<1>7. CASE Query
  BY <1>7 DEF Query, Advance, data_vars, item_vars, sql_vars, count_vars
<1>8. CASE Fetch
  BY <1>8, ItemIsStock DEF Fetch, data_vars, item_vars, sql_vars, count_vars
<1>9. CASE Free
  BY <1>9 DEF Free, Freed, Advance, data_vars, item_vars, count_vars
<1>10. CASE Out
  BY <1>10 DEF Out, Freed, data_vars, item_vars, count_vars
<1>11. ASSUME NEW s \in Stock, Move(s) PROVE TypeOK'
  BY <1>11 DEF Move, item_vars, sql_vars, count_vars
<1>12. ASSUME NEW side \in Side, Decide(side) PROVE TypeOK'
  BY <1>12, ItemIsStock, Zenon DEF Decide, After, Target, Side, data_vars, sql_vars, count_vars
<1>13. ASSUME NEW side \in Side, Update(side) PROVE TypeOK'
  BY <1>13, ItemIsStock, SMTT(60) DEF Update, FailedUpdate, Allocated, Target, Side, item_vars, count_vars
<1>14. ASSUME NEW side \in Side, Message(side) PROVE TypeOK'
  <2>1. pc \in InItem
    BY <1>14 DEF Message, Side
  <2>2. Item \in Stock
    BY <2>1, ItemIsStock
  <2> DEFINE a == [side |-> side, own |-> ~ unread, price |-> price[Item]]
  <2>3. a \in Alert
    BY <2>2 DEF Alert, Side
  <2>4. alerts' = [alerts EXCEPT ![Item] = Append(@, a)]
    BY <1>14 DEF Message
  <2> HIDE DEF a
  <2>5. alerts' \in [Stock -> Seq(Alert)]
    BY <2>2, <2>3, <2>4
  <2>6. QED
    BY <1>14, <2>5 DEF Message, After, Side, data_vars, item_vars, sql_vars, count_vars
<1>15. QED
  BY <1>1, <1>2, <1>3, <1>4, <1>5, <1>6, <1>7, <1>8, <1>9, <1>10, <1>11, <1>12, <1>13, <1>14, ZenonT(20)
     DEF Next, Side
------------------------------------------------------------------------------
\* The statements of the check and of the connection.
LEMMA NextHandles ==
    ASSUME TypeOK, Handles, Next
    PROVE  Handles'
<1> USE DEF TypeOK, Handles, InItem, Holding, Priced
<1>0. ~ undefined
  BY DEF Next
<1>1. CASE Load
  BY <1>1 DEF Load, data_vars, sql_vars
<1>2. CASE End
  BY <1>0, <1>2 DEF End, data_vars, count_vars
<1>3. CASE Drop
  BY <1>3 DEF Drop, data_vars, item_vars
<1>4. CASE OtherAlloc
  <2>1. /\ handle' <= conn' /\ (pc' \in {"down", "idle"} => handle' = 0)
        /\ pc' \in Holding => handle' # 0
        /\ open' = leaked' + IF handle' = conn' THEN 1 ELSE 0
    BY <1>0, <1>4 DEF OtherAlloc
  <2>2. handle' # 0 => handle' = conn' \/ renewed'
    BY <1>0, <1>4, Zenon DEF OtherAlloc
  <2>3. undefined' => renewed'
    BY <1>0, <1>4 DEF OtherAlloc
  <2>4. QED
    BY <2>1, <2>2, <2>3
<1>5. CASE Check
  BY <1>0, <1>5 DEF Check, data_vars, item_vars, sql_vars
<1>6. CASE Alloc
  BY <1>0, <1>6 DEF Alloc, Allocated, data_vars, item_vars, count_vars
<1>7. CASE Query
  BY <1>7, Zenon DEF Query, Advance, data_vars, item_vars, sql_vars, count_vars
<1>8. CASE Fetch
  BY <1>8, Zenon DEF Fetch, data_vars, item_vars, sql_vars, count_vars
<1>9. CASE Free
  <2>1. /\ handle' <= conn' /\ (pc' \in {"down", "idle"} => handle' = 0)
        /\ pc' \in Holding => handle' # 0
        /\ open' = leaked' + IF handle' = conn' THEN 1 ELSE 0
    BY <1>9 DEF Free, Freed, Advance
  <2>2. handle' # 0 => handle' = conn' \/ renewed'
    BY <1>9 DEF Free, Freed, Advance
  <2>3. undefined' => renewed'
    BY <1>9, Zenon DEF Free, Freed, Advance
  <2>4. QED
    BY <2>1, <2>2, <2>3
<1>10. CASE Out
  <2>1. /\ handle' <= conn' /\ (pc' \in {"down", "idle"} => handle' = 0)
        /\ pc' \in Holding => handle' # 0
        /\ open' = leaked' + IF handle' = conn' THEN 1 ELSE 0
    BY <1>0, <1>10 DEF Out, Freed
  <2>2. handle' # 0 => handle' = conn' \/ renewed'
    BY <1>0, <1>10 DEF Out, Freed
  <2>3. undefined' => renewed'
    BY <1>0, <1>10, Zenon DEF Out, Freed
  <2>4. QED
    BY <2>1, <2>2, <2>3
<1>11. ASSUME NEW s \in Stock, Move(s) PROVE Handles'
  BY <1>11 DEF Move, item_vars, sql_vars, count_vars
<1>12. ASSUME NEW side \in Side, Decide(side) PROVE Handles'
  BY <1>12 DEF Decide, After, Target, Side, data_vars, sql_vars, count_vars
<1>13. ASSUME NEW side \in Side, Update(side) PROVE Handles'
  <2>1. /\ handle' <= conn' /\ (pc' \in {"down", "idle"} => handle' = 0)
        /\ pc' \in Holding => handle' # 0
        /\ open' = leaked' + IF handle' = conn' THEN 1 ELSE 0
    BY <1>0, <1>13 DEF Update, FailedUpdate, Allocated, Side
  <2>2. handle' # 0 => handle' = conn' \/ renewed'
    BY <1>0, <1>13, Zenon DEF Update, FailedUpdate, Allocated, Side
  <2>3. undefined' => renewed'
    BY <1>0, <1>13 DEF Update, FailedUpdate, Allocated, Side
  <2>4. QED
    BY <2>1, <2>2, <2>3
<1>14. ASSUME NEW side \in Side, Message(side) PROVE Handles'
  BY <1>14 DEF Message, After, Side, data_vars, item_vars, sql_vars, count_vars
<1>15. QED
  BY <1>1, <1>2, <1>3, <1>4, <1>5, <1>6, <1>7, <1>8, <1>9, <1>10, <1>11, <1>12, <1>13, <1>14
     DEF Next, Side
------------------------------------------------------------------------------
\* The price at hand.  A step that is, or leads, outside the part of an item that uses it.
LEMMA OwnPriceElsewhere ==
    ASSUME OwnPrice, pc' \notin Priced, UNCHANGED alerts
    PROVE  OwnPrice'
BY DEF OwnPrice, AlertOnOwnPrice, Priced, Updating, Messaging, Side

\* A step of the connection alone.
LEMMA OwnPriceFrame ==
    ASSUME OwnPrice, UNCHANGED <<pc, at, closing, price, unread, alerts>>
    PROVE  OwnPrice'
BY DEF OwnPrice, AlertOnOwnPrice, Updating, Messaging, Due, Item

\* Every step keeps what is known of the price.
LEMMA NextOwnPrice ==
    ASSUME TypeOK, OwnPrice, Next
    PROVE  OwnPrice'
<1>1. CASE Load
  BY <1>1, OwnPriceElsewhere DEF Load, Priced
<1>2. CASE End
  BY <1>2, OwnPriceElsewhere DEF End, Priced
<1>3. CASE Drop
  BY <1>3, OwnPriceFrame DEF Drop, data_vars
<1>4. CASE OtherAlloc
  BY <1>4, OwnPriceFrame DEF OtherAlloc, data_vars
<1>5. CASE Check
  BY <1>5, OwnPriceElsewhere DEF Check, Priced
<1>6. CASE Alloc
  BY <1>6, OwnPriceElsewhere DEF Alloc, Priced
<1>7. CASE Query
  BY <1>7, OwnPriceElsewhere DEF Query, Advance, Priced
<1>8. CASE Fetch
  <2>1. AlertOnOwnPrice'
    BY <1>8 DEF OwnPrice, AlertOnOwnPrice, Fetch
  <2>2. \A side \in Side : ~ Updating(side)' /\ ~ Messaging(side)'
    BY <1>8 DEF Fetch, Updating, Messaging, Side
  <2>3. pc' \in Priced /\ ~ unread' => closing' = price'[Item']
    BY <1>8 DEF Fetch, Priced, Item, data_vars
  <2>4. QED
    BY <2>1, <2>2, <2>3 DEF OwnPrice
<1>9. CASE Free
  BY <1>9, OwnPriceElsewhere DEF Free, Advance, Priced
<1>10. CASE Out
  BY <1>10, OwnPriceElsewhere DEF Out, Priced
<1>11. ASSUME NEW s \in Stock, Move(s) PROVE OwnPrice'
  BY <1>11, OwnPriceElsewhere DEF Move, Priced
<1>12. ASSUME NEW side \in Side, Decide(side) PROVE OwnPrice'
  <2>1. AlertOnOwnPrice'
    BY <1>12 DEF OwnPrice, AlertOnOwnPrice, Decide
  <2>2. /\ pc \in Priced /\ UNCHANGED <<at, price, closing, unread>>
        /\ (Turns(side) /\ Updating(side)') \/ pc' = After(side)
    BY <1>12 DEF Decide, Priced, Side, Updating, data_vars
  <2>3. pc' \in Priced /\ ~ unread' => closing' = price'[Item']
    BY <2>2 DEF OwnPrice, Item
  <2>4. \A d \in Side : Updating(d)' \/ Messaging(d)' => Due(d, Item', closing')
    BY <1>12, <2>2 DEF Updating, Messaging, Due, Turns, Item, Side, After
  <2>5. QED
    BY <2>1, <2>3, <2>4 DEF OwnPrice
<1>13. ASSUME NEW side \in Side, Update(side) PROVE OwnPrice'
  <2>1. AlertOnOwnPrice'
    BY <1>13 DEF OwnPrice, AlertOnOwnPrice, Update
  <2>2. /\ pc \in Priced /\ Updating(side) /\ UNCHANGED <<at, price, closing, unread>>
        /\ Messaging(side)' \/ pc' = "out"
    BY <1>13 DEF Update, FailedUpdate, Priced, Side, Updating, Messaging
  <2>3. pc' \in Priced /\ ~ unread' => closing' = price'[Item']
    BY <2>2 DEF OwnPrice, Item
  <2>4. \A d \in Side : Updating(d)' \/ Messaging(d)' => d = side /\ Due(d, Item, closing)
    BY <2>2 DEF OwnPrice, Updating, Messaging, Side
  <2>5. \A d \in Side : Due(d, Item, closing) => Due(d, Item', closing')
    BY <2>2 DEF Due, Item
  <2>6. QED
    BY <2>1, <2>3, <2>4, <2>5 DEF OwnPrice
<1>14. ASSUME NEW side \in Side, Message(side) PROVE OwnPrice'
  <2>1. /\ pc \in Priced /\ pc \in InItem /\ Messaging(side)
        /\ UNCHANGED <<at, price, closing, unread>> /\ pc' \in {"sale", "free"}
    BY <1>14 DEF Message, Priced, Side, Messaging, After, InItem, Holding, data_vars
  <2>2. Item \in Stock /\ alerts \in [Stock -> Seq(Alert)]
    BY <2>1, ItemIsStock DEF TypeOK
  <2>3. Due(side, Item, closing) /\ (~ unread => closing = price[Item])
    BY <2>1 DEF OwnPrice
  <2> DEFINE a == [side |-> side, own |-> ~ unread, price |-> price[Item]]
  <2>4. a.own => Due(a.side, Item, a.price)
    BY <2>3, Zenon
  <2>5. alerts' = [alerts EXCEPT ![Item] = Append(@, a)]
    BY <1>14 DEF Message
  <2> HIDE DEF a
  <2>6. \A s \in Stock : \A n \in DOMAIN alerts'[s] :
           alerts'[s][n].own => Due(alerts'[s][n].side, s, alerts'[s][n].price)
    <3> SUFFICES ASSUME NEW s \in Stock, NEW n \in DOMAIN alerts'[s], alerts'[s][n].own
                 PROVE  Due(alerts'[s][n].side, s, alerts'[s][n].price)
      OBVIOUS
    <3>1. CASE s # Item
      BY <2>2, <2>5, <3>1 DEF OwnPrice, AlertOnOwnPrice, Due
    <3>2. CASE s = Item
      <4>1. alerts'[s] = Append(alerts[s], a) /\ alerts[s] \in Seq(Alert)
        BY <2>2, <2>5, <3>2
      <4>2. CASE n = Len(alerts[s]) + 1
        BY <2>4, <3>2, <4>1, <4>2
      <4>3. CASE n \in DOMAIN alerts[s]
        BY <4>1, <4>3 DEF OwnPrice, AlertOnOwnPrice, Due
      <4>4. QED
        BY <4>1, <4>2, <4>3
    <3>3. QED
      BY <3>1, <3>2
  <2>7. AlertOnOwnPrice'
    BY <2>6 DEF AlertOnOwnPrice, Due
  <2>8. \A d \in Side : ~ Updating(d)' /\ ~ Messaging(d)'
    BY <2>1 DEF Updating, Messaging, Side
  <2>9. ~ unread' => closing' = price'[Item']
    BY <2>1, <2>3 DEF Item
  <2>10. QED
    BY <2>7, <2>8, <2>9 DEF OwnPrice
<1>15. QED
  BY <1>1, <1>2, <1>3, <1>4, <1>5, <1>6, <1>7, <1>8, <1>9, <1>10, <1>11, <1>12, <1>13, <1>14
     DEF Next, Side
------------------------------------------------------------------------------
\* The turns of a share.  Between the first write of a turn and its message:
Turning == {"buy_update", "buy_message", "sale_update", "sale_message"}

\* A step outside a turn that writes nothing keeps them.
LEMMA QuietKeeps ==
    ASSUME InTurn, pc \notin Turning, pc' \notin Turning, pc' = "down" \/ pc # "down",
           UNCHANGED <<db, stat, alerts>>, lost \subseteq lost'
    PROVE  InTurn'
<1> SUFFICES ASSUME NEW s \in Stock, s \notin lost'
             PROVE  StatFollows(s)' /\ LastSays(s)' /\ Alternates(s)'
  BY DEF InTurn
<1>0. s \notin lost
  OBVIOUS
<1>1. StatFollows(s) /\ LastSays(s) /\ Alternates(s)
  BY <1>0 DEF InTurn
<1>2. \A side \in Side : /\ ~ Updating(side) /\ ~ Messaging(side)
                         /\ ~ Updating(side)' /\ ~ Messaging(side)'
  BY DEF Updating, Messaging, Turning, Side
<1>3. StatFollows(s)'
  BY <1>1, <1>2 DEF StatFollows, Side
<1>4. LastSays(s)'
  BY <1>1, <1>2 DEF LastSays, Side
<1>5. Alternates(s)'
  BY <1>1 DEF Alternates
<1>6. QED
  BY <1>3, <1>4, <1>5

\* So does one that touches nothing they speak of.
LEMMA InTurnFrame ==
    ASSUME InTurn, UNCHANGED <<pc, at, db, stat, alerts, lost>>
    PROVE  InTurn'
BY SMTT(60) DEF InTurn, StatFollows, LastSays, Alternates, Updating, Messaging, Item

\* The end of the process loses the message of a turn, or the turn with its memory.
LEMMA EndInTurn ==
    ASSUME TypeOK, InTurn, End
    PROVE  InTurn'
<1> SUFFICES ASSUME NEW s \in Stock, s \notin lost'
             PROVE  StatFollows(s)' /\ LastSays(s)' /\ Alternates(s)'
  BY DEF InTurn
<1>1. s \notin lost /\ (pc \in {"buy_message", "sale_message"} => s # Item)
  BY DEF End
<1>2. LastSays(s) /\ Alternates(s)
  BY <1>1 DEF InTurn
<1>3. pc' = "down" /\ UNCHANGED <<db, alerts>>
  BY DEF End, data_vars
<1>4. \A side \in Side : (~ Messaging(side) \/ Item # s) /\ ~ Messaging(side)'
  BY <1>1, <1>3 DEF Messaging, Side
<1>5. QED
  BY <1>2, <1>3, <1>4 DEF StatFollows, LastSays, Alternates, Side

\* A start takes over what the database says.
LEMMA LoadInTurn ==
    ASSUME TypeOK, InTurn, Load
    PROVE  InTurn'
<1> SUFFICES ASSUME NEW s \in Stock, s \notin lost
             PROVE  StatFollows(s)' /\ LastSays(s)' /\ Alternates(s)'
  BY DEF InTurn, Load
<1>1. LastSays(s) /\ Alternates(s)
  BY DEF InTurn
<1>2. pc = "down" /\ pc' = "idle" /\ stat' = db /\ UNCHANGED <<db, alerts>>
  BY DEF Load, data_vars
<1>3. \A side \in Side : /\ ~ Messaging(side) /\ ~ Messaging(side)' /\ ~ Updating(side)'
  BY <1>2 DEF Messaging, Updating, Side
<1>4. QED
  BY <1>1, <1>2, <1>3 DEF StatFollows, LastSays, Alternates, Side

\* The first write of a turn: memory says the new state, the database the old one.
LEMMA DecideInTurn ==
    ASSUME TypeOK, InTurn, NEW side \in Side, Decide(side)
    PROVE  InTurn'
<1>1. CASE ~ Turns(side)
  <2>1. pc \notin Turning /\ pc' \notin Turning /\ pc # "down"
    BY <1>1 DEF Decide, After, Turning, Side
  <2>2. UNCHANGED <<db, stat, alerts, lost>>
    BY <1>1 DEF Decide, data_vars
  <2>3. QED
    BY <2>1, <2>2, QuietKeeps
<1>2. CASE Turns(side)
  <2>1. /\ pc \in InItem /\ pc \notin Turning /\ pc # "down" /\ Updating(side)'
        /\ stat' = [stat EXCEPT ![Item] = Target(side)] /\ stat[Item] # Target(side)
        /\ UNCHANGED <<at, db, alerts, lost>>
    BY <1>2 DEF Decide, Turns, Turning, InItem, Holding, Priced, Updating, Side, data_vars
  <2>2. Item \in Stock /\ Item' = Item
    BY <2>1, ItemIsStock DEF Item
  <2>3. \A d \in Side : /\ ~ Updating(d) /\ ~ Messaging(d) /\ ~ Messaging(d)'
                        /\ Updating(d)' => d = side
    BY <2>1 DEF Turning, Updating, Messaging, Side
  <2> SUFFICES ASSUME NEW s \in Stock, s \notin lost
               PROVE  StatFollows(s)' /\ LastSays(s)' /\ Alternates(s)'
    BY <2>1 DEF InTurn
  <2>4. stat[s] = db[s] /\ LastSays(s) /\ Alternates(s)
    BY <2>1, <2>3 DEF InTurn, StatFollows, Side
  <2>5. StatFollows(s)'
    BY <2>1, <2>2, <2>3, <2>4 DEF StatFollows, TypeOK, Side
  <2>6. LastSays(s)' /\ Alternates(s)'
    BY <2>1, <2>3, <2>4 DEF LastSays, Alternates, Side
  <2>7. QED
    BY <2>5, <2>6
<1>3. QED
  BY <1>1, <1>2

\* The second: the database says it too, and the message is due.
LEMMA UpdateInTurn ==
    ASSUME TypeOK, InTurn, NEW side \in Side, Update(side)
    PROVE  InTurn'
<1>1. Updating(side) /\ pc \in InItem /\ pc # "down" /\ UNCHANGED <<at, stat, alerts>>
  BY DEF Update, Updating, InItem, Holding, Priced, Side, item_vars
<1>2. Item \in Stock /\ Item' = Item
  BY <1>1, ItemIsStock DEF Item
<1>3. \A d \in Side : (Updating(d) => d = side) /\ ~ Messaging(d) /\ ~ Updating(d)'
  BY <1>1 DEF Update, FailedUpdate, Updating, Messaging, Side
<1>4. CASE Messaging(side)' /\ db' = [db EXCEPT ![Item] = Target(side)] /\ UNCHANGED lost
  <2>1. pc' # "down" /\ \A d \in Side : Messaging(d)' => d = side
    BY <1>4 DEF Messaging, Side
  <2> SUFFICES ASSUME NEW s \in Stock, s \notin lost
               PROVE  StatFollows(s)' /\ LastSays(s)' /\ Alternates(s)'
    BY <1>4 DEF InTurn
  <2>2. StatFollows(s) /\ LastSays(s) /\ Alternates(s)
    BY DEF InTurn
  <2>3. CASE s # Item
    <3>1. stat[s] = db[s] /\ stat'[s] = stat[s] /\ db'[s] = db[s] /\ Item' # s
      BY <1>1, <1>2, <1>4, <2>2, <2>3, SMTT(30) DEF StatFollows, TypeOK
    <3>2. QED
      BY <1>1, <1>2, <1>3, <2>1, <2>2, <2>3, <3>1, ZenonT(20) DEF StatFollows, LastSays, Alternates, Side
  <2>4. CASE s = Item
    <3>1. /\ stat[s] = Target(side) /\ db[s] # Target(side) /\ db'[s] = Target(side)
          /\ stat'[s] = stat[s] /\ db[s] \in {"BUY", "SALE"}
      BY <1>1, <1>2, <1>4, <2>2, <2>4, ZenonT(20) DEF StatFollows, TypeOK
    <3>2. StatFollows(s)'
      BY <1>3, <3>1, ZenonT(20) DEF StatFollows, Side
    <3>3. Len(alerts[s]) > 0 => Target(alerts[s][Len(alerts[s])].side) = db[s]
      BY <1>3, <2>2 DEF LastSays, Side
    <3>4. LastSays(s)'
      BY <1>1, <1>2, <1>4, <2>1, <2>4, <3>1, <3>3 DEF LastSays, Side
    <3>5. QED
      BY <1>1, <2>2, <3>2, <3>4 DEF Alternates
  <2>5. QED
    BY <2>3, <2>4
<1>5. CASE FailedUpdate(side) /\ UNCHANGED db
  <2> SUFFICES ASSUME NEW s \in Stock, s \notin lost, s # Item
               PROVE  StatFollows(s)' /\ LastSays(s)' /\ Alternates(s)'
    BY <1>2, <1>5 DEF InTurn, FailedUpdate
  <2>1. StatFollows(s) /\ LastSays(s) /\ Alternates(s)
    BY DEF InTurn
  <2>2. pc' = "out" /\ \A d \in Side : ~ Messaging(d)'
    BY <1>5 DEF FailedUpdate, Messaging, Side
  <2>3. QED
    BY <1>1, <1>2, <1>3, <1>5, <2>1, <2>2 DEF StatFollows, LastSays, Alternates, Side
<1>6. QED
  BY <1>4, <1>5 DEF Update, Messaging

\* The message says the other of what the last one said.
LEMMA MessageInTurn ==
    ASSUME TypeOK, InTurn, NEW side \in Side, Message(side)
    PROVE  InTurn'
<1>1. /\ Messaging(side) /\ pc \in InItem /\ pc # "down" /\ pc' # "down" /\ pc' \notin Turning
      /\ UNCHANGED <<at, stat, db, lost>>
  BY DEF Message, Messaging, After, Turning, InItem, Holding, Priced, Side, item_vars, data_vars
<1>2. Item \in Stock /\ alerts \in [Stock -> Seq(Alert)] /\ db \in [Stock -> {"BUY", "SALE"}]
  BY <1>1, ItemIsStock DEF TypeOK
<1>3. \A d \in Side : /\ Messaging(d) => d = side
                      /\ ~ Updating(d) /\ ~ Updating(d)' /\ ~ Messaging(d)'
  BY <1>1 DEF Updating, Messaging, Turning, Side
<1> DEFINE a == [side |-> side, own |-> ~ unread, price |-> price[Item]]
<1>4. alerts' = [alerts EXCEPT ![Item] = Append(@, a)]
  BY DEF Message
<1>5. a.side = side
  OBVIOUS
<1> HIDE DEF a
<1> SUFFICES ASSUME NEW s \in Stock, s \notin lost
             PROVE  StatFollows(s)' /\ LastSays(s)' /\ Alternates(s)'
  BY <1>1, ZenonT(20) DEF InTurn
<1>6. StatFollows(s) /\ LastSays(s) /\ Alternates(s)
  BY DEF InTurn
<1>7. StatFollows(s)'
  BY <1>1, <1>3, <1>6, ZenonT(20) DEF StatFollows, Side
<1>8. CASE s # Item
  <2>1. alerts'[s] = alerts[s]
    BY <1>2, <1>4, <1>8
  <2>2. QED
    BY <1>1, <1>3, <1>6, <1>7, <1>8, <2>1 DEF LastSays, Alternates, Side
<1>9. CASE s = Item
  <2>1. /\ alerts'[s] = Append(alerts[s], a) /\ alerts[s] \in Seq(Alert)
    BY <1>2, <1>4, <1>9, ZenonT(20)
  <2>2. db[s] = Target(side)
    BY <1>1, <1>6, <1>9 DEF LastSays
  <2>3. Len(alerts[s]) > 0 => alerts[s][Len(alerts[s])].side # side
    BY <1>1, <1>6, <1>9, <2>2 DEF LastSays, Side
  <2>4. LastSays(s)'
    BY <1>1, <1>3, <1>5, <2>1, <2>2 DEF LastSays, Side
  <2>5. Alternates(s)'
    <3> SUFFICES ASSUME NEW n \in 2 .. Len(alerts'[s])
                 PROVE  alerts'[s][n].side # alerts'[s][n - 1].side
      BY DEF Alternates
    <3>1. CASE n = Len(alerts[s]) + 1
      BY <1>5, <2>1, <2>3, <3>1
    <3>2. CASE n \in 2 .. Len(alerts[s])
      BY <1>6, <2>1, <3>2 DEF Alternates
    <3>3. QED
      BY <2>1, <3>1, <3>2
  <2>6. QED
    BY <1>7, <2>4, <2>5
<1>10. QED
  BY <1>8, <1>9

\* Every step keeps the turns.
LEMMA NextInTurn ==
    ASSUME TypeOK, InTurn, Next
    PROVE  InTurn'
<1>1. CASE Load
  BY <1>1, LoadInTurn
<1>2. CASE End
  BY <1>2, EndInTurn
<1>3. CASE Drop
  BY <1>3, InTurnFrame DEF Drop, data_vars, item_vars
<1>4. CASE OtherAlloc
  BY <1>4, InTurnFrame DEF OtherAlloc, data_vars, item_vars
<1>5. CASE Check
  BY <1>5, QuietKeeps DEF Check, Turning, data_vars, item_vars
<1>6. CASE Alloc
  BY <1>6, QuietKeeps DEF Alloc, Turning, data_vars, item_vars
<1>7. CASE Query
  BY <1>7, QuietKeeps DEF Query, Advance, Turning, data_vars, item_vars
<1>8. CASE Fetch
  BY <1>8, QuietKeeps DEF Fetch, Turning, data_vars, item_vars
<1>9. CASE Free
  BY <1>9, QuietKeeps DEF Free, Advance, Turning, data_vars, item_vars
<1>10. CASE Out
  BY <1>10, QuietKeeps DEF Out, Turning, data_vars, item_vars
<1>11. ASSUME NEW s \in Stock, Move(s) PROVE InTurn'
  BY <1>11, QuietKeeps DEF Move, Turning, item_vars
<1>12. ASSUME NEW side \in Side, Decide(side) PROVE InTurn'
  BY <1>12, DecideInTurn
<1>13. ASSUME NEW side \in Side, Update(side) PROVE InTurn'
  BY <1>13, UpdateInTurn
<1>14. ASSUME NEW side \in Side, Message(side) PROVE InTurn'
  BY <1>14, MessageInTurn
<1>15. QED
  BY <1>1, <1>2, <1>3, <1>4, <1>5, <1>6, <1>7, <1>8, <1>9, <1>10, <1>11, <1>12, <1>13, <1>14
     DEF Next, Side
------------------------------------------------------------------------------
\* The invariant holds at first, and a step that changes nothing keeps it.
LEMMA InitIInv == Init => IInv
<1> SUFFICES ASSUME Init PROVE IInv
  OBVIOUS
<1>1. TypeOK
  BY InitType
<1>2. pc = "down" /\ \A s \in Stock : alerts[s] = <<>>
  BY DEF Init
<1>3. InTurn
  BY <1>2 DEF InTurn, StatFollows, LastSays, Alternates, Messaging, Side
<1>4. OwnPrice
  BY <1>2 DEF OwnPrice, AlertOnOwnPrice, Priced, Updating, Messaging, Side
<1>5. Handles
  BY DEF Init, Handles, Holding, Priced
<1>6. QED
  BY <1>1, <1>3, <1>4, <1>5 DEF IInv

\* A step that changes nothing.
LEMMA StutterIInv ==
    ASSUME IInv, UNCHANGED vars
    PROVE  IInv'
<1>1. TypeOK'
  BY DEF IInv, TypeOK, vars
<1>2. InTurn'
  BY InTurnFrame DEF IInv, vars
<1>3. OwnPrice'
  BY OwnPriceFrame DEF IInv, vars
<1>4. Handles'
  BY DEF IInv, Handles, vars
<1>5. QED
  BY <1>1, <1>2, <1>3, <1>4 DEF IInv

\* The inductive invariant: memory, database and messages agree on the turns of a share,
\* the price at hand is the item's, and the statements are counted (spider.c:60-135).
THEOREM Invariance == Spec => []IInv
<1>1. ASSUME IInv, [Next]_vars PROVE IInv'
  <2>1. CASE Next
    BY <1>1, <2>1, NextType, NextInTurn, NextOwnPrice, NextHandles DEF IInv
  <2>2. CASE UNCHANGED vars
    BY <1>1, <2>2, StutterIInv
  <2>3. QED
    BY <1>1, <2>1, <2>2
<1>2. QED
  BY <1>1, InitIInv, PTL DEF Spec

\* Whatever restarts, failures and lost connections there are, spider_check_stock never
\* sends the same message of a share twice in a row, unless an update failed or a message
\* was lost with the process (spider.c:95-116).
THEOREM AlertsInTurn == Spec => []AlertsAlternate
<1>1. IInv => AlertsAlternate
  BY DEF IInv, InTurn, Alternates, AlertsAlternate
<1>2. QED
  BY <1>1, Invariance, PTL

\* A message is due at the share's own closing price if that could be read, although the
\* price is read several statements before the message is sent (spider.c:89-116).
THEOREM AlertsOwn == Spec => []AlertOnOwnPrice
<1>1. IInv => AlertOnOwnPrice
  BY DEF IInv, OwnPrice
<1>2. QED
  BY <1>1, Invariance, PTL

\* The statements of spider_check_stock are freed but for those of a query without an
\* answer and of a failed update, and none is used after its connection is gone unless
\* opsql_alloc replaced that meanwhile (spider.c:82-86, opsql.c:134-147, 226-242).
THEOREM HandlesCounted == Spec => []HandlesExact
<1>1. ASSUME IInv PROVE HandlesExact
  <2>1. pc = "idle" => open = leaked
    BY <1>1 DEF IInv, TypeOK, Handles
  <2>2. undefined => renewed
    BY <1>1 DEF IInv, Handles
  <2>3. QED
    BY <2>1, <2>2 DEF HandlesExact
<1>2. QED
  BY <1>1, Invariance, PTL
==============================================================================
