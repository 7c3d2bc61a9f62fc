-------------------------------- MODULE Spider --------------------------------
(***************************************************************************)
(* The watch on share prices (module/spider/spider.c) and the database client *)
(* it uses (base/opsql.c).  A check goes through the shares in memory; a      *)
(* price at or below buy_price or at or above sale_price turns the state of   *)
(* the share, first in memory, then in the database, and then a message is    *)
(* sent.  Checks hold spider->lock, so there is one at a time.  The process   *)
(* may end anywhere and starts again with what the database holds.            *)
(*                                                                         *)
(* Statements belong to the connection they were allocated on: opsql_alloc    *)
(* replaces a dead connection, and its statements go with it.                 *)
(***************************************************************************)
EXTENDS Integers, Sequences

CONSTANTS
    Stocks,        \* the rows of stock_spider, in order
    Price,         \* the prices
    Limit,         \* buy_price and sale_price of each share
    Failure,       \* the calls that may fail, "null" for a price that is NULL
    MaxStarts,     \* times the process starts
    MaxChecks,     \* calls of spider_check_stock
    MaxLosses      \* times the connection dies

Stock == {Stocks[n] : n \in DOMAIN Stocks}

ASSUME SpiderConstants ==
    /\ Stocks \in Seq(Stock)
    /\ Price \subseteq Nat /\ 0 \in Price /\ Limit \in [Stock -> Price \X Price]
    /\ Failure \subseteq {"load", "alloc", "query", "fetch", "null", "exe"}
    /\ {MaxStarts, MaxChecks, MaxLosses} \subseteq Nat

VARIABLES
    price,      \* the last closing price of each share in stock_info
    db,         \* sta of each share in stock_spider
    stat,       \* item->stat of the shares in spider->head
    size,       \* the shares loaded: the first ones of Stocks
    pc, at,     \* where the check is, and at which item
    closing,    \* closing_price
    handle,     \* the connection the check's statement belongs to, 0 for NULL
    conn,       \* the current connection
    dead,       \* it is dead
    open,       \* statements of the current connection
    undefined,  \* a statement was used after it went with its connection
    alerts,     \* history: the messages of each share
    failed,     \* history: shares whose update failed since the start
    lost,       \* history: shares whose message was lost, with an update or an end
    unread,     \* history: closing is of another item
    renewed,    \* history: a connection was replaced in the middle of an item
    leaked,     \* history: statements of the current connection nobody will free
    starts, checks, losses

data_vars == <<price, db>>
item_vars == <<stat, size>>
sql_vars == <<conn, dead, open, leaked>>
count_vars == <<starts, checks, losses>>
vars == <<price, db, stat, size, pc, at, closing, handle, conn, dead, open, undefined,
          alerts, failed, lost, unread, renewed, leaked, starts, checks, losses>>

Item == Stocks[at]
May(f) == f \in Failure

\* The first start is spider_init on what the database holds.
Init ==
    /\ price = [s \in Stock |-> 0] /\ db \in [Stock -> {"BUY", "SALE"}]
    /\ stat = db /\ size = 0
    /\ pc = "down" /\ at = 0 /\ closing = 0 /\ handle = 0
    /\ conn = 1 /\ dead = FALSE /\ open = 0 /\ undefined = FALSE
    /\ alerts = [s \in Stock |-> <<>>] /\ failed = {} /\ lost = {}
    /\ unread = FALSE /\ renewed = FALSE /\ leaked = 0
    /\ starts = 0 /\ checks = 0 /\ losses = 0
------------------------------------------------------------------------------
\* spider_stock_load: whatever fails, the rows read before are kept.
Load ==
    /\ pc = "down" /\ starts < MaxStarts
    /\ size' \in IF May("load") THEN 0 .. Len(Stocks) ELSE {Len(Stocks)}
    /\ stat' = db
    /\ pc' = "idle"
    /\ starts' = starts + 1
    /\ UNCHANGED <<data_vars, at, closing, handle, sql_vars, undefined, alerts, failed, lost,
                   unread, renewed, checks, losses>>

\* The process ends, in a check or between two.
End ==
    /\ pc # "down" /\ starts < MaxStarts
    /\ pc' = "down" /\ size' = 0 /\ at' = 0 /\ closing' = 0 /\ handle' = 0
    /\ conn' = conn + 1 /\ dead' = FALSE /\ open' = 0 /\ leaked' = 0
    /\ failed' = {} /\ unread' = FALSE /\ renewed' = FALSE
    /\ lost' = lost \union failed \union
               IF pc \in {"buy_message", "sale_message"} THEN {Item} ELSE {}
    /\ UNCHANGED <<data_vars, stat, undefined, alerts, count_vars>>

\* A price moves; the server drops the connection.
Move(s) ==
    /\ pc = "idle"
    /\ \E p \in Price \ {price[s]} : price' = [price EXCEPT ![s] = p]
    /\ UNCHANGED <<db, item_vars, pc, at, closing, handle, sql_vars, undefined, alerts,
                   failed, lost, unread, renewed, count_vars>>

Drop ==
    /\ pc # "down" /\ ~ dead /\ losses < MaxLosses
    /\ dead' = TRUE /\ losses' = losses + 1
    /\ UNCHANGED <<data_vars, item_vars, pc, at, closing, handle, conn, open, undefined, alerts,
                   failed, lost, unread, renewed, leaked, starts, checks>>
------------------------------------------------------------------------------
\* opsql_alloc when it succeeds: a dead connection is replaced first.
\* before and after are the statements nobody will free: of the connection there
\* was, and the new one.
Allocated(before, after) ==
    /\ conn' = IF dead THEN conn + 1 ELSE conn
    /\ dead' = FALSE
    /\ open' = IF dead THEN 1 ELSE open + 1
    /\ leaked' = after + IF dead THEN 0 ELSE leaked + before

\* opsql_free.
Freed ==
    /\ undefined' = (handle # conn)
    /\ open' = IF handle = conn THEN open - 1 ELSE open

\* opsql_alloc of another thread (op4g_bus.c, opmail.c) replaces the dead connection.
OtherAlloc ==
    /\ pc # "down" /\ dead
    /\ conn' = conn + 1 /\ dead' = FALSE /\ open' = 0 /\ leaked' = 0
    /\ renewed' = (handle # 0)
    /\ UNCHANGED <<data_vars, item_vars, pc, at, closing, handle, undefined, alerts, failed, lost,
                   unread, count_vars>>

\* spider_check_stock is called.
Check ==
    /\ pc = "idle" /\ checks < MaxChecks
    /\ checks' = checks + 1
    /\ pc' = IF size = 0 THEN "idle" ELSE "alloc"
    /\ at' = IF size = 0 THEN 0 ELSE 1
    /\ closing' = 0 /\ unread' = FALSE /\ renewed' = FALSE
    /\ UNCHANGED <<data_vars, item_vars, handle, sql_vars, undefined, alerts, failed, lost,
                   starts, losses>>

\* A statement of an earlier item that was not freed is overwritten.
Alloc ==
    /\ pc = "alloc"
    /\ \/ /\ Allocated(IF handle = conn THEN 1 ELSE 0, 0)
          /\ handle' = conn'
          /\ renewed' = FALSE
          /\ pc' = "query"
       \/ /\ May("alloc")
          /\ handle' = 0
          /\ leaked' = IF handle = conn THEN leaked + 1 ELSE leaked
          /\ pc' = "out"
          /\ UNCHANGED <<conn, dead, open, renewed>>
    /\ UNCHANGED <<data_vars, item_vars, at, closing, undefined, alerts, failed, lost, unread,
                   count_vars>>

\* The next item, or behind the loop.
Advance ==
    /\ pc' = IF at < size THEN "alloc" ELSE "out"
    /\ at' = IF at < size THEN at + 1 ELSE at

\* opsql_query: without an answer the loop goes on, and keeps handle.
Query ==
    /\ pc = "query"
    /\ undefined' = (handle # conn)
    /\ \/ ~ dead /\ pc' = "fetch" /\ UNCHANGED at
       \/ (dead \/ May("query")) /\ Advance
    /\ UNCHANGED <<data_vars, item_vars, closing, handle, sql_vars, alerts, failed, lost,
                   unread, renewed, count_vars>>

\* opsql_bind_col and opsql_fetch_scroll; a column that is NULL, or not bound, leaves
\* closing_price what it was.
Fetch ==
    /\ pc = "fetch"
    /\ undefined' = (handle # conn)
    /\ \/ ~ dead /\ closing' = price[Item] /\ unread' = FALSE /\ pc' = "buy"
       \/ ~ dead /\ May("null") /\ unread' = TRUE /\ pc' = "buy" /\ UNCHANGED closing
       \/ (dead \/ May("fetch")) /\ pc' = "out" /\ UNCHANGED <<closing, unread>>
    /\ UNCHANGED <<data_vars, item_vars, at, handle, sql_vars, alerts, failed, lost, renewed,
                   count_vars>>
------------------------------------------------------------------------------
\* The two tests of the loop: side is what the message says.
Target(side) == IF side = "buy" THEN "SALE" ELSE "BUY"

\* As Turns, whatever the state of the share.
TurnsAlways(side) ==
    IF side = "buy" THEN Limit[Item][1] >= closing ELSE Limit[Item][2] <= closing

\* As Turns, with the comparisons the other way round.
TurnsReversed(side) ==
    /\ IF side = "buy" THEN Limit[Item][1] <= closing ELSE Limit[Item][2] >= closing
    /\ stat[Item] # Target(side)

Turns(side) ==
    /\ IF side = "buy" THEN Limit[Item][1] >= closing ELSE Limit[Item][2] <= closing
    /\ stat[Item] # Target(side)

After(side) == IF side = "buy" THEN "sale" ELSE "free"

Decide(side) ==
    /\ pc = side
    /\ IF Turns(side)
       THEN /\ stat' = [stat EXCEPT ![Item] = Target(side)]
            /\ pc' = IF side = "buy" THEN "buy_update" ELSE "sale_update"
       ELSE pc' = After(side) /\ UNCHANGED stat
    /\ UNCHANGED <<data_vars, size, at, closing, handle, sql_vars, undefined, alerts, failed,
                   lost, unread, renewed, count_vars>>

\* The check ends when the update fails.
FailedUpdate(side) ==
    /\ failed' = failed \union {Item}
    /\ lost' = lost \union {Item}
    /\ pc' = "out"

\* opsql_exe_single: a statement of its own, freed unless opsql_exe fails.
Update(side) ==
    /\ pc = IF side = "buy" THEN "buy_update" ELSE "sale_update"
    /\ \/ /\ conn' = IF dead THEN conn + 1 ELSE conn
          /\ dead' = FALSE
          /\ open' = IF dead THEN 0 ELSE open
          /\ leaked' = IF dead THEN 0 ELSE leaked
          /\ db' = [db EXCEPT ![Item] = Target(side)]
          /\ failed' = failed \ {Item}
          /\ pc' = IF side = "buy" THEN "buy_message" ELSE "sale_message"
          /\ UNCHANGED lost
       \/ May("exe") /\ Allocated(0, 1) /\ FailedUpdate(side) /\ UNCHANGED db
       \/ May("alloc") /\ FailedUpdate(side) /\ UNCHANGED <<conn, dead, open, leaked, db>>
    /\ renewed' = (renewed \/ (conn' # conn))
    /\ UNCHANGED <<price, item_vars, at, closing, handle, undefined, alerts, unread,
                   count_vars>>

\* op4g_send_message_ex.
Message(side) ==
    /\ pc = IF side = "buy" THEN "buy_message" ELSE "sale_message"
    /\ alerts' = [alerts EXCEPT ![Item] = Append(@, [side |-> side, own |-> ~ unread,
                                                     price |-> price[Item]])]
    /\ pc' = After(side)
    /\ UNCHANGED <<data_vars, item_vars, at, closing, handle, sql_vars, undefined, failed, lost,
                   unread, renewed, count_vars>>

\* opsql_free at the end of an item, and behind the loop.
Free ==
    /\ pc = "free"
    /\ Freed
    /\ handle' = 0
    /\ Advance
    /\ UNCHANGED <<data_vars, item_vars, closing, conn, dead, leaked, alerts, failed, lost,
                   unread, renewed, count_vars>>

\* As Out, without the last opsql_free.
out_keeps_handle ==
    /\ pc = "out"
    /\ pc' = "idle" /\ at' = 0 /\ handle' = 0
    /\ UNCHANGED <<data_vars, item_vars, closing, sql_vars, undefined, alerts, failed, lost,
                   unread, renewed, count_vars>>

Out ==
    /\ pc = "out"
    /\ IF handle # 0 THEN Freed ELSE UNCHANGED <<undefined, open>>
    /\ pc' = "idle" /\ at' = 0 /\ handle' = 0
    /\ UNCHANGED <<data_vars, item_vars, closing, conn, dead, leaked, alerts, failed, lost,
                   unread, renewed, count_vars>>

Next ==
    /\ ~ undefined
    /\ \/ Load \/ End \/ Drop \/ OtherAlloc \/ Check \/ Alloc \/ Query \/ Fetch \/ Free \/ Out
       \/ \E s \in Stock : Move(s)
       \/ \E side \in {"buy", "sale"} : Decide(side) \/ Update(side) \/ Message(side)

Spec == Init /\ [][Next]_vars
------------------------------------------------------------------------------
\* The messages of a share say buy and sale in turn, over every restart, unless an
\* update failed or the process ended between the update and the message
\* (spider.c:95-116): no message is sent twice.
AlertsAlternate ==
    \A s \in Stock \ lost :
       \A n \in 2 .. Len(alerts[s]) : alerts[s][n].side # alerts[s][n - 1].side

\* A message is about the share's own closing price, unless the price could not be read
\* (spider.c:89-93).
AlertOnOwnPrice ==
    \A s \in Stock : \A n \in DOMAIN alerts[s] :
       LET a == alerts[s][n] IN
       a.own => IF a.side = "buy" THEN Limit[s][1] >= a.price ELSE Limit[s][2] <= a.price

\* Between checks the only statements allocated are those of a query without an answer
\* and of a failed update, which are never freed (spider.c:82-86, opsql.c:226-242); and one
\* is used or freed after it went with its connection only when opsql_alloc replaced the
\* connection meanwhile: for the update of the same item, or in another thread
\* (opsql.c:134-147).
HandlesExact ==
    /\ pc = "idle" => open = leaked
    /\ undefined => renewed
==============================================================================
