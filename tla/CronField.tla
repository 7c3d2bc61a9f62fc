------------------------------ MODULE CronField ------------------------------
(***************************************************************************)
(* ParseField (module/timer_service/timer_service.c): how a field of a       *)
(* crontab line ("0-10/5,30") becomes a set of minutes, hours, days, months  *)
(* or weekdays.  The fill loop is modelled turn by turn, because it ends by  *)
(* meeting n2 and not by counting.                                          *)
(*                                                                         *)
(* The text is a sequence of tokens: "*", a number (after off was added; a   *)
(* name gives the number at once), "-", "/" with its number, "," and          *)
(* anything else.  Numbers below 0 after off (month 0) are left out: the     *)
(* code then writes in front of the array.                                  *)
(***************************************************************************)
EXTENDS Integers, Sequences

CONSTANTS
    modvalue,    \* the size of the array
    Value,       \* the numbers that occur
    Step,        \* the numbers that occur after "/"
    MaxItems,    \* items in a field
    Failsafe     \* turns after which the fill loop gives up: 1024

ASSUME CronConstants ==
    /\ modvalue \in Nat \ {0} /\ Value \subseteq Nat /\ Step \subseteq Int /\ MaxItems \in Nat
    /\ Failsafe \in Nat /\ Failsafe > modvalue

VARIABLES
    items,               \* history: the field, item by item
    ptr,                 \* the tokens ParseField has not looked at
    stage,               \* "value", "fill", "next", "done", "err"
    n1, n2, skip, s0, failsafe,
    ary                  \* the entries that are 1

field_vars == <<items, ptr, stage, n1, n2, skip, s0, failsafe, ary>>

Token(k, v) == [k |-> k, v |-> v]

\* An item: everything, a number or a range, with a step or without; or no item.
Item ==
    [k : {"*"}, from : {0}, to : {modvalue - 1}, step : Step \cup {1}]
    \cup [k : {"value"}, from : Value, to : {0}, step : Step \cup {1}]
    \cup [k : {"range"}, from : Value, to : Value, step : Step \cup {1}]
    \cup [k : {"other"}, from : {0}, to : {0}, step : {1}]

Slash(i, rest) == (IF i.step = 1 THEN <<>> ELSE <<Token("/", i.step)>>) \o rest

\* The tokens of an item, before those of the rest of the field.
Text(i, rest) ==
    CASE i.k = "*"     -> <<Token("*", 0)>> \o Slash(i, rest)
      [] i.k = "value" -> <<Token("number", i.from)>> \o Slash(i, rest)
      [] i.k = "range" ->
           <<Token("number", i.from)>> \o (<<Token("-", 0)>> \o (<<Token("number", i.to)>> \o Slash(i, rest)))
      [] i.k = "other" -> <<Token("other", 0)>> \o rest

Field(s) ==
    LET from[n \in 1 .. Len(s)] ==
          Text(s[n], IF n = Len(s) THEN <<>> ELSE <<Token(",", 0)>> \o from[n + 1])
    IN  from[1]

FieldInit ==
    /\ items \in UNION {[1 .. n -> Item] : n \in 1 .. MaxItems}
    /\ ptr = Field(items) /\ stage = "value"
    /\ n1 = -1 /\ n2 = -1 /\ skip = 0 /\ s0 = 0 /\ failsafe = 0 /\ ary = {}

\* The token at ptr, if it is a k.
At(p, k) == p # <<>> /\ Head(p).k = k

\* What follows the number: a range goes on, otherwise the loop starts.
AfterValue(p, a, b) ==
    IF At(p, "-") /\ b < 0
    THEN /\ stage' = "value" /\ ptr' = Tail(p) /\ n1' = a /\ n2' = b
         /\ UNCHANGED <<skip, s0, failsafe>>
    ELSE /\ stage' = "fill"
         /\ n1' = a - 1 /\ n2' = (IF b < 0 THEN a ELSE b)
         /\ skip' = (IF At(p, "/") THEN Head(p).v ELSE 1)
         /\ ptr' = (IF At(p, "/") THEN Tail(p) ELSE p)
         /\ s0' = 1 /\ failsafe' = Failsafe

\* The head of the loop: "*", a number or a name, else an error.
ReadValue ==
    /\ stage = "value"
    /\ IF At(ptr, "*") THEN AfterValue(Tail(ptr), 0, modvalue - 1)
       ELSE IF At(ptr, "number")
       THEN IF n1 < 0 THEN AfterValue(Tail(ptr), Head(ptr).v, n2)
                      ELSE AfterValue(Tail(ptr), n1, Head(ptr).v)
       ELSE stage' = "err" /\ UNCHANGED <<ptr, n1, n2, skip, s0, failsafe>>
    /\ UNCHANGED <<items, ary>>

\* As Reload, one too many.
ReloadLate == skip + 1

\* What s0 is set to when an entry has been set.
Reload == skip

\* As GivesUp, without the failsafe.
NeverGivesUp(f) == FALSE

GivesUp(f) == f = 0

Turn == (n1 + 1) % modvalue

Reached(n) == n = n2

\* A turn of the fill loop.
Fill ==
    /\ stage = "fill"
    /\ n1' = Turn
    /\ ary' = IF s0 = 1 THEN ary \cup {n1'} ELSE ary
    /\ s0' = IF s0 = 1 THEN Reload ELSE s0 - 1
    /\ failsafe' = IF failsafe = 0 THEN 0 ELSE failsafe - 1
    /\ stage' = IF GivesUp(failsafe') THEN "err" ELSE IF Reached(n1') THEN "next" ELSE "fill"
    /\ UNCHANGED <<items, ptr, n2, skip>>

\* A comma starts the next item; anything else but the end is an error.
NextItem ==
    /\ stage = "next"
    /\ IF At(ptr, ",")
       THEN stage' = "value" /\ ptr' = Tail(ptr) /\ n1' = -1 /\ n2' = -1
       ELSE stage' = (IF ptr = <<>> THEN "done" ELSE "err") /\ UNCHANGED <<ptr, n1, n2>>
    /\ UNCHANGED <<items, skip, s0, failsafe, ary>>

FieldNext == ReadValue \/ Fill \/ NextItem

FieldSpec == FieldInit /\ [][FieldNext]_field_vars

\* ParseField runs on.
FairFieldSpec == FieldSpec /\ WF_field_vars(FieldNext)
------------------------------------------------------------------------------
EndOf(i) == IF i.k = "value" THEN i.from ELSE i.to

InRange(i) == i.k # "other" /\ i.from < modvalue /\ EndOf(i) < modvalue

\* What an item stands for: from its first number on, around the end of the field
\* if need be, every step-th up to its last; a step below 1 gives the first alone.
Meaning(i) ==
    {n \in 0 .. modvalue - 1 :
       LET d == (n - i.from) % modvalue IN
       /\ d <= (EndOf(i) - i.from) % modvalue
       /\ IF i.step >= 1 THEN d % i.step = 0 ELSE d = 0}

\* A field of well-formed items in range sets exactly the entries they stand for,
\* and no error is reported (timer_service.c:97-182).
FieldExact ==
    (\A n \in DOMAIN items : InRange(items[n])) =>
       /\ stage # "err"
       /\ stage = "done" => ary = UNION {Meaning(items[n]) : n \in DOMAIN items}

\* ParseField ends on every field: "a failsafe is the easiest way to prevent an
\* endless loop" (timer_service.c:153-154).
Ends == <>(stage \in {"done", "err"})
==============================================================================
