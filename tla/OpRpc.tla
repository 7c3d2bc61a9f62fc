-------------------------------- MODULE OpRpc --------------------------------
(***************************************************************************)
(* Remote calls over TIPC (base/oprpc.c).  A caller opens a connection,      *)
(* writes a header and the request, and waits for the answer up to           *)
(* TIPC_WAIT_TIMEOUT_MS; the server's event-loop thread reads the stream     *)
(* through a bufferevent, calls the registered callback and writes the       *)
(* answer.  op_tipc_init starts that thread before it has set client_hash    *)
(* and tipc_self.                                                           *)
(*                                                                         *)
(* A connection carries one request, so the bytes on it are the positions    *)
(* 1 .. Total(c): the first lo have been taken out of the input buffer and   *)
(* the first hi have come in.  What is read as a header is one exactly when  *)
(* it is read from position 1.  A callback of libevent is one action, the    *)
(* server thread being sequential.  Following a null pointer makes the       *)
(* process undefined, and nothing happens from there on.                     *)
(***************************************************************************)
EXTENDS Integers, FiniteSets

CONSTANTS
    Caller,            \* calls of _op_tipc_send, each with its own connection
    Type,              \* the types they ask for
    Size,              \* the sizes of their requests
    Return,            \* what a callback may return
    Failure,           \* what may fail: see Failures
    TIPC_HEADER_SIZE, RPC_MAX_ELEMENT, RPC_REQ_SIZE, RPC_RESPONSE_SIZE

\* op_hash_new, connect, op_calloc and bufferevent_socket_new on accept, a
\* connection reset, and a caller's read that comes back short.
Failures == {"hash", "connect", "calloc", "bufferevent", "reset", "short"}

ASSUME RpcConstants ==
    /\ Type \subseteq Nat /\ Size \subseteq Nat /\ Return \subseteq Int
    /\ Failure \subseteq Failures
    /\ TIPC_HEADER_SIZE \in Nat \ {0}
    /\ {RPC_MAX_ELEMENT, RPC_REQ_SIZE, RPC_RESPONSE_SIZE} \subseteq Nat

VARIABLES
    ready,       \* what op_tipc_init has set since pthread_create: "hash", "self"
    failed,      \* op_tipc_init has given up
    cb,          \* the types that have a callback
    request,     \* what each call asks: type, size, and whether it wants the answer
    call,        \* where each call is: "idle", "waiting", "closed"
    result,      \* what it returned
    conn,        \* the server's end of each connection
    client_hash  \* the connections the server has recorded

vars == <<ready, failed, cb, request, call, result, conn, client_hash>>

Total(c) == TIPC_HEADER_SIZE + request[c].size

\* A connection nobody has accepted.  client is the struct _tipc_client, reply
\* the size of the answer (-1: none); chunks, handled, refused and torn are
\* history: the pieces the request came in, the calls made for it, that it found
\* no callback, and a call made with other bytes than the request's.
Fresh == [client |-> "none", hi |-> 0, lo |-> 0, event_type |-> "HEAD",
          water_level |-> TIPC_HEADER_SIZE, reply |-> -1, null |-> FALSE,
          chunks |-> 0, handled |-> 0, refused |-> FALSE, torn |-> FALSE]

Init ==
    /\ ready = {} /\ failed = FALSE /\ cb = {}
    /\ request \in [Caller -> [type : Type, size : Size, answer : BOOLEAN]]
    /\ call = [c \in Caller |-> "idle"] /\ result = [c \in Caller |-> 0]
    /\ conn = [c \in Caller |-> Fresh] /\ client_hash = {}

Undefined == \E c \in Caller : conn[c].null

\* tipc_self is NULL until op_tipc_init is done.
tipc_self == "self" \in ready
------------------------------------------------------------------------------
\* The thread that calls op_tipc_init and op_tipc_register.  opserver_init
\* ignores the failure of op_tipc_init.

op_tipc_init ==
    /\ ~ failed
    /\ \/ "hash" \notin ready /\ ready' = ready \cup {"hash"} /\ UNCHANGED failed
       \/ "hash" \notin ready /\ "hash" \in Failure /\ failed' = TRUE /\ UNCHANGED ready
       \/ "hash" \in ready /\ ~ tipc_self /\ ready' = ready \cup {"self"} /\ UNCHANGED failed
    /\ UNCHANGED <<cb, request, call, result, conn, client_hash>>

op_tipc_register(t) ==
    /\ tipc_self /\ t < RPC_MAX_ELEMENT
    /\ t \notin cb /\ cb' = cb \cup {t}
    /\ UNCHANGED <<ready, failed, request, call, result, conn, client_hash>>
------------------------------------------------------------------------------
\* The server's event loop.

\* rpc_free_client reads tipc_self unchecked; delete takes c out of client_hash.
rpc_free_client(c) ==
    /\ conn' = [conn EXCEPT ![c].client = "freed", ![c].null = ~ tipc_self]
    /\ client_hash' = client_hash \ {c}

\* Without memory for the client the accepted descriptor is left open.
rpc_tipc_accept__dispatch(c) ==
    /\ call[c] # "idle" /\ conn[c].client = "none"
    /\ \/ /\ conn' = [conn EXCEPT ![c].client = "live", ![c].null = "hash" \notin ready]
          /\ client_hash' = client_hash \cup {c}
       \/ /\ "calloc" \in Failure
          /\ conn' = [conn EXCEPT ![c].client = "leaked"]
          /\ UNCHANGED client_hash
       \/ /\ "bufferevent" \in Failure
          /\ rpc_free_client(c)
    /\ UNCHANGED <<ready, failed, cb, request, call, result>>

\* tipc_read, on the connection k of call c, gives the set of its outcomes.

\* "out": a header comes next, and the input is flushed.
Out(k) == [k EXCEPT !.event_type = "HEAD", !.water_level = TIPC_HEADER_SIZE, !.lo = k.hi]

\* The answer to a callback's return value, if it is sent.
Reply(ret) == IF ret > RPC_RESPONSE_SIZE THEN -1 ELSE IF ret < 0 THEN 0 ELSE ret

IsRequest(c, k) ==
    k.lo = TIPC_HEADER_SIZE /\ k.water_level = request[c].size /\ k.hi - k.lo >= k.water_level

\* As Dispatch, had it answered a request that has no callback.
DispatchAnswersAll(c, k) ==
    IF ~ tipc_self THEN {[k EXCEPT !.null = TRUE]}
    ELSE IF request[c].type >= RPC_MAX_ELEMENT \/ request[c].type \notin cb
    THEN {Out([k EXCEPT !.refused = TRUE, !.reply = 0])}
    ELSE {Out([k EXCEPT !.handled = @ + 1, !.reply = Reply(ret)]) : ret \in Return}

\* The content has been read: call the callback and answer.
Dispatch(c, k) ==
    IF ~ tipc_self THEN {[k EXCEPT !.null = TRUE]}
    ELSE IF request[c].type >= RPC_MAX_ELEMENT \/ request[c].type \notin cb THEN {Out([k EXCEPT !.refused = TRUE])}
    ELSE {Out([k EXCEPT !.handled = @ + 1, !.torn = @ \/ ~ IsRequest(c, k), !.reply = Reply(ret)])
            : ret \in Return}

\* As ReadContent, without the test of the size read.
ReadContentShort(c, k) == Dispatch(c, k)

ReadContent(c, k) ==
    IF k.hi - k.lo < k.water_level THEN {Out(k)} ELSE Dispatch(c, k)

\* As ReadHead, had it waited for the next chunk to read the content.
ReadHeadWaits(c, k) ==
    IF k.lo # 0 \/ request[c].size > RPC_REQ_SIZE THEN {Out(k)} ELSE
    {[k EXCEPT !.lo = TIPC_HEADER_SIZE, !.event_type = "CONTENT",
               !.water_level = request[c].size]}

ReadHead(c, k) ==
    IF k.lo # 0 \/ request[c].size > RPC_REQ_SIZE THEN {Out(k)} ELSE
    LET h == [k EXCEPT !.lo = TIPC_HEADER_SIZE, !.event_type = "CONTENT",
                       !.water_level = request[c].size]
    IN  IF h.hi - h.lo >= h.water_level THEN ReadContent(c, h) ELSE {h}

\* The low-water mark of the bufferevent stays at the size of the header
\* (oprpc.c:308): with less than that in the input, tipc_read is not called.
tipc_read(c, k) ==
    CASE k.hi - k.lo < TIPC_HEADER_SIZE -> {k}
      [] k.hi - k.lo >= TIPC_HEADER_SIZE /\ k.event_type = "HEAD" -> ReadHead(c, k)
      [] k.hi - k.lo >= TIPC_HEADER_SIZE /\ k.event_type = "CONTENT" -> ReadContent(c, k)

\* libevent moves the next n bytes of the stream into the input.
Receive(c) ==
    /\ conn[c].client = "live"
    /\ \E n \in 1 .. Total(c) - conn[c].hi :
          \E k \in tipc_read(c, [conn[c] EXCEPT !.hi = @ + n, !.chunks = @ + 1]) :
             conn' = [conn EXCEPT ![c] = k]
    /\ UNCHANGED <<ready, failed, cb, request, call, result, client_hash>>

\* As EndOfStream, for a mask without BEV_EVENT_EOF.
end_of_stream_ignored(c) ==
    /\ conn[c].client = "live" /\ call[c] = "closed" /\ conn[c].hi = Total(c)
    /\ UNCHANGED vars

\* tipc_event with BEV_EVENT_EOF: the end of the stream comes after its last byte.
EndOfStream(c) ==
    /\ conn[c].client = "live" /\ call[c] = "closed" /\ conn[c].hi = Total(c)
    /\ rpc_free_client(c)
    /\ UNCHANGED <<ready, failed, cb, request, call, result>>

\* tipc_event with BEV_EVENT_ERROR: a reset may come any time, or never.
Reset(c) ==
    /\ conn[c].client = "live" /\ "reset" \in Failure
    /\ rpc_free_client(c)
    /\ UNCHANGED <<ready, failed, cb, request, call, result>>
------------------------------------------------------------------------------
\* The caller, _op_tipc_send.

Close(c, ret) ==
    /\ call' = [call EXCEPT ![c] = "closed"]
    /\ result' = [result EXCEPT ![c] = ret]

\* Up to the wait.  A call without a response closes at once; one that cannot
\* connect fails.
op_tipc_send(c) ==
    /\ call[c] = "idle"
    /\ \/ /\ request[c].answer
          /\ call' = [call EXCEPT ![c] = "waiting"] /\ UNCHANGED <<result, conn>>
       \/ /\ ~ request[c].answer
          /\ Close(c, 0) /\ UNCHANGED conn
       \/ /\ "connect" \in Failure
          /\ Close(c, -1) /\ conn' = [conn EXCEPT ![c].client = "never"]
    /\ UNCHANGED <<ready, failed, cb, request, client_hash>>

\* The answer is there; its two reads may come back short.
ReadAnswer(c) ==
    /\ call[c] = "waiting" /\ conn[c].reply >= 0
    /\ \/ Close(c, conn[c].reply)
       \/ "short" \in Failure /\ Close(c, -1)
    /\ UNCHANGED <<ready, failed, cb, request, conn, client_hash>>

\* TIPC_WAIT_TIMEOUT_MS is over, or the connection is gone.  The answer may be
\* on its way.
WaitTimeout(c) ==
    /\ call[c] = "waiting"
    /\ Close(c, -1)
    /\ UNCHANGED <<ready, failed, cb, request, conn, client_hash>>
------------------------------------------------------------------------------
CallerStep(c) == op_tipc_send(c) \/ ReadAnswer(c) \/ WaitTimeout(c)
ServerStep(c) == rpc_tipc_accept__dispatch(c) \/ Receive(c) \/ EndOfStream(c) \/ Reset(c)

Next ==
    /\ ~ Undefined
    /\ \/ op_tipc_init
       \/ \E t \in Type : op_tipc_register(t)
       \/ \E c \in Caller : CallerStep(c) \/ ServerStep(c)

Spec == Init /\ [][Next]_vars

\* The event loop runs for ever, the kernel delivers what was written and its
\* end, op_tipc_init goes on, and a wait ends.
Fairness ==
    /\ WF_vars(~ Undefined /\ op_tipc_init)
    /\ \A c \in Caller :
          /\ WF_vars(~ Undefined /\ rpc_tipc_accept__dispatch(c))
          /\ WF_vars(~ Undefined /\ Receive(c))
          /\ WF_vars(~ Undefined /\ EndOfStream(c))
          /\ WF_vars(~ Undefined /\ (ReadAnswer(c) \/ WaitTimeout(c)))

FairSpec == Spec /\ Fairness
------------------------------------------------------------------------------
\* However the stream is cut, a callback gets its own request, whole, and at most
\* once (oprpc.c:166-216).
RequestWholeOnce ==
    \A c \in Caller : conn[c].handled <= 1 /\ ~ conn[c].torn

\* A request that has come in and was not served had no callback or was too large,
\* or it was cut: the rest of its content is shorter than a header and does not
\* wake tipc_read (oprpc.c:308), or a part of its content was flushed
\* (oprpc.c:195), which takes three pieces.
UnservedWasCut ==
    \A c \in Caller :
       LET k == conn[c] IN
       ~ Undefined /\ k.client = "live" /\ k.hi = Total(c) /\ k.handled = 0
         => \/ k.refused \/ request[c].size > RPC_REQ_SIZE
            \/ k.event_type = "CONTENT" /\ k.hi - k.lo < TIPC_HEADER_SIZE
            \/ k.chunks > 2

\* A call that wanted an answer and returned one was executed (oprpc.c:216-231,
\* 495-554); one that returned -1 may have been.
SuccessWasServed ==
    \A c \in Caller :
       call[c] = "closed" /\ request[c].answer /\ result[c] >= 0 => conn[c].handled = 1

\* Whatever happened to the call, a stalled or flushed request included, the
\* server frees the connection once the caller has closed it (oprpc.c:259).
Released ==
    \A c \in Caller :
       call[c] = "closed" ~> Undefined \/ conn[c].client \in {"never", "leaked", "freed"}
==============================================================================
