------------------------------- MODULE MqttOut -------------------------------
(***************************************************************************)
(* The broker's outgoing messages of one subscriber (module/mqtt/database.c,  *)
(* lib/handle_pub*.c built WITH_BROKER) and the client library that takes      *)
(* them (lib/, built without), as opmgr uses it: MQTT 3.1.1, a subscription    *)
(* made in the connect callback, mosquitto_loop_forever.  Publications are     *)
(* numbered and have QoS 1 or 2.  A connection is a pair of FIFO channels;      *)
(* when it is lost so is what is under way, and both ends know.               *)
(***************************************************************************)
EXTENDS Integers, Sequences, FiniteSets, SequencesExt

CONSTANTS
    MaxInflight,            \* max_inflight_messages, a set
    max_queued_messages,
    MaxLost                 \* bound on the connections lost

ASSUME MqttOutConstants ==
    MaxInflight \subseteq Nat \ {0} /\ max_queued_messages \in Nat \ {0} /\ MaxLost \in Nat

VARIABLES
    max,                    \* max_inflight_messages
    clean, sub_qos,         \* the subscriber's clean_start and the QoS it asks for
    s_state, s_in, got,     \* the subscriber: state (off: it is not started), msgs_in,
                            \* messages passed to on_message
    to_s, from_s,           \* its channels
    sock,                   \* the broker has a connection of it
    subscribed,             \* and its subscription
    out,                    \* its msgs_out: inflight, queued, quota
    last_mid,
    forwarded,              \* history: messages passed to sub__messages_queue
    taken,                  \* history: messages the session took
    ended,                  \* history: those a clean session ended with
    cut,                    \* history: how often each message was in flight when the connection was lost
    swapped,                \* history: a PUBREL released another message than its PUBLISH brought
    lost

s_vars == <<s_state, s_in, got>>
b_vars == <<sock, subscribed, out, last_mid, taken, ended>>
out_const == <<max, clean, sub_qos>>
out_vars == <<out_const, s_vars, b_vars, to_s, from_s, forwarded, cut, swapped, lost>>

Empty == [inflight |-> <<>>, queued |-> <<>>, quota |-> max]

OutInit ==
    /\ max \in MaxInflight /\ clean \in BOOLEAN /\ sub_qos \in {1, 2}
    /\ s_state \in {"off", "down"} /\ s_in = <<>> /\ got = <<>> /\ to_s = <<>> /\ from_s = <<>>
    /\ sock = FALSE /\ subscribed = FALSE /\ out = Empty /\ last_mid = 0
    /\ forwarded = <<>> /\ taken = <<>> /\ ended = {} /\ cut = <<>> /\ swapped = FALSE /\ lost = 0

Packet(t, mid) == [t |-> t, mid |-> mid]
Publish(m) == [t |-> "PUBLISH", mid |-> m.mid, msg |-> m.msg, qos |-> m.qos]

\* What a walk along a list that stops at the positions S meets.
Nth(S, k) == CHOOSE i \in S : Cardinality({j \in S : j <= i}) = k

Meets(list, S) == [k \in 1 .. Cardinality(S) |-> list[Nth(S, k)]]
------------------------------------------------------------------------------
\* util__increment_send_quota, util__decrement_send_quota.
Increment(quota) == Min({quota + 1, max})
Decrement(quota, n) == Max({quota - n, 0})

\* db__message_dequeue_first, n times.
PublishState(m) == [m EXCEPT !.state = IF m.qos = 1 THEN "publish_qos1" ELSE "publish_qos2"]

Dequeue(o, n) ==
    [inflight |-> o.inflight \o [i \in 1 .. n |-> PublishState(o.queued[i])],
     queued |-> SubSeq(o.queued, n + 1, Len(o.queued)),
     quota |-> Decrement(o.quota, n)]

\* db__message_write_queued_out.
write_queued_out(o) == Dequeue(o, Min({Len(o.queued), o.quota}))

\* db__message_write_inflight_out_single: what is sent, and the state after it.
Unsent == {"publish_qos1", "publish_qos2", "resend_pubrel"}

Sends(m) == IF m.state = "resend_pubrel" THEN Packet("PUBREL", m.mid) ELSE Publish(m)

Sent(m) ==
    [m EXCEPT !.state = CASE @ = "publish_qos1" -> "wait_for_puback"
                          [] @ = "publish_qos2" -> "wait_for_pubrec"
                          [] @ = "resend_pubrel" -> "wait_for_pubcomp"
                          [] OTHER -> @]

\* db__message_write_inflight_out_all, from the i-th message on: packets, then the list.
PacketsFrom(o, i) ==
    LET unsent == {k \in i .. Len(o.inflight) : o.inflight[k].state \in Unsent}
    IN  Meets([k \in DOMAIN o.inflight |-> Sends(o.inflight[k])], unsent)

WrittenFrom(o, i) ==
    [o EXCEPT !.inflight = [k \in DOMAIN @ |-> IF k >= i THEN Sent(@[k]) ELSE @[k]]]

\* db__message_write_inflight_out_latest begins behind the last message that is not to
\* be published.
Latest(o) ==
    LET others == {i \in 2 .. Len(o.inflight) :
                      o.inflight[i].state \notin {"publish_qos1", "publish_qos2"}}
    IN  IF others = {} THEN 1 ELSE 1 + CHOOSE i \in others : \A j \in others : j <= i

------------------------------------------------------------------------------
\* db__ready_for_flight.  As it, whatever is in flight.
ReadyAlways == TRUE

ready_for_flight == out.quota > 0

\* db__ready_for_queue.
ready_for_queue ==
    Len(out.inflight) + Len(out.queued) - (IF sock THEN max ELSE 0) < max_queued_messages

\* db__message_insert of a message for the subscriber; what is dequeued at the end is
\* not sent yet.
Inserted(m, list) == [out EXCEPT ![list] = Append(@, m), !.quota = Decrement(@, 1)]

Update(o) ==
    IF sock THEN /\ out' = write_queued_out(WrittenFrom(o, Latest(o)))
                 /\ to_s' = to_s \o PacketsFrom(o, Latest(o))
    ELSE out' = o /\ UNCHANGED to_s

db__message_insert(m) ==
    IF (sock /\ ready_for_flight) \/ ready_for_queue
    THEN /\ IF sock /\ ready_for_flight THEN Update(Inserted(PublishState(m), "inflight"))
            ELSE Update(Inserted(m, "queued"))
         /\ taken' = Append(taken, m.msg)
    ELSE UNCHANGED <<out, to_s, taken>>

\* mosquitto__mid_generate, far from where it wraps.
mid_generate == last_mid + 1

\* sub__messages_queue, subs__send, for one subscription.
sub__messages_queue(msg, qos) ==
    /\ forwarded' = Append(forwarded, msg)
    /\ IF subscribed
       THEN /\ last_mid' = mid_generate
            /\ db__message_insert([mid |-> mid_generate, msg |-> msg, qos |-> Min({qos, sub_qos}),
                                   state |-> "queued"])
       ELSE UNCHANGED <<last_mid, out, to_s, taken>>
    /\ UNCHANGED <<out_const, s_vars, from_s, sock, subscribed, ended, cut, swapped, lost>>
------------------------------------------------------------------------------
\* A packet from the subscriber is handled by the broker.
Positions(list, mid) == {i \in DOMAIN list : list[i].mid = mid}
First(list, mid) == CHOOSE i \in Positions(list, mid) : \A j \in Positions(list, mid) : i <= j

FromSubscriber(t) == sock /\ from_s # <<>> /\ Head(from_s).t = t /\ from_s' = Tail(from_s)

\* db__message_delete_outgoing: before the found message there are i - 1, and that is all
\* the count knows of what is in flight.
delete_outgoing(o, mid) ==
    LET found == Positions(o.inflight, mid) # {}
        i == First(o.inflight, mid)
        index == IF found THEN i - 1 ELSE Len(o.inflight)
        rest == IF found THEN [o EXCEPT !.inflight = RemoveAt(@, i)] ELSE o
    IN  Dequeue(rest, Min({Len(o.queued), Max({max - index, 0})}))

\* handle__pubackcomp.  An answer of the library fits the message's QoS and state.
handle__pubackcomp ==
    /\ FromSubscriber("PUBACK") \/ FromSubscriber("PUBCOMP")
    /\ LET o == delete_outgoing([out EXCEPT !.quota = Increment(@)], Head(from_s).mid) IN
       out' = WrittenFrom(o, Latest(o)) /\ to_s' = to_s \o PacketsFrom(o, Latest(o))
    /\ UNCHANGED <<out_const, s_vars, sock, subscribed, last_mid, taken, ended, forwarded, cut, swapped, lost>>

\* handle__pubrec, db__message_update_outgoing.
handle__pubrec ==
    /\ FromSubscriber("PUBREC")
    /\ LET mid == Head(from_s).mid IN
       /\ out' = IF Positions(out.inflight, mid) = {} THEN out
                 ELSE [out EXCEPT !.inflight[First(out.inflight, mid)].state = "wait_for_pubcomp"]
       /\ to_s' = Append(to_s, Packet("PUBREL", mid))
    /\ UNCHANGED <<out_const, s_vars, sock, subscribed, last_mid, taken, ended, forwarded, cut, swapped, lost>>

\* handle__subscribe.
handle__subscribe ==
    /\ FromSubscriber("SUBSCRIBE")
    /\ subscribed' = TRUE
    /\ UNCHANGED <<out_const, s_vars, to_s, sock, out, last_mid, taken, ended, forwarded, cut, swapped, lost>>

\* connect__on_authorised with db__message_reconnect_reset_outgoing: the session goes on.
\* As Retry, publishing again what only lacks the last answer; leaving messages as they are.
RetryAll(m) == PublishState(m)

RetryNothing(m) == m

Retry(m) ==
    IF m.state = "wait_for_pubcomp" THEN [m EXCEPT !.state = "resend_pubrel"]
    ELSE PublishState(m)

reconnect_reset_outgoing ==
    write_queued_out([out EXCEPT !.quota = Decrement(max, Len(out.inflight)),
                                 !.inflight = [i \in DOMAIN @ |-> Retry(@[i])]])

handle__connect ==
    /\ ~ sock /\ from_s # <<>> /\ Head(from_s).t = "CONNECT" /\ from_s' = Tail(from_s)
    /\ sock' = TRUE
    /\ LET o == reconnect_reset_outgoing IN
       /\ out' = WrittenFrom(o, 1)
       /\ to_s' = <<Packet("CONNACK", 0)>> \o PacketsFrom(o, 1)
    /\ UNCHANGED <<out_const, s_vars, subscribed, last_mid, taken, ended, forwarded, cut, swapped, lost>>
------------------------------------------------------------------------------
\* The subscriber.
Takes(t) == to_s # <<>> /\ Head(to_s).t = t /\ to_s' = Tail(to_s)

Answers(t) == from_s' = Append(from_s, Packet(t, Head(to_s).mid))

\* mosquitto__reconnect: message__reconnect_reset keeps the messages of QoS 2, the only
\* ones there are.
mosquitto__reconnect ==
    /\ s_state = "down" /\ s_state' = "connected"
    /\ from_s' = <<Packet("CONNECT", 0)>>
    /\ UNCHANGED <<out_const, s_in, got, to_s, b_vars, forwarded, cut, swapped, lost>>

\* handle__connack, with opmgr_on_connect.
handle__connack ==
    /\ Takes("CONNACK") /\ s_state' = "active"
    /\ Answers("SUBSCRIBE")
    /\ UNCHANGED <<out_const, s_in, got, b_vars, forwarded, cut, swapped, lost>>

\* handle__publish, with message__queue.
handle__publish ==
    /\ Takes("PUBLISH")
    /\ LET p == Head(to_s) IN
       IF p.qos = 1 THEN Answers("PUBACK") /\ got' = Append(got, p.msg) /\ UNCHANGED s_in
       ELSE Answers("PUBREC") /\ s_in' = Append(s_in, [mid |-> p.mid, msg |-> p.msg]) /\ UNCHANGED got
    /\ UNCHANGED <<out_const, s_state, b_vars, forwarded, cut, swapped, lost>>

\* handle__pubrel, with message__remove.
Meant(mid) == {i \in DOMAIN out.inflight : out.inflight[i].mid = mid}

handle__pubrel ==
    /\ Takes("PUBREL") /\ Answers("PUBCOMP")
    /\ LET mid == Head(to_s).mid IN
       IF Positions(s_in, mid) = {} THEN UNCHANGED <<s_in, got, swapped>>
       ELSE LET i == First(s_in, mid) IN
            /\ got' = Append(got, s_in[i].msg)
            /\ s_in' = RemoveAt(s_in, i)
            /\ swapped' = (swapped \/ \E k \in Meant(mid) : out.inflight[k].msg # s_in[i].msg)
    /\ UNCHANGED <<out_const, s_state, b_vars, forwarded, cut, lost>>

\* The connection is lost: net__socket_close, and context__disconnect, which ends a clean
\* session (context__cleanup, db__messages_delete, sub__clean_session).
InFlight == {out.inflight[i].msg : i \in DOMAIN out.inflight}
Waiting == InFlight \union {out.queued[i].msg : i \in DOMAIN out.queued}

LoseSubscriber ==
    /\ s_state \in {"connected", "active"} /\ lost < MaxLost
    /\ lost' = lost + 1
    /\ s_state' = "down" /\ to_s' = <<>> /\ from_s' = <<>> /\ sock' = FALSE
    /\ cut' = [m \in DOMAIN cut \union InFlight |->
                 (IF m \in DOMAIN cut THEN cut[m] ELSE 0) + (IF m \in InFlight THEN 1 ELSE 0)]
    /\ IF clean
       THEN subscribed' = FALSE /\ out' = Empty /\ last_mid' = 0 /\ ended' = ended \union Waiting
       ELSE UNCHANGED <<subscribed, out, last_mid, ended>>
    /\ UNCHANGED <<out_const, s_in, got, taken, forwarded, swapped>>

BrokerOut == handle__connect \/ handle__subscribe \/ handle__pubackcomp \/ handle__pubrec
Subscriber == mosquitto__reconnect \/ handle__connack \/ handle__publish \/ handle__pubrel
==============================================================================
