--------------------------------- MODULE Mqtt ---------------------------------
(***************************************************************************)
(* The incoming half of the broker (module/mqtt/handle_publish.c, database.c)  *)
(* between a publisher that uses the client library (lib/) with a session of    *)
(* its own and the outgoing half, MqttOut.  mosquitto_publish is called by a    *)
(* thread of its own; the library's loop reads, and reconnects.  Identifiers    *)
(* are the numbers of the publications.                                       *)
(***************************************************************************)
EXTENDS MqttOut

CONSTANTS
    SendMaximum,       \* MOSQ_OPT_SEND_MAXIMUM of the publisher, a set
    MaxPublish         \* bound on the publications

ASSUME MqttConstants == SendMaximum \subseteq Nat \ {0} /\ MaxPublish \in Nat

VARIABLES
    flaky,                          \* whose connection is lost in this behaviour
    send_maximum,
    p_state, p_out, p_quota,        \* the publisher: state, msgs_out
    to_p, from_p,                   \* its channels
    p_sock, inc,                    \* the broker's connection and msgs_in of it
    published,                      \* the QoS of each publication
    acked,                          \* passed to on_publish
    windowed                        \* history: one was published within mosquitto__reconnect

pub_vars == <<p_state, p_out, p_quota, published, acked, windowed>>
in_vars == <<p_sock, inc>>
in_const == <<flaky, send_maximum>>
vars == <<out_vars, pub_vars, in_vars, in_const, to_p, from_p>>

Init ==
    /\ OutInit
    /\ flaky \in {"publisher", "subscriber"} /\ send_maximum \in SendMaximum
    /\ p_state = "down" /\ p_out = <<>> /\ p_quota = send_maximum
    /\ to_p = <<>> /\ from_p = <<>> /\ p_sock = FALSE
    /\ inc = [inflight |-> <<>>, queued |-> <<>>, quota |-> max]
    /\ published = <<>> /\ acked = {} /\ windowed = FALSE
------------------------------------------------------------------------------
\* The publisher.
Connected == p_state \in {"connected", "active"}

\* message__release_to_inflight: a message that cannot be written is left waiting, and
\* is not counted.
Invalid(list) == {i \in DOMAIN list : list[i].state = "invalid"}

Wait(m) == [m EXCEPT !.state = IF m.qos = 1 THEN "wait_for_puback" ELSE "wait_for_pubrec"]

FirstInvalid(list, n) ==
    {i \in Invalid(list) : Cardinality({j \in Invalid(list) : j <= i}) <= n}

PubPacket(m) == [t |-> "PUBLISH", mid |-> m.mid, msg |-> m.mid, qos |-> m.qos]

release_to_inflight(list, quota) ==
    LET room == IF Connected THEN quota ELSE Min({quota, 1})
        chosen == FirstInvalid(list, room)
        packets == Meets([i \in DOMAIN list |-> PubPacket(list[i])], chosen)
    IN  /\ p_out' = [i \in DOMAIN list |-> IF i \in chosen THEN Wait(list[i]) ELSE list[i]]
        /\ p_quota' = IF Connected THEN quota - Cardinality(chosen) ELSE quota
        /\ from_p' = IF Connected THEN from_p \o packets ELSE from_p

\* mosquitto_publish, from any thread, whatever the state of the connection.
mosquitto_publish(qos) ==
    /\ Len(published) < MaxPublish
    /\ published' = Append(published, qos)
    /\ release_to_inflight(Append(p_out, [mid |-> Len(published) + 1, qos |-> qos, state |-> "invalid"]),
                           p_quota)
    /\ windowed' = (windowed \/ p_state = "reset")
    /\ UNCHANGED <<out_vars, in_vars, in_const, p_state, acked, to_p>>

\* message__reconnect_reset.
Reset(m) ==
    [m EXCEPT !.state = IF m.qos = 1 THEN "publish_qos1"
                        ELSE CASE @ = "wait_for_pubrec" -> "publish_qos2"
                               [] @ = "wait_for_pubcomp" -> "resend_pubrel"
                               [] OTHER -> @]

reconnect_reset(update_quota_only) ==
    /\ p_out' = [i \in DOMAIN p_out |->
                   IF i > send_maximum THEN [p_out[i] EXCEPT !.state = "invalid"]
                   ELSE IF update_quota_only THEN p_out[i] ELSE Reset(p_out[i])]
    /\ p_quota' = Max({send_maximum - Len(p_out), 0})

\* mosquitto__reconnect, up to the connection, and from it on.  (A publication between
\* net__socket_connect and send__connect would end the connection again.)
pub_reconnect ==
    /\ p_state = "down" /\ p_state' = "reset"
    /\ reconnect_reset(FALSE)
    /\ UNCHANGED <<out_vars, in_vars, in_const, published, acked, windowed, to_p, from_p>>

pub_connect ==
    /\ p_state = "reset" /\ p_state' = "connected"
    /\ from_p' = <<Packet("CONNECT", 0)>>
    /\ UNCHANGED <<out_vars, in_vars, in_const, p_out, p_quota, published, acked, windowed, to_p>>

PubTakes(t) == to_p # <<>> /\ Head(to_p).t = t /\ to_p' = Tail(to_p)

\* handle__connack, with message__retry_check.
RetryPublish == {"publish_qos1", "publish_qos2"}
RetryPubrel == {"resend_pubrel", "wait_for_pubcomp"}

Again(m) == IF m.state \in RetryPublish THEN PubPacket(m) ELSE Packet("PUBREL", m.mid)

pub_connack ==
    /\ PubTakes("CONNACK") /\ p_state' = "active"
    /\ reconnect_reset(TRUE)
    /\ LET retried == {i \in DOMAIN p_out' : p_out'[i].state \in RetryPublish \union RetryPubrel}
       IN  from_p' = from_p \o Meets([i \in DOMAIN p_out' |-> Again(p_out'[i])], retried)
    /\ UNCHANGED <<out_vars, in_vars, in_const, published, acked, windowed>>

\* handle__pubackcomp of the library.
pub_pubackcomp ==
    /\ PubTakes("PUBACK") \/ PubTakes("PUBCOMP")
    /\ LET mid == Head(to_p).mid
           found == Positions(p_out, mid) # {}
       IN  /\ acked' = IF found THEN acked \union {mid} ELSE acked
           /\ release_to_inflight(IF found THEN RemoveAt(p_out, First(p_out, mid)) ELSE p_out,
                                  Min({p_quota + 1, send_maximum}))
    /\ UNCHANGED <<out_vars, in_vars, in_const, p_state, published, windowed>>

\* handle__pubrec of the library.
pub_pubrec ==
    /\ PubTakes("PUBREC")
    /\ LET mid == Head(to_p).mid IN
       /\ p_out' = IF Positions(p_out, mid) = {} THEN p_out
                   ELSE [p_out EXCEPT ![First(p_out, mid)].state = "wait_for_pubcomp"]
       /\ from_p' = Append(from_p, Packet("PUBREL", mid))
    /\ UNCHANGED <<out_vars, in_vars, in_const, p_state, p_quota, published, acked, windowed>>
------------------------------------------------------------------------------
\* The broker's side of the publisher.
FromPublisher(t) == p_sock /\ from_p # <<>> /\ Head(from_p).t = t /\ from_p' = Tail(from_p)

\* Moves the first n queued messages into flight.
InDequeue(c, n) ==
    [inflight |-> c.inflight \o SubSeq(c.queued, 1, n),
     queued |-> SubSeq(c.queued, n + 1, Len(c.queued)),
     quota |-> Decrement(c.quota, n)]

PubRecs(c, n) == [i \in 1 .. n |-> Packet("PUBREC", c.queued[i])]

\* connect__on_authorised with db__message_reconnect_reset_incoming.
in_connect ==
    /\ ~ p_sock /\ from_p # <<>> /\ from_p' = Tail(from_p)
    /\ p_sock' = TRUE
    /\ LET c == [inc EXCEPT !.quota = Decrement(max, Len(inc.inflight))]
       IN  inc' = InDequeue(c, Min({Len(c.queued), c.quota}))
    /\ to_p' = <<Packet("CONNACK", 0)>>
    /\ UNCHANGED <<out_vars, pub_vars, in_const>>

\* handle__publish ends with db__message_write_queued_in.
Handled(c, packets) ==
    LET n == Min({Len(c.queued), c.quota}) IN
    /\ inc' = InDequeue(c, n)
    /\ to_p' = to_p \o packets \o PubRecs(c, n)

in_ready_for_queue ==
    Len(inc.inflight) + Len(inc.queued) - max < max_queued_messages

\* QoS 1: send__puback gives back what was taken from the quota, up to the maximum.
in_publish_qos1 ==
    /\ FromPublisher("PUBLISH") /\ Head(from_p).qos = 1
    /\ LET mid == Head(from_p).mid IN
       IF inc.quota > 0 \/ in_ready_for_queue
       THEN /\ sub__messages_queue(mid, 1)
            /\ Handled([inc EXCEPT !.quota = Increment(Decrement(@, 1))], <<Packet("PUBACK", mid)>>)
       ELSE /\ to_p' = Append(to_p, Packet("PUBACK", mid))
            /\ inc' = [inc EXCEPT !.quota = Increment(@)]
            /\ UNCHANGED out_vars
    /\ UNCHANGED <<pub_vars, in_const, p_sock>>

\* QoS 2: db__message_store_find, then db__message_insert.
Stored(mid) == mid \in ToSet(inc.inflight) \union ToSet(inc.queued)

in_publish_qos2 ==
    /\ FromPublisher("PUBLISH") /\ Head(from_p).qos = 2
    /\ LET mid == Head(from_p).mid
           rec == <<Packet("PUBREC", mid)>>
       IN  IF Stored(mid) THEN Handled(inc, rec)
           ELSE IF inc.quota > 0 THEN Handled([inc EXCEPT !.inflight = Append(@, mid)], rec)
           ELSE IF in_ready_for_queue THEN Handled([inc EXCEPT !.queued = Append(@, mid)], <<>>)
           ELSE to_p' = to_p \o rec /\ UNCHANGED inc
    /\ UNCHANGED <<out_vars, pub_vars, in_const, p_sock>>

\* db__message_remove.  As it, the message stays.
RemovedNot(list, mid) == list

Removed(list, mid) == Meets(list, {i \in DOMAIN list : list[i] # mid})

\* handle__pubrel with db__message_release_incoming: the count of what is in flight
\* includes the message just removed.
in_pubrel ==
    /\ FromPublisher("PUBREL")
    /\ LET mid == Head(from_p).mid
           n == Min({Len(inc.queued), Max({max - Len(inc.inflight), 0})})
           rest == [inc EXCEPT !.inflight = Removed(@, mid)]
           moved == InDequeue(rest, n)
       IN  /\ inc' = [moved EXCEPT !.quota = Increment(@)]
           /\ to_p' = to_p \o PubRecs(inc, n) \o <<Packet("PUBCOMP", mid)>>
           /\ IF mid \in ToSet(inc.inflight) THEN sub__messages_queue(mid, 2) ELSE UNCHANGED out_vars
    /\ UNCHANGED <<pub_vars, in_const, p_sock>>

LosePublisher ==
    /\ flaky = "publisher" /\ Connected /\ lost < MaxLost
    /\ lost' = lost + 1
    /\ p_state' = "down" /\ to_p' = <<>> /\ from_p' = <<>> /\ p_sock' = FALSE
    /\ UNCHANGED <<out_const, s_vars, b_vars, to_s, from_s, forwarded, cut, swapped>>
    /\ UNCHANGED <<in_const, p_out, p_quota, published, acked, windowed, inc>>
------------------------------------------------------------------------------
rest_vars == <<pub_vars, in_vars, in_const, to_p, from_p>>

Publisher == pub_reconnect \/ pub_connect \/ pub_connack \/ pub_pubackcomp \/ pub_pubrec
BrokerIn == in_connect \/ in_publish_qos1 \/ in_publish_qos2 \/ in_pubrel
Outgoing == (BrokerOut \/ Subscriber) /\ UNCHANGED rest_vars

Next ==
    \/ \E qos \in {1, 2} : mosquitto_publish(qos)
    \/ Publisher
    \/ BrokerIn
    \/ LosePublisher
    \/ Outgoing
    \/ flaky = "subscriber" /\ LoseSubscriber /\ UNCHANGED rest_vars

Spec == Init /\ [][Next]_vars

\* The broker's loop and the two library loops (mosquitto_main_loop,
\* mosquitto_loop_forever, which connects again) do not all stop.
Fairness == WF_vars(Publisher \/ BrokerIn \/ Outgoing)

FairSpec == Spec /\ Fairness
------------------------------------------------------------------------------
\* As long as the publisher does not send ahead of what the broker accepts
\* (mosquitto.h:1660-1664), a publication of QoS 2 reaches the subscribers at most once
\* however often it is repeated (handle_publish.c:288, database.c:739-762), and one that the
\* publisher is told has arrived did reach them.  Publishing between the reset and the
\* connection of mosquitto__reconnect breaks both.
Times(s, m) == Cardinality({i \in DOMAIN s : s[i] = m})

ForwardedExactly ==
    ~ windowed /\ send_maximum <= max =>
       /\ \A m \in DOMAIN published : published[m] = 2 => Times(forwarded, m) <= 1
       /\ acked \subseteq ToSet(forwarded)

\* With max_inflight_messages 1 the subscriber gets messages in the order in which the
\* broker took them for its session, repetitions apart (mqtt.conf:65-66).
InOrderAlone ==
    max = 1 /\ ~ swapped =>
       \E at \in [DOMAIN got -> DOMAIN taken] :
          /\ \A i \in DOMAIN got : taken[at[i]] = got[i]
          /\ \A i, j \in DOMAIN got : i <= j => at[i] <= at[j]

\* A message of QoS 2 is handed over by the PUBREL that is meant for it, except for a clean
\* session, which numbers its messages anew while the library keeps the old ones; and what
\* the session took once is handed over twice only if the connection was lost twice while
\* it was in flight: the library keeps a repeated PUBLISH beside the first one
\* (lib/handle_publish.c:164, lib/handle_pubrel.c:101).
ReleasedByOwn ==
    /\ swapped => clean /\ lost > 0
    /\ sub_qos = 2 =>
          \A m \in DOMAIN published :
             published[m] = 2 /\ Times(taken, m) <= 1 /\ Times(got, m) > 1 =>
                m \in DOMAIN cut /\ cut[m] >= 2

\* Whatever is lost, again and again there is nothing left to do: every publication has
\* been acknowledged, unless the publisher sends ahead of the broker or one was published
\* between the reset and the connection of mosquitto__reconnect, which nothing sends before
\* the next loss; and what the broker has taken for a session has been handed over, unless
\* a clean session ended with it or another message was released in its place.
AllAcknowledged ==
    send_maximum <= max /\ ~ windowed => acked = DOMAIN published

AllDelivered == ToSet(taken) \subseteq ToSet(got) \union ended \/ swapped

Settles == []<>(AllAcknowledged /\ AllDelivered)
==============================================================================
