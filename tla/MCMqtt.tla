-------------------------------- MODULE MCMqtt --------------------------------
(***************************************************************************)
(* One of the two connections is lost, up to MaxLost times: the publisher's,  *)
(* with no subscriber, or the subscriber's, with a publisher that begins once  *)
(* it is connected.                                                         *)
(***************************************************************************)
EXTENDS Mqtt

MCInit ==
    /\ Init
    /\ IF flaky = "publisher" THEN s_state = "off" /\ ~ clean /\ sub_qos = 1
       ELSE s_state = "down" /\ send_maximum = 2

MCNext ==
    /\ Next
    /\ flaky = "subscriber" /\ published' # published =>
          p_state = "active" /\ Len(published) < MaxPublish - 1

MCSpec == MCInit /\ [][MCNext]_vars /\ Fairness
==============================================================================
