------------------------------ MODULE Network ------------------------------
(***************************************************************************)
(* The way to the cloud: the connection task, the task that yields to the  *)
(* MQTT client, the validation task, and the task that handles received    *)
(* messages, over the client library (MqttClient).                         *)
(*                                                                         *)
(* mqtt_lock guards the client, except from drv_mqtt_reset. A task holds   *)
(* it through a blocking call; one that cannot get it in 1.1 seconds goes  *)
(* on without (Busy). The flags drv_mqtt_online, hub_isOnline and          *)
(* hub_isConnected are written by several tasks, each cut here where       *)
(* another's step matters. The master state machine has engaged internet,  *)
(* MQTT and cloud. Wi-Fi, the broker and the state of the air are          *)
(* external. Only the validation channel carries messages here: the answer *)
(* to the hub's validation message, and the order to go on with new keys.  *)
(***************************************************************************)
EXTENDS MqttClient

CONSTANTS Channels,   \* the topics in the order msg_raw_install subscribes to them
          MaxTroubles \* bound on the losses of Wi-Fi, the failures of the link
                      \* and the orders to go on with new keys, together

ASSUME NetworkAssumption ==
  /\ Channels \in Seq(Topics) /\ Channels # <<>>
  /\ Topics = {Channels[i] : i \in DOMAIN Channels}
  /\ Messages = {"answer", "forward"}
  /\ MaxTroubles \in Nat

VARIABLES
  mqtt,             \* drv_mqtt_client, with its end of the network
  mqtt_lock,        \* the task that holds it, or "none"
  drv_mqtt_online, hub_isOnline, hub_isConnected,
  radio,            \* esp_wifi is started
  wifi_online,
  successful_connections,  \* none or some (FALSE: 0)
  connAt, first,    \* the connection task: where, and whether it connects or reconnects
  yieldAt, coming,         \* the yield task, and the message it is delivering
  valAt, channel,   \* the validation task, and the channel it subscribes to
  inputAt, received,       \* the input task, and the message in the channel's buffer
  troubles          \* bound

flags == <<drv_mqtt_online, hub_isOnline, hub_isConnected>>
wifi  == <<radio, wifi_online>>
conn  == <<successful_connections, connAt, first>>
yield == <<yieldAt, coming>>
val   == <<valAt, channel>>
input == <<inputAt, received>>
vars  == <<mqtt, mqtt_lock, flags, wifi, conn, yield, val, input, troubles>>

Validation == Channels[1]

Init ==
  /\ mqtt = ZeroClient /\ mqtt_lock = "none"
  /\ drv_mqtt_online = FALSE /\ hub_isOnline = FALSE /\ hub_isConnected = FALSE
  /\ radio = FALSE /\ wifi_online = FALSE
  /\ successful_connections = FALSE /\ connAt = "rest" /\ first = TRUE
  /\ yieldAt = "rest" /\ coming = "none"
  /\ valAt = "rest" /\ channel = 1
  /\ inputAt = "rest" /\ received = "none"
  /\ troubles = 0

Free == mqtt_lock = "none"
Busy(task) == mqtt_lock \notin {"none", task}

Take(task) == Free /\ mqtt_lock' = task
Give == mqtt_lock' = "none"

-----------------------------------------------------------------------------
(* The callbacks. *)

\* drv_mqtt_disconnection_cb and the validation_failure_cb it calls.
disconnection_cb ==
  /\ drv_mqtt_online' = FALSE
  /\ hub_isOnline' = FALSE /\ hub_isConnected' = FALSE

Told(outcome) == IF outcome.told THEN disconnection_cb ELSE UNCHANGED flags

\* wifi_next, on the loss of Wi-Fi; connection_reset_cb.
wifi_offline ==
  /\ wifi_online /\ wifi_online' = FALSE
  /\ hub_isOnline' = FALSE
  /\ mqtt' = IF mqtt.link = "up" THEN [mqtt EXCEPT !.link = "silent"] ELSE mqtt
  /\ UNCHANGED <<drv_mqtt_online, hub_isConnected>>

wifi_stopped == /\ ~radio /\ wifi_offline
                /\ UNCHANGED <<mqtt_lock, radio, conn, yield, val, input, troubles>>

wifi_lost == /\ radio /\ troubles < MaxTroubles /\ troubles' = troubles + 1
             /\ wifi_offline
             /\ UNCHANGED <<mqtt_lock, radio, conn, yield, val, input>>

wifi_got_ip == /\ radio /\ ~wifi_online /\ wifi_online' = TRUE
               /\ UNCHANGED <<mqtt, mqtt_lock, flags, radio, conn, yield, val, input,
                              troubles>>

\* The link to the broker goes silent or breaks, and a silent one may recover.
LinkFails ==
  /\ troubles < MaxTroubles /\ troubles' = troubles + 1
  /\ mqtt.link = "up"
  /\ \E link \in {"silent", "broken"} : mqtt' = [mqtt EXCEPT !.link = link]
  /\ UNCHANGED <<mqtt_lock, flags, wifi, conn, yield, val, input>>

LinkRecovers ==
  /\ mqtt.link = "silent" /\ wifi_online
  /\ mqtt' = [mqtt EXCEPT !.link = "up"]
  /\ UNCHANGED <<mqtt_lock, flags, wifi, conn, yield, val, input, troubles>>

OrderForward ==
  /\ troubles < MaxTroubles /\ troubles' = troubles + 1
  /\ mqtt.link = "up" /\ Validation \in mqtt.subs
  /\ mqtt' = [mqtt EXCEPT !.mail = @ \cup {"forward"}]
  /\ UNCHANGED <<mqtt_lock, flags, wifi, conn, yield, val, input>>

-----------------------------------------------------------------------------
(* The connection task. *)

At(from, to) == /\ connAt = from /\ connAt' = to
                /\ first' = IF to = "rest" THEN TRUE ELSE first

\* drv_wifi_disconnect, and the rest of a failed attempt in connection_task.
GiveUp(from) == At(from, "rest") /\ radio' = FALSE

\* The attempt failed, or fails for want of the lock: another of the ten, which
\* are not counted here, or none left.
TryAgain(from) == At(from, "dial") /\ UNCHANGED <<successful_connections, radio, flags>>

\* _action_forward_cb: connection_reset takes no lock.
action_forward_cb ==
  /\ mqtt' = aws_iot_mqtt_disconnect(mqtt).w
  /\ successful_connections' = FALSE
  /\ disconnection_cb

\* ConnFailed: role_forward_failed may decide to roll the keys back.
Exhausted(from, w) ==
  /\ GiveUp(from)
  /\ \/ /\ ~first
        /\ mqtt' = aws_iot_mqtt_disconnect(w).w
        /\ successful_connections' = FALSE
        /\ disconnection_cb
     \/ /\ mqtt' = w /\ hub_isOnline' = FALSE
        /\ UNCHANGED <<successful_connections, drv_mqtt_online, hub_isConnected>>

connection_attempt ==
  /\ connAt = "rest" /\ ~hub_isOnline
  /\ first' = ~successful_connections /\ successful_connections' = TRUE
  /\ radio' = TRUE
  /\ connAt' = IF successful_connections THEN "await" ELSE "configure"
  /\ UNCHANGED <<mqtt, mqtt_lock, flags, wifi_online, yield, val, input, troubles>>

\* esp_wifi refuses to start.
connection_attempt_fails ==
  /\ connAt = "rest" /\ ~hub_isOnline
  /\ successful_connections' = TRUE
  /\ radio' = FALSE
  /\ UNCHANGED <<mqtt, mqtt_lock, flags, wifi_online, connAt, first, yield, val, input, troubles>>

drv_mqtt_configure ==
  /\ Free
  /\ \E o \in aws_iot_mqtt_init(mqtt) :
       /\ mqtt' = o.w
       /\ IF o.rc = "SUCCESS" THEN At("configure", "await") /\ UNCHANGED <<radio, flags>>
          ELSE /\ GiveUp("configure") /\ hub_isOnline' = FALSE
               /\ UNCHANGED <<drv_mqtt_online, hub_isConnected>>
  /\ UNCHANGED <<mqtt_lock, wifi_online, successful_connections, yield, val,
                 input, troubles>>

\* Ten ticks without Wi-Fi end the attempt; so does the lock when it is busy.
drv_mqtt_unready ==
  /\ \/ GiveUp("await") /\ ~wifi_online
     \/ GiveUp("configure") /\ Busy("connection")
  /\ hub_isOnline' = FALSE
  /\ UNCHANGED <<mqtt, mqtt_lock, drv_mqtt_online, hub_isConnected, wifi_online,
                 successful_connections, yield, val, input, troubles>>

drv_mqtt_await ==
  /\ At("await", "dial") /\ wifi_online
  /\ UNCHANGED <<mqtt, mqtt_lock, flags, wifi, successful_connections, yield, val,
                 input, troubles>>

drv_mqtt_connect ==
  /\ connAt = "dial" /\ first /\ Free
  /\ \E o \in aws_iot_mqtt_connect(mqtt, "hub", wifi_online) :
       \/ /\ o.rc = "SUCCESS" /\ At("dial", "accept") /\ mqtt' = o.w
          /\ UNCHANGED <<flags, radio, successful_connections>>
       \/ o.rc # "SUCCESS" /\ TryAgain("dial") /\ mqtt' = o.w
       \/ o.rc # "SUCCESS" /\ Exhausted("dial", o.w)
  /\ UNCHANGED <<mqtt_lock, wifi_online, yield, val, input, troubles>>

drv_mqtt_reconnect ==
  /\ connAt = "dial" /\ ~first /\ Free
  /\ \E o \in attempt_reconnect_begin(mqtt, wifi_online) :
       \/ /\ o.w.state = "resubscribe" /\ At("dial", "resubscribe") /\ mqtt' = o.w
          /\ Take("connection")
          /\ UNCHANGED <<flags, radio, successful_connections>>
       \/ /\ o.rc = "ALREADY_CONNECTED" /\ At("dial", "accept") /\ mqtt' = o.w
         
          /\ UNCHANGED <<mqtt_lock, flags, radio, successful_connections>>
       \/ /\ o.rc = "ATTEMPTING_RECONNECT"
          /\ (TryAgain("dial") /\ mqtt' = o.w) \/ Exhausted("dial", o.w)
          /\ UNCHANGED mqtt_lock
  /\ UNCHANGED <<wifi_online, yield, val, input, troubles>>

\* Even a reconnection that went well is tried again: the next one tells.
drv_mqtt_resubscribed ==
  /\ connAt = "resubscribe" /\ Give
  /\ \E o \in attempt_reconnect_end(mqtt) :
       (TryAgain("resubscribe") /\ mqtt' = o.w) \/ Exhausted("resubscribe", o.w)
  /\ UNCHANGED <<wifi_online, yield, val, input, troubles>>

drv_mqtt_dial_busy ==
  /\ connAt = "dial" /\ Busy("connection")
  /\ (TryAgain("dial") /\ mqtt' = mqtt) \/ Exhausted("dial", mqtt)
  /\ UNCHANGED <<mqtt_lock, wifi_online, yield, val, input, troubles>>

\* The client is asked whether it is connected, and both answers, 0 and 1, are
\* codes the test that follows accepts. The lock was given back in between.
drv_mqtt_accept ==
  /\ At("accept", IF first THEN "check" ELSE "finish")
  /\ drv_mqtt_online' = TRUE
  /\ \/ Free /\ mqtt' = IF first THEN autoreconnect_set_status(mqtt, FALSE) ELSE mqtt
     \/ Busy("connection") /\ UNCHANGED mqtt
  /\ UNCHANGED <<mqtt_lock, hub_isOnline, hub_isConnected, wifi, successful_connections, yield, val, input, troubles>>

drv_mqtt_finish ==
  /\ At("finish", "check")
  /\ \E w \in (IF Free THEN {autoreconnect_set_status(mqtt, FALSE)} ELSE {mqtt}) :
       \/ mqtt' = w /\ UNCHANGED <<flags, radio, successful_connections>>
       \/ /\ ~drv_mqtt_online
          /\ mqtt' = aws_iot_mqtt_disconnect(w).w
          /\ radio' = FALSE /\ successful_connections' = FALSE
          /\ disconnection_cb
  /\ UNCHANGED <<mqtt_lock, wifi_online, yield, val, input, troubles>>

\* The check reads drv_mqtt_check and writes hub_isOnline later.
connection_check ==
  /\ \/ At("check", "online") /\ wifi_online /\ drv_mqtt_online
     \/ At("check", "rest") /\ ~(wifi_online /\ drv_mqtt_online)
  /\ UNCHANGED <<mqtt, mqtt_lock, flags, wifi, successful_connections, yield,
                 val, input, troubles>>

connection_online ==
  /\ At("online", "rest")
  /\ hub_isOnline' = TRUE
  /\ UNCHANGED <<mqtt, mqtt_lock, drv_mqtt_online, hub_isConnected, wifi,
                 successful_connections, yield, val, input, troubles>>

-----------------------------------------------------------------------------
(* The yield task. *)

drv_mqtt_yield ==
  /\ yieldAt = "rest" /\ yield_begin(mqtt).rc = "SUCCESS"
  /\ Take("yield") /\ mqtt' = yield_begin(mqtt).w
  /\ yieldAt' = "reading"
  /\ UNCHANGED <<coming, flags, wifi, conn, val, input, troubles>>

YieldReturns(read, expired) ==
  LET o == yield_end(read, expired)
  IN  /\ mqtt' = o.w /\ Told(o) /\ Give
      /\ yieldAt' = "rest" /\ coming' = "none"

yield_read(expired) ==
  /\ yieldAt = "reading"
  /\ \E read \in cycle_read(mqtt) : YieldReturns(read, expired)
  /\ UNCHANGED <<wifi, conn, val, input, troubles>>

\* A message on a topic without a handler is acknowledged and gone.
yield_publish ==
  /\ yieldAt = "reading" /\ "PUBLISH" \in read_packet(mqtt)
  /\ \E m \in mqtt.mail :
       IF Handled(mqtt, Validation)
       THEN /\ mqtt' = deliver_message_begin(mqtt)
            /\ yieldAt' = "callback" /\ coming' = m
            /\ UNCHANGED <<mqtt_lock, flags>>
       ELSE YieldReturns(handle_publish_end(deliver_message_begin(mqtt), mqtt.state, m), FALSE)
  /\ UNCHANGED <<wifi, conn, val, input, troubles>>

\* msg_raw_receive and msg_fmt_raw_cb, which waits for the channel; while its
\* last message is still being handled this one is dropped. Then the yield ends.
msg_fmt_raw_cb ==
  /\ yieldAt = "callback"
  /\ received' = IF received = "none" THEN coming ELSE received
  /\ YieldReturns(handle_publish_end(mqtt, "yield", coming), FALSE)
  /\ UNCHANGED <<wifi, conn, val, inputAt, troubles>>

-----------------------------------------------------------------------------
(* The input task: registration_callback on a message of the channel. *)

validation_success_cb ==
  /\ inputAt = "rest" /\ received = "answer"
  /\ hub_isConnected' = TRUE /\ received' = "none"
  /\ UNCHANGED <<mqtt, mqtt_lock, drv_mqtt_online, hub_isOnline, wifi, conn, yield, val,
                 inputAt, troubles>>

\* _action_forward_cb again, cut after the disconnection of the client.
drv_mqtt_reset ==
  /\ inputAt = "rest" /\ received = "forward" /\ inputAt' = "reset"
  /\ mqtt' = aws_iot_mqtt_disconnect(mqtt).w
  /\ UNCHANGED <<mqtt_lock, flags, wifi, conn, yield, val, received, troubles>>

connection_reset ==
  /\ inputAt = "reset" /\ inputAt' = "rest"
  /\ radio' = FALSE /\ successful_connections' = FALSE
  /\ disconnection_cb /\ received' = "none"
  /\ UNCHANGED <<mqtt, mqtt_lock, wifi_online, connAt, first, yield, val, troubles>>

-----------------------------------------------------------------------------
(* The validation task and the output task. *)

validation_attempt ==
  /\ valAt = "rest" /\ ~hub_isConnected /\ drv_mqtt_online
  /\ valAt' = "subscribe" /\ channel' = 1
  /\ UNCHANGED <<mqtt, mqtt_lock, flags, wifi, conn, yield, input, troubles>>

\* Nobody looks at what drv_mqtt_subscribe returns; its second round, after a
\* first that failed, stands here for any number.
NextChannel(rc) ==
  \/ IF channel < Len(Channels) THEN channel' = channel + 1 /\ valAt' = "subscribe"
                                ELSE channel' = 1 /\ valAt' = "send"
  \/ rc # "SUCCESS" /\ valAt' = "subscribe" /\ UNCHANGED channel

drv_mqtt_subscribe ==
  /\ valAt = "subscribe"
  /\ \/ /\ Free /\ subscribe_begin(mqtt).rc = "SUCCESS"
        /\ Take("validation") /\ mqtt' = subscribe_begin(mqtt).w
        /\ valAt' = "subscribing" /\ UNCHANGED channel
     \/ /\ \/ Free /\ subscribe_begin(mqtt).rc = "DISCONNECTED"
           \/ Busy("validation")
        /\ NextChannel("FAILURE") /\ UNCHANGED <<mqtt, mqtt_lock>>
  /\ UNCHANGED <<flags, wifi, conn, yield, input, troubles>>

drv_mqtt_subscribed ==
  /\ valAt = "subscribing" /\ Give
  /\ \E o \in subscribe_end(mqtt, Channels[channel]) : mqtt' = o.w /\ NextChannel(o.rc)
  /\ UNCHANGED <<flags, wifi, conn, yield, input, troubles>>

\* msg_fmt_load to msg_fmt_send; within 100 ms the output task publishes the
\* message. The broker answers on the channel when the hub is subscribed to it.
\* Without hub_isOnline, the client or the lock the message is dropped. The ten
\* waits for the answer change nothing here, and neither does giving up on it.
msg_raw_send ==
  \/ /\ hub_isOnline /\ Free /\ mqtt.state = "idle" /\ mqtt.link = "up"
     /\ mqtt' = [mqtt EXCEPT !.mail = IF Validation \in mqtt.subs THEN @ \cup {"answer"} ELSE @]
  \/ UNCHANGED mqtt

validation_send ==
  /\ valAt = "send" /\ valAt' = "rest"
  /\ msg_raw_send
  /\ UNCHANGED <<mqtt_lock, flags, wifi, conn, yield, channel, input, troubles>>

-----------------------------------------------------------------------------
Connecting ==
  \/ connection_attempt \/ connection_attempt_fails \/ drv_mqtt_configure
  \/ drv_mqtt_unready \/ drv_mqtt_await \/ drv_mqtt_connect \/ drv_mqtt_reconnect
  \/ drv_mqtt_resubscribed \/ drv_mqtt_dial_busy \/ drv_mqtt_accept
  \/ drv_mqtt_finish \/ connection_check \/ connection_online

Yielding == (\E expired \in BOOLEAN : yield_read(expired)) \/ yield_publish \/ msg_fmt_raw_cb
Handling == validation_success_cb \/ drv_mqtt_reset \/ connection_reset
Validating == \/ validation_attempt \/ drv_mqtt_subscribe \/ drv_mqtt_subscribed
              \/ validation_send
Outside == \/ wifi_stopped \/ wifi_lost \/ wifi_got_ip \/ LinkFails \/ LinkRecovers
           \/ OrderForward

Next == Connecting \/ drv_mqtt_yield \/ Yielding \/ Handling \/ Validating \/ Outside

Spec == Init /\ [][Next]_vars

\* The yield task runs and the ping timer runs out sooner or later; who holds
\* mqtt_lock goes on to give it back, and the task that waits longest gets it.
Holding == Yielding \/ drv_mqtt_resubscribed \/ drv_mqtt_subscribed

Yields == WF_vars(Holding) /\ SF_vars(drv_mqtt_yield) /\ SF_vars(yield_read(TRUE))

YieldSpec == Spec /\ Yields

\* Every task runs, and Wi-Fi comes back.
FairSpec ==
  /\ YieldSpec
  /\ WF_vars(Connecting) /\ SF_vars(drv_mqtt_connect) /\ SF_vars(drv_mqtt_reconnect)
  /\ WF_vars(Validating) /\ WF_vars(Handling)
  /\ WF_vars(wifi_stopped) /\ WF_vars(wifi_got_ip)

-----------------------------------------------------------------------------
connected == is_client_connected(mqtt)

\* Whoever gives mqtt_lock back leaves the client at rest: not in the middle of
\* a yield, a subscription or a callback, and "idle" only over a link. (A client
\* left in "yield" would refuse every later call for good.)
Settled ==
  mqtt_lock = "none" =>
    /\ mqtt.state \in {"invalid", "initialized", "idle", "disconnected_error",
                       "disconnected_manually", "pending_reconnect"}
    /\ mqtt.state = "idle" => mqtt.link # "none"

\* However often the validation task subscribes, and the client is initialized,
\* lost and reconnected in between, a topic has one entry in the table: twice
\* the same would run a message's callback twice and use up the table.
OneHandlerEach == Len(mqtt.table) = Cardinality(Listed(mqtt))

\* Who takes the client's connection away lowers drv_mqtt_online in the same
\* step. Two exceptions, both of them told later or not at all: drv_mqtt_reset,
\* which connection_reset follows, and a second initialization.
LossTold ==
  [][connected /\ ~connected' => ~drv_mqtt_online' \/ inputAt' = "reset"
                                  \/ connAt = "configure"]_vars

\* A link that stopped answering is noticed by the ping that gets no answer,
\* also when it stays silent without an error: the client leaves its connected
\* states, unless the link recovers first.
LossNoticed ==
  connected /\ mqtt.link \in {"silent", "broken"} ~> ~connected \/ mqtt.link = "up"

\* connection.c says the check "Will trigger the task, if theres no connection":
\* while the client is not connected, the connection task is busy with it soon. Not
\* kept: drv_mqtt_online may be raised by the very attempt whose connection was lost.
Triggered == ~connected ~> connected \/ connAt # "rest"

\* drv_mqtt.h says drv_mqtt_reconnect attempts a reconnection "with the loaded
\* information": the hub never connects with other parameters than its own. Not
\* kept: after a first attempt without Wi-Fi it connects with the library's.
ConnectsAsHub == connected => mqtt.options = "hub"

=============================================================================
