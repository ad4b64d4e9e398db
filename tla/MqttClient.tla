----------------------------- MODULE MqttClient -----------------------------
(***************************************************************************)
(* The MQTT client library the project keeps a modified copy of            *)
(* (.aws-iot/src): what each call does to the client, and what it returns. *)
(*                                                                         *)
(* A world is the client together with its end of the network: an operator *)
(* named as a function of the library gives the outcomes of a call made in *)
(* a world, each with the world the call leaves, its error code and        *)
(* whether the disconnect handler ran. Calls that block are cut where      *)
(* another task can get in: before their answer is read (the _begin and    *)
(* _end operators). The TLS stack below the library and the broker are     *)
(* external: a link that is "silent" takes what is written and answers     *)
(* nothing, a "broken" one fails, and destroying it always succeeds.       *)
(* Buffers, lengths, packet numbers and the wire format are abstracted.    *)
(***************************************************************************)
EXTENDS Naturals, Sequences, FiniteSets

CONSTANTS Topics,    \* topics of the hub's channels
          Messages,  \* what the broker may publish to them
          Handlers   \* AWS_IOT_MQTT_NUM_SUBSCRIBE_HANDLERS

ASSUME ClientAssumption == Handlers \in Nat \ {0} /\ IsFiniteSet(Messages)

ConnectedStates == {"idle", "yield", "subscribe", "resubscribe", "callback"}
ClientStates == ConnectedStates \cup
  {"invalid", "initialized", "connecting", "disconnected_error",
   "disconnected_manually", "pending_reconnect"}

World == [state   : ClientStates,                      \* clientStatus.clientState
          auto    : BOOLEAN,                           \* isAutoReconnectEnabled
          ping    : BOOLEAN,                           \* isPingOutstanding
          options : {"default", "hub"},                \* clientData.options
          table   : Seq(Topics),                       \* messageHandlers up to the first free
          link    : {"none", "up", "silent", "broken"},\* networkStack
          subs    : SUBSET Topics,                     \* external: the broker's subscriptions
          mail    : SUBSET Messages]                   \* external: publishes not acknowledged

\* The client is a static object: all zero before aws_iot_mqtt_init.
ZeroClient == [state |-> "invalid", auto |-> FALSE, ping |-> FALSE, options |-> "default",
               table |-> <<>>, link |-> "none", subs |-> {}, mail |-> {}]

Outcome(w, rc) == [w |-> w, rc |-> rc, told |-> FALSE]

Listed(w) == {w.table[i] : i \in DOMAIN w.table}

-----------------------------------------------------------------------------
(* Client state. *)

set_client_state(w, expected, new) ==
  IF w.state = expected THEN Outcome([w EXCEPT !.state = new], "SUCCESS")
                        ELSE Outcome(w, "UNEXPECTED_STATE")

is_client_connected(w) == w.state \in ConnectedStates

autoreconnect_set_status(w, status) == [w EXCEPT !.auto = status]

set_connect_params(w, params) == [w EXCEPT !.options = params]

\* iot_tls_init, external, may refuse the keys it is given.
aws_iot_mqtt_init(w) ==
  LET cleared == set_connect_params([w EXCEPT !.table = <<>>, !.ping = FALSE,
                                              !.auto = TRUE], "default")
  IN  {Outcome([cleared EXCEPT !.state = "initialized", !.link = "none"], "SUCCESS"),
       Outcome([cleared EXCEPT !.state = "invalid"], "FAILURE")}

\* networkStack.disconnect and destroy; the session is a clean one, so the
\* broker forgets it.
Closed(w) == [w EXCEPT !.link = "none", !.subs = {}, !.mail = {}]

-----------------------------------------------------------------------------
(* Packets. *)

\* What a write does: arrived is the world once the broker has the packet. A
\* write that takes until the timer ends without an error counts as sent.
send_packet(w, arrived) ==
  CASE w.link = "up"     -> Outcome(arrived, "SUCCESS")
    [] w.link = "silent" -> Outcome(w, "SUCCESS")
    [] OTHER             -> Outcome(w, "SSL_ERROR")

\* The packet the socket has for us: none, one of these types, or no packet
\* that can be read (too long, a bad length). A ping is answered in the end,
\* unless the link stays silent.
read_packet(w) ==
  CASE w.link = "up"     -> {"nothing", "unreadable"} \cup (IF w.ping THEN {"PINGRESP"} ELSE {})
                              \cup (IF w.mail # {} THEN {"PUBLISH"} ELSE {})
    [] w.link = "silent" -> {"nothing"}
    [] OTHER             -> {"failure"}

\* The hub's topics hold no wildcard.
is_topic_matched(filter, name) == filter = name

Handled(w, topic) == \E i \in DOMAIN w.table : is_topic_matched(w.table[i], topic)

\* The handler is called with the state set aside. A message on a topic that
\* is not in the table calls no handler, and is acknowledged all the same.
deliver_message_begin(w) == [w EXCEPT !.state = "callback"]

deliver_message_end(w, before) == set_client_state(w, "callback", before)

\* A message is acknowledged after its handler returned, and only when nobody
\* changed the state of the client meanwhile.
handle_publish_end(w, before, m) ==
  LET delivered == deliver_message_end(w, before)
  IN  IF delivered.rc # "SUCCESS" THEN delivered
      ELSE send_packet(delivered.w, [delivered.w EXCEPT !.mail = @ \ {m}])

\* A cycle that reads no PUBLISH.
cycle_read(w) ==
  {CASE packet = "nothing"    -> Outcome(w, "SUCCESS")
     [] packet = "PINGRESP"   -> Outcome([w EXCEPT !.ping = FALSE], "SUCCESS")
     [] packet = "unreadable" -> Outcome(w, "FAILURE")
     [] OTHER                 -> Outcome(w, "SSL_ERROR")
   : packet \in read_packet(w) \ {"PUBLISH"}}

\* Waiting for the broker's answer to a packet just sent: it comes, the wait
\* times out, or the connection fails.
wait_for_read(w) ==
  CASE w.link = "up"     -> {"SUCCESS", "REQUEST_TIMEOUT"}
    [] w.link = "silent" -> {"REQUEST_TIMEOUT"}
    [] OTHER             -> {"SSL_ERROR"}

-----------------------------------------------------------------------------
(* Connecting and disconnecting. *)

is_client_state_valid_for_connect(state) ==
  state \in {"initialized", "disconnected_error", "disconnected_manually",
             "pending_reconnect"}

\* What the broker answers a CONNECT: a code other than ACCEPTED refuses it.
deserialize_connack == {"ACCEPTED", "REFUSED"}

\* reachable: the network leads to the broker. No parameters stand for NULL:
\* the options of the last call, or of aws_iot_mqtt_init, are used again. The
\* TLS handshake, the CONNECT or the wait for its answer may fail.
internal_connect(w, params, reachable) ==
  LET asked  == IF params = "NULL" THEN w ELSE set_connect_params(w, params)
      linked == [asked EXCEPT !.link = "up", !.ping = FALSE]
  IN  {Outcome(asked, "CONNECTION_ERROR")}
        \cup {IF connack = "ACCEPTED" THEN Outcome(linked, "SUCCESS") ELSE Outcome(asked, connack)
              : connack \in IF reachable THEN deserialize_connack ELSE {}}

aws_iot_mqtt_connect(w, params, reachable) ==
  IF ~is_client_state_valid_for_connect(w.state)
  THEN {Outcome(w, "ALREADY_CONNECTED")}
  ELSE {IF o.rc = "SUCCESS"
        THEN [o EXCEPT !.w = set_client_state(@, "connecting", "idle").w]
        ELSE [o EXCEPT !.w =
                set_client_state(Closed(@), "connecting", "disconnected_error").w]
        : o \in internal_connect(set_client_state(w, w.state, "connecting").w,
                                 params, reachable)}

internal_disconnect(w) == Outcome(Closed(send_packet(w, w).w), "SUCCESS")

aws_iot_mqtt_disconnect(w) ==
  IF ~is_client_connected(w) THEN Outcome(w, "DISCONNECTED")
  ELSE LET o == internal_disconnect(w)
       IN  [o EXCEPT !.w = [@ EXCEPT !.state = "disconnected_manually"]]

-----------------------------------------------------------------------------
(* Subscribing. *)

\* The table is filled in order, and no entry is ever removed.
get_free_message_handler_index(w) == Len(w.table) + 1

internal_subscribe_again(w, topic) ==   \* mutant: the table is not searched
  LET asked    == send_packet(w, [w EXCEPT !.subs = @ \cup {topic}])
      recorded == [asked.w EXCEPT !.table = Append(@, topic)]
  IN  IF get_free_message_handler_index(w) > Handlers THEN {Outcome(w, "MAX_SUBSCRIPTIONS")}
      ELSE IF asked.rc # "SUCCESS" THEN {asked}
      ELSE {Outcome(IF rc = "SUCCESS" THEN recorded ELSE asked.w, rc)
            : rc \in wait_for_read(asked.w)}

\* A topic that is in the table is not sent again: the call succeeds at once.
internal_subscribe(w, topic) ==
  LET asked    == send_packet(w, [w EXCEPT !.subs = @ \cup {topic}])
      recorded == [asked.w EXCEPT !.table = Append(@, topic)]
  IN  CASE topic \in Listed(w)       -> {Outcome(w, "SUCCESS")}
        [] /\ topic \notin Listed(w)
           /\ get_free_message_handler_index(w) > Handlers -> {Outcome(w, "MAX_SUBSCRIPTIONS")}
        [] OTHER -> IF asked.rc # "SUCCESS" THEN {asked}
                    ELSE {Outcome(IF rc = "SUCCESS" THEN recorded ELSE asked.w, rc)
                          : rc \in wait_for_read(asked.w)}

\* The refusals of aws_iot_mqtt_subscribe, and what it sets before it sends.
subscribe_begin(w) ==
  IF ~is_client_connected(w) THEN Outcome(w, "DISCONNECTED")
  ELSE IF w.state # "idle" THEN Outcome(w, "NOT_IDLE")
  ELSE set_client_state(w, "idle", "subscribe")

subscribe_end_stuck(w, topic) ==    \* mutant: an error returns at once
  {IF o.rc = "SUCCESS" THEN set_client_state(o.w, "subscribe", "idle") ELSE o
   : o \in internal_subscribe(w, topic)}

subscribe_end(w, topic) ==
  {LET back == set_client_state(o.w, "subscribe", "idle")
   IN  Outcome(back.w, IF o.rc = "SUCCESS" THEN back.rc ELSE o.rc)
   : o \in internal_subscribe(w, topic)}

\* Every topic of the table again, in its order, up to the first that fails.
internal_resubscribe(w) ==
  LET first(k) == {w.table[i] : i \in 1 .. k}
      n == Len(w.table)
  IN  CASE w.link = "up" ->
             {Outcome([w EXCEPT !.subs = @ \cup first(k)],
                      IF k = n THEN "SUCCESS" ELSE "REQUEST_TIMEOUT") : k \in 0 .. n}
        [] n = 0 -> {Outcome(w, "SUCCESS")}
        [] OTHER -> {Outcome(w, IF w.link = "silent" THEN "REQUEST_TIMEOUT" ELSE "SSL_ERROR")}

resubscribe_begin(w) ==
  IF ~is_client_connected(w) THEN Outcome(w, "DISCONNECTED")
  ELSE IF w.state # "idle" THEN Outcome(w, "NOT_IDLE")
  ELSE set_client_state(w, "idle", "resubscribe")

\* What the topics answered is overwritten with what the state change did.
resubscribe_end(w) ==
  {set_client_state(o.w, "resubscribe", "idle") : o \in internal_resubscribe(w)}

\* The call up to the resubscription, which goes on only from "resubscribe".
attempt_reconnect_begin(w, reachable) ==
  IF is_client_connected(w) THEN {Outcome(w, "ALREADY_CONNECTED")}
  ELSE {IF o.w.state = "idle" THEN resubscribe_begin(o.w)
        ELSE Outcome(set_client_state(o.w, "disconnected_error", "pending_reconnect").w,
                     "ATTEMPTING_RECONNECT")
        : o \in aws_iot_mqtt_connect(w, "NULL", reachable)}

\* A success is not told as SUCCESS but as NETWORK_RECONNECTED.
attempt_reconnect_end(w) ==
  {IF o.rc = "SUCCESS" THEN Outcome(o.w, "RECONNECTED") ELSE o : o \in resubscribe_end(w)}

-----------------------------------------------------------------------------
(* Yielding: reading what has come, and keeping the connection alive. *)

force_client_disconnect(w) == [Closed(w) EXCEPT !.state = "disconnected_error"]

handle_disconnect_untold(w) ==      \* mutant: the handler is not called
  LET left == aws_iot_mqtt_disconnect(w)
      down == IF left.rc = "SUCCESS" THEN left.w ELSE force_client_disconnect(left.w)
  IN  Outcome([down EXCEPT !.state = "disconnected_error"], "DISCONNECTED")

handle_disconnect(w) ==
  LET left == aws_iot_mqtt_disconnect(w)
      down == IF left.rc = "SUCCESS" THEN left.w ELSE force_client_disconnect(left.w)
  IN  [w    |-> [down EXCEPT !.state = "disconnected_error"],
       rc   |-> "DISCONNECTED",
       told |-> TRUE]

keep_alive_patient(w, expired) ==   \* mutant: an unanswered ping is sent again
  IF ~expired THEN Outcome(w, "SUCCESS")
  ELSE LET pinged == send_packet(w, w)
       IN  IF pinged.rc = "SUCCESS"
           THEN Outcome([pinged.w EXCEPT !.ping = TRUE], "SUCCESS")
           ELSE handle_disconnect(w)

\* expired: pingTimer has run out since the last ping or its answer.
keep_alive(w, expired) ==
  CASE ~expired           -> Outcome(w, "SUCCESS")
    [] expired /\ w.ping  -> handle_disconnect(w)
    [] expired /\ ~w.ping ->
         LET pinged == send_packet(w, w)
         IN  IF pinged.rc = "SUCCESS"
             THEN Outcome([pinged.w EXCEPT !.ping = TRUE], "SUCCESS")
             ELSE handle_disconnect(w)

\* The internal yield, from the result of its read: read and write errors of
\* the TLS stack end the connection, others are only returned.
internal_yield(read, expired) ==
  LET kept == CASE read.rc = "SUCCESS"   -> keep_alive(read.w, expired)
                [] read.rc = "SSL_ERROR" -> handle_disconnect(read.w)
                [] OTHER                 -> read
  IN  IF kept.rc = "DISCONNECTED" /\ kept.w.auto
      THEN [kept EXCEPT !.w = set_client_state(@, "disconnected_error", "pending_reconnect").w,
                        !.rc = "ATTEMPTING_RECONNECT"]
      ELSE kept

\* In "pending_reconnect" the call looks at nothing else and reports the loss.
yield_begin(w) ==
  CASE w.state = "disconnected_manually" -> Outcome(w, "MANUALLY_DISCONNECTED")
    [] w.state = "pending_reconnect"     -> Outcome(w, "DISCONNECTED")
    [] w.state = "idle"                  -> set_client_state(w, "idle", "yield")
    [] OTHER -> Outcome(w, IF is_client_connected(w) THEN "NOT_IDLE" ELSE "DISCONNECTED")

yield_end(read, expired) ==
  LET o == internal_yield(read, expired)
      back == set_client_state(o.w, "yield", "idle")
  IN  IF o.rc \in {"DISCONNECTED", "ATTEMPTING_RECONNECT"} THEN o
      ELSE [o EXCEPT !.w = back.w, !.rc = IF @ = "SUCCESS" THEN back.rc ELSE @]
=============================================================================
