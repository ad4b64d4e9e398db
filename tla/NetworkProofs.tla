--------------------------- MODULE NetworkProofs ---------------------------
(***************************************************************************)
(* Proofs about the way to the cloud, for every list of channels, every    *)
(* table size and any number of troubles: whoever gives mqtt_lock back     *)
(* leaves the client at rest, a topic never has two handlers, and who      *)
(* takes the connection away says so.                                      *)
(***************************************************************************)
EXTENDS Network, TLAPS, SequenceTheorems, FiniteSetTheorems

AtRest == {"invalid", "initialized", "idle", "disconnected_error",
           "disconnected_manually", "pending_reconnect"}

\* A client in a connected state has a network under it, and no topic twice.
Linked(w)   == is_client_connected(w) => w.link # "none"
Distinct(w) == \A i, j \in DOMAIN w.table : w.table[i] = w.table[j] => i = j
Sane(w)     == w \in World /\ Linked(w) /\ Distinct(w)

\* Whether the disconnect handler ran.
Untold(o) == o.told = FALSE
Spoken(o) == o.told = TRUE

-----------------------------------------------------------------------------
(* The calls of the library.                                               *)

\* A new state needs a link when it is a connected one.
LEMMA StateSet ==
  ASSUME NEW w, Sane(w), NEW s \in ClientStates, s \in ConnectedStates => w.link # "none"
  PROVE  Sane([w EXCEPT !.state = s]) /\ [w EXCEPT !.state = s].state = s
<1>1. [w EXCEPT !.state = s] \in World /\ [w EXCEPT !.state = s].state = s
  BY DEF Sane, World
<1>2. /\ [w EXCEPT !.state = s].link = w.link /\ [w EXCEPT !.state = s].table = w.table
  BY DEF Sane, World
<1> QED
  BY <1>1, <1>2 DEF Sane, Linked, Distinct, is_client_connected

LEMMA StateMoves ==
  ASSUME NEW w, Sane(w), NEW e, NEW s \in ClientStates, s \in ConnectedStates => w.link # "none",
         NEW o, o = set_client_state(w, e, s)
  PROVE  /\ Sane(o.w) /\ Untold(o)
         /\ w.state = e => o.w.state = s /\ o.rc = "SUCCESS"
         /\ w.state # e => o.w = w /\ o.rc = "UNEXPECTED_STATE"
<1>1. PICK v : v = [w EXCEPT !.state = s]
  OBVIOUS
<1>2. Sane(v) /\ v.state = s
  BY <1>1, StateSet
<1>3. o = IF w.state = e THEN [w |-> v, rc |-> "SUCCESS", told |-> FALSE]
                         ELSE [w |-> w, rc |-> "UNEXPECTED_STATE", told |-> FALSE]
  BY <1>1 DEF set_client_state, Outcome
<1> QED
  BY <1>2, <1>3 DEF Untold

\* The network is taken away from a client that is no longer connected.
LEMMA ClosedMoves ==
  ASSUME NEW w, Sane(w), NEW s \in ClientStates \ ConnectedStates
  PROVE  LET c == [Closed(w) EXCEPT !.state = s]
         IN  Sane(c) /\ c.state = s /\ c.table = w.table
<1> DEFINE c == [Closed(w) EXCEPT !.state = s]
<1>1. Closed(w) \in World /\ Closed(w).table = w.table
  BY DEF Sane, World, Closed
<1>2. c \in World /\ c.state = s /\ c.table = w.table
  BY <1>1 DEF World
<1> QED
  BY <1>2 DEF Sane, Linked, Distinct, is_client_connected

LEMMA PacketSent ==
  ASSUME NEW w, NEW a
  PROVE  LET o == send_packet(w, a)
         IN  /\ o.w \in {w, a} /\ o.rc \in {"SUCCESS", "SSL_ERROR"} /\ Untold(o)
  BY DEF send_packet, Outcome, Untold

LEMMA Disconnected ==
  ASSUME NEW w, Sane(w)
  PROVE  LET o == aws_iot_mqtt_disconnect(w)
         IN  /\ Sane(o.w)
             /\ is_client_connected(w) =>
                  o.w.state = "disconnected_manually" /\ o.rc = "SUCCESS"
             /\ ~is_client_connected(w) => o.w = w /\ o.rc = "DISCONNECTED"
<1>1. CASE ~is_client_connected(w)
  BY <1>1 DEF aws_iot_mqtt_disconnect, Outcome
<1>2. CASE is_client_connected(w)
  <2>1. send_packet(w, w).w = w
    BY PacketSent
  <2>2. internal_disconnect(w).w = Closed(w) /\ internal_disconnect(w).rc = "SUCCESS"
    BY <2>1 DEF internal_disconnect, Outcome
  <2>3. /\ aws_iot_mqtt_disconnect(w).w = [Closed(w) EXCEPT !.state = "disconnected_manually"]
        /\ aws_iot_mqtt_disconnect(w).rc = "SUCCESS"
    BY <1>2, <2>2 DEF aws_iot_mqtt_disconnect, internal_disconnect, Outcome
  <2> QED
    BY <1>2, <2>3, ClosedMoves DEF ClientStates, ConnectedStates
<1> QED
  BY <1>1, <1>2

LEMMA DisconnectHandled ==
  ASSUME NEW w, Sane(w), NEW o, o = handle_disconnect(w)
  PROVE  Sane(o.w) /\ o.w.state = "disconnected_error" /\ o.rc = "DISCONNECTED" /\ Spoken(o)
<1>1. Sane(aws_iot_mqtt_disconnect(w).w)
  BY Disconnected
<1>2. PICK left : left = aws_iot_mqtt_disconnect(w)
  OBVIOUS
<1>3. PICK down : down = IF left.rc = "SUCCESS" THEN left.w ELSE force_client_disconnect(left.w)
  OBVIOUS
<1>4. Sane(down)
  BY <1>1, <1>2, <1>3, ClosedMoves DEF force_client_disconnect, ClientStates, ConnectedStates
<1>5. PICK v : v = [down EXCEPT !.state = "disconnected_error"]
  OBVIOUS
<1>6. Sane(v) /\ v.state = "disconnected_error"
  BY <1>4, <1>5, StateSet DEF ClientStates, ConnectedStates
<1>7. o = [w |-> v, rc |-> "DISCONNECTED", told |-> TRUE]
  BY <1>2, <1>3, <1>5 DEF handle_disconnect
<1> QED
  BY <1>6, <1>7 DEF Spoken

\* A call ends by losing the connection, which it tells ...
Lost(o) == /\ Sane(o.w) /\ Spoken(o) /\ o.w.state \in {"disconnected_error", "pending_reconnect"}
           /\ o.rc \in {"DISCONNECTED", "ATTEMPTING_RECONNECT"}
\* ... or leaves the client in its state.
Same(o, s) == Sane(o.w) /\ Untold(o) /\ o.w.state = s
              /\ o.rc \in {"SUCCESS", "FAILURE", "SSL_ERROR", "UNEXPECTED_STATE"}

\* A ping that is outstanding or answered changes nothing else.
LEMMA PingSet ==
  ASSUME NEW w, Sane(w), NEW b \in BOOLEAN
  PROVE  Sane([w EXCEPT !.ping = b]) /\ [w EXCEPT !.ping = b].state = w.state
<1>1. /\ [w EXCEPT !.ping = b] \in World /\ [w EXCEPT !.ping = b].state = w.state
      /\ [w EXCEPT !.ping = b].link = w.link /\ [w EXCEPT !.ping = b].table = w.table
  BY DEF Sane, World
<1> QED
  BY <1>1 DEF Sane, Linked, Distinct, is_client_connected

LEMMA KeptAlive ==
  ASSUME NEW w, Sane(w), NEW expired \in BOOLEAN, NEW o, o = keep_alive(w, expired)
  PROVE  Lost(o) \/ (Same(o, w.state) /\ o.rc = "SUCCESS")
<1>1. Lost(handle_disconnect(w))
  BY DisconnectHandled DEF Lost
<1>2. PICK pinged : pinged = send_packet(w, w)
  OBVIOUS
<1>3. pinged.w = w
  BY <1>2, PacketSent
<1>4. w.ping \in BOOLEAN
  BY DEF Sane, World
<1>p. PICK v : v = [w EXCEPT !.ping = TRUE]
  OBVIOUS
<1>5. \/ o = Outcome(w, "SUCCESS") \/ o = handle_disconnect(w)
      \/ o = Outcome(v, "SUCCESS")
  BY <1>2, <1>3, <1>4, <1>p DEF keep_alive
<1>6. CASE o = Outcome(w, "SUCCESS")
  BY <1>6 DEF Outcome, Same, Untold
<1>7. CASE o = handle_disconnect(w)
  BY <1>1, <1>7
<1>8. CASE o = Outcome(v, "SUCCESS")
  <2>1. Sane(v) /\ v.state = w.state
    BY <1>p, PingSet
  <2> QED
    BY <1>8, <2>1 DEF Outcome, Same, Untold
<1> QED
  BY <1>5, <1>6, <1>7, <1>8

\* The internal yield, from a read that lost nothing yet.
LEMMA Yielded ==
  ASSUME NEW read, NEW s, Same(read, s), NEW expired \in BOOLEAN,
         NEW o, o = internal_yield(read, expired)
  PROVE  Lost(o) \/ Same(o, s)
<1>1. PICK kept : kept = CASE read.rc = "SUCCESS"   -> keep_alive(read.w, expired)
                           [] read.rc = "SSL_ERROR" -> handle_disconnect(read.w)
                           [] OTHER                 -> read
  OBVIOUS
<1>2. Lost(kept) \/ Same(kept, s)
  <2>1. CASE read.rc = "SUCCESS"
    BY <1>1, <2>1, KeptAlive DEF Same
  <2>2. CASE read.rc = "SSL_ERROR"
    BY <1>1, <2>2, DisconnectHandled DEF Same, Lost
  <2>3. CASE read.rc \notin {"SUCCESS", "SSL_ERROR"}
    BY <1>1, <2>3
  <2> QED
    BY <2>1, <2>2, <2>3
<1>3. kept.rc = "DISCONNECTED" => Lost(kept)
  BY <1>2 DEF Same
<1>4. PICK moved : moved = set_client_state(kept.w, "disconnected_error", "pending_reconnect")
  OBVIOUS
<1>6. Lost(kept) => Sane(moved.w) /\ moved.w.state \in {"disconnected_error", "pending_reconnect"}
  <2> SUFFICES ASSUME Lost(kept)
               PROVE  Sane(moved.w) /\ moved.w.state \in {"disconnected_error", "pending_reconnect"}
    OBVIOUS
  <2>1. Sane(kept.w) /\ kept.w.state \in {"disconnected_error", "pending_reconnect"}
    BY DEF Lost
  <2>2. "pending_reconnect" \in ClientStates /\ "pending_reconnect" \notin ConnectedStates
    BY DEF ClientStates, ConnectedStates
  <2>3. /\ Sane(moved.w)
        /\ kept.w.state = "disconnected_error" => moved.w.state = "pending_reconnect"
        /\ kept.w.state # "disconnected_error" => moved.w = kept.w
    BY <1>4, <2>1, <2>2, StateMoves
  <2> QED
    BY <2>1, <2>3
<1>7. o = IF kept.rc = "DISCONNECTED" /\ kept.w.auto
          THEN [kept EXCEPT !.w = moved.w, !.rc = "ATTEMPTING_RECONNECT"]
          ELSE kept
  BY <1>1, <1>4 DEF internal_yield
<1>8. Lost(kept) => Spoken(o)
  BY <1>7 DEF Lost, Spoken
<1>9. Lost(kept) => Lost(o)
  BY <1>6, <1>7, <1>8 DEF Lost
<1>10. ~Lost(kept) => o = kept
  BY <1>3, <1>7
<1> QED
  BY <1>2, <1>9, <1>10

\* What a call leaves: a client at rest, and no connection less that was not told.
Tells(o, w) == /\ Sane(o.w) /\ o.w.state \in AtRest
               /\ is_client_connected(w) /\ ~is_client_connected(o.w) => Spoken(o)

\* The end of a yield: nothing but a read in the state of the yield, or after the
\* client was disconnected under it.
LEMMA YieldEnds ==
  ASSUME NEW read, NEW s \in {"yield", "disconnected_manually"}, Same(read, s),
         NEW expired \in BOOLEAN, NEW o, o = yield_end(read, expired)
  PROVE  Tells(o, read.w)
<1>1. PICK y : y = internal_yield(read, expired)
  OBVIOUS
<1>2. Lost(y) \/ Same(y, s)
  BY <1>1, Yielded
<1>3. PICK back : back = set_client_state(y.w, "yield", "idle")
  OBVIOUS
<1>4. o = IF y.rc \in {"DISCONNECTED", "ATTEMPTING_RECONNECT"} THEN y
          ELSE [y EXCEPT !.w = back.w, !.rc = IF @ = "SUCCESS" THEN back.rc ELSE @]
  BY <1>1, <1>3 DEF yield_end
<1>5. CASE Lost(y)
  BY <1>4, <1>5 DEF Lost, Tells, AtRest
<1>6. CASE Same(y, s)
  <2>1. Sane(y.w) /\ y.w.state = s
    BY <1>6 DEF Same
  <2>2. s = "yield" => y.w.link # "none"
    BY <2>1 DEF Sane, Linked, is_client_connected, ConnectedStates
  <2>3. s = "yield" => Sane(back.w) /\ back.w.state = "idle"
    <3>1. "idle" \in ClientStates
      BY DEF ClientStates, ConnectedStates
    <3>2. ASSUME s = "yield" PROVE Sane(back.w) /\ (y.w.state = "yield" => back.w.state = "idle")
      BY <1>3, <2>1, <2>2, <3>1, <3>2, StateMoves
    <3> QED
      BY <2>1, <3>2
  <2>4. s # "yield" => back.w = y.w
    BY <1>3, <2>1 DEF set_client_state, Outcome
  <2>5. o.w = back.w
    BY <1>4, <1>6 DEF Same
  <2>6. read.w.state = s
    BY DEF Same
  <2> QED
    BY <2>1, <2>3, <2>4, <2>5, <2>6 DEF Tells, AtRest, is_client_connected, ConnectedStates
<1> QED
  BY <1>2, <1>5, <1>6

\* What a cycle reads changes no state.
LEMMA CycleReads ==
  ASSUME NEW w, Sane(w), NEW read \in cycle_read(w)
  PROVE  Same(read, w.state)
<1>1. PICK v : v = [w EXCEPT !.ping = FALSE]
  OBVIOUS
<1>2. Sane(v) /\ v.state = w.state
  BY <1>1, PingSet
<1>3. \/ read = Outcome(w, "SUCCESS") \/ read = Outcome(v, "SUCCESS")
      \/ read = Outcome(w, "FAILURE") \/ read = Outcome(w, "SSL_ERROR")
  BY <1>1 DEF cycle_read
<1> QED
  BY <1>2, <1>3 DEF Outcome, Same, Untold

\* A message acknowledged is gone from the broker.
LEMMA MailGone ==
  ASSUME NEW w, Sane(w), NEW S \in SUBSET Messages
  PROVE  Sane([w EXCEPT !.mail = S]) /\ [w EXCEPT !.mail = S].state = w.state
<1>1. /\ [w EXCEPT !.mail = S] \in World /\ [w EXCEPT !.mail = S].state = w.state
      /\ [w EXCEPT !.mail = S].link = w.link /\ [w EXCEPT !.mail = S].table = w.table
  BY DEF Sane, World
<1> QED
  BY <1>1 DEF Sane, Linked, Distinct, is_client_connected

\* After its handler a message leaves the client in the state it had before, unless
\* the client was disconnected meanwhile.
LEMMA PublishEnds ==
  ASSUME NEW w, Sane(w), w.state \in {"callback", "disconnected_manually"},
         NEW before \in ClientStates, before \in ConnectedStates => w.link # "none",
         NEW m, NEW o, o = handle_publish_end(w, before, m)
  PROVE  Same(o, IF w.state = "callback" THEN before ELSE "disconnected_manually")
<1>1. PICK d : d = set_client_state(w, "callback", before)
  OBVIOUS
<1>2. PICK v : v = [d.w EXCEPT !.mail = @ \ {m}]
  OBVIOUS
<1>3. /\ Sane(d.w) /\ Untold(d)
      /\ w.state = "callback" => d.w.state = before /\ d.rc = "SUCCESS"
      /\ w.state # "callback" => d.w = w /\ d.rc = "UNEXPECTED_STATE"
  BY <1>1, StateMoves
<1>4. Sane(v) /\ v.state = d.w.state
  <2>1. v = [d.w EXCEPT !.mail = d.w.mail \ {m}] /\ d.w.mail \ {m} \in SUBSET Messages
    BY <1>2, <1>3 DEF Sane, World
  <2> QED
    BY <1>3, <2>1, MailGone
<1>5. o = IF d.rc # "SUCCESS" THEN d ELSE send_packet(d.w, v)
  BY <1>1, <1>2 DEF handle_publish_end, deliver_message_end
<1>6. CASE w.state # "callback"
  BY <1>3, <1>5, <1>6 DEF Same
<1>7. CASE w.state = "callback"
  <2>1. o.w \in {d.w, v} /\ o.rc \in {"SUCCESS", "SSL_ERROR"} /\ Untold(o)
    BY <1>3, <1>5, <1>7, PacketSent
  <2> QED
    BY <1>3, <1>4, <1>7, <2>1 DEF Same
<1> QED
  BY <1>6, <1>7

\* The parameters of a connection, and its link, leave the client's state.
LEMMA ParamsSet ==
  ASSUME NEW w, Sane(w), NEW p \in {"default", "hub"}
  PROVE  Sane([w EXCEPT !.options = p]) /\ [w EXCEPT !.options = p].state = w.state
<1>1. /\ [w EXCEPT !.options = p] \in World /\ [w EXCEPT !.options = p].state = w.state
      /\ [w EXCEPT !.options = p].link = w.link /\ [w EXCEPT !.options = p].table = w.table
  BY DEF Sane, World
<1> QED
  BY <1>1 DEF Sane, Linked, Distinct, is_client_connected

LEMMA LinkSet ==
  ASSUME NEW w, Sane(w), NEW l \in {"up", "silent", "broken"}
  PROVE  LET v == [w EXCEPT !.link = l] IN Sane(v) /\ v.state = w.state /\ v.link = l
<1>1. PICK v : v = [w EXCEPT !.link = l]
  OBVIOUS
<1>2. v \in World /\ v.state = w.state /\ v.link = l /\ v.table = w.table
  BY <1>1 DEF Sane, World
<1>3. Sane(v)
  BY <1>2 DEF Sane, Linked, Distinct, is_client_connected
<1> QED
  BY <1>1, <1>2, <1>3

\* A client initialized, or refused by the TLS stack, has an empty table.
LEMMA Initialized ==
  ASSUME NEW w, Sane(w), NEW o \in aws_iot_mqtt_init(w)
  PROVE  Sane(o.w) /\ o.w.state \in {"initialized", "invalid"}
<1>1. PICK c : c = set_connect_params([w EXCEPT !.table = <<>>, !.ping = FALSE, !.auto = TRUE],
                                      "default")
  OBVIOUS
<1>2. c \in World /\ c.table = <<>>
  <2>1. <<>> \in Seq(Topics)
    OBVIOUS
  <2>2. PICK v : v = [w EXCEPT !.table = <<>>, !.ping = FALSE, !.auto = TRUE]
    OBVIOUS
  <2>3. v \in World /\ v.table = <<>>
    BY <2>1, <2>2 DEF Sane, World
  <2>4. c = [v EXCEPT !.options = "default"]
    BY <1>1, <2>2 DEF set_connect_params
  <2> QED
    BY <2>3, <2>4 DEF World
<1>3. \/ o = Outcome([c EXCEPT !.state = "initialized", !.link = "none"], "SUCCESS")
      \/ o = Outcome([c EXCEPT !.state = "invalid"], "FAILURE")
  BY <1>1 DEF aws_iot_mqtt_init
<1>v. PICK v : v = [c EXCEPT !.state = "initialized", !.link = "none"]
  OBVIOUS
<1>x. PICK x : x = [c EXCEPT !.state = "invalid"]
  OBVIOUS
<1>y. "initialized" \in ClientStates /\ "invalid" \in ClientStates
  BY DEF ClientStates
<1>z. /\ v \in World /\ v.table = <<>> /\ v.state = "initialized"
      /\ x \in World /\ x.table = <<>> /\ x.state = "invalid"
  BY <1>2, <1>v, <1>x, <1>y DEF World
<1>4. o.w \in World /\ o.w.table = <<>> /\ o.w.state \in {"initialized", "invalid"}
  <2>1. o = Outcome(v, "SUCCESS") \/ o = Outcome(x, "FAILURE")
    BY <1>3, <1>v, <1>x
  <2> QED
    BY <1>z, <2>1 DEF Outcome
<1> QED
  BY <1>4 DEF Sane, Linked, Distinct, is_client_connected, ConnectedStates

\* The TCP and TLS connection and the CONNECT, from the state set for it.
LEMMA InternallyConnected ==
  ASSUME NEW w, Sane(w), NEW params \in {"NULL", "hub"}, NEW reachable,
         NEW o \in internal_connect(w, params, reachable)
  PROVE  /\ Sane(o.w) /\ o.w.state = w.state
         /\ o.rc = "SUCCESS" => o.w.link = "up"
         /\ o.rc \in {"SUCCESS", "CONNECTION_ERROR", "REFUSED"}
<1>1. PICK asked : asked = IF params = "NULL" THEN w ELSE set_connect_params(w, params)
  OBVIOUS
<1>2. Sane(asked) /\ asked.state = w.state
  BY <1>1, ParamsSet DEF set_connect_params
<1>3. PICK up : up = [asked EXCEPT !.link = "up"]
  OBVIOUS
<1>4. Sane(up) /\ up.state = w.state /\ up.link = "up"
  BY <1>2, <1>3, LinkSet
<1>5. PICK linked : linked = [asked EXCEPT !.link = "up", !.ping = FALSE]
  OBVIOUS
<1>6. Sane(linked) /\ linked.state = w.state /\ linked.link = "up"
  <2>1. linked \in World /\ linked.state = up.state /\ linked.link = up.link
        /\ linked.table = up.table
    BY <1>2, <1>3, <1>5 DEF Sane, World
  <2> QED
    BY <1>4, <2>1 DEF Sane, Linked, Distinct, is_client_connected
<1>7. o \in {Outcome(asked, "CONNECTION_ERROR")}
        \cup {IF connack = "ACCEPTED" THEN Outcome(linked, "SUCCESS") ELSE Outcome(asked, connack)
              : connack \in IF reachable THEN deserialize_connack ELSE {}}
  BY <1>1, <1>5 DEF internal_connect
<1>8. \/ o = Outcome(asked, "CONNECTION_ERROR") \/ o = Outcome(linked, "SUCCESS")
      \/ o = Outcome(asked, "REFUSED")
  BY <1>7 DEF deserialize_connack
<1> QED
  BY <1>2, <1>6, <1>8 DEF Outcome

\* A connection attempt: refused when the client is connected or not initialized,
\* or in the end idle, or disconnected.
LEMMA Connected ==
  ASSUME NEW w, Sane(w), NEW params \in {"NULL", "hub"}, NEW reachable,
         NEW o \in aws_iot_mqtt_connect(w, params, reachable)
  PROVE  \/ /\ o = Outcome(w, "ALREADY_CONNECTED")
            /\ ~is_client_state_valid_for_connect(w.state)
         \/ /\ Sane(o.w) /\ ~is_client_connected(w)
            /\ \/ o.rc = "SUCCESS" /\ o.w.state = "idle"
               \/ o.rc \in {"CONNECTION_ERROR", "REFUSED"} /\ o.w.state = "disconnected_error"
<1>1. CASE ~is_client_state_valid_for_connect(w.state)
  BY <1>1 DEF aws_iot_mqtt_connect
<1>2. CASE is_client_state_valid_for_connect(w.state)
  <2>1. PICK b : b = set_client_state(w, w.state, "connecting").w
    OBVIOUS
  <2>2. Sane(b) /\ b.state = "connecting"
    <3>1. "connecting" \in ClientStates /\ "connecting" \notin ConnectedStates
      BY DEF ClientStates, ConnectedStates
    <3> QED
      BY <2>1, <3>1, StateMoves
  <2>3. PICK i \in internal_connect(b, params, reachable) :
          o = IF i.rc = "SUCCESS"
              THEN [i EXCEPT !.w = set_client_state(@, "connecting", "idle").w]
              ELSE [i EXCEPT !.w =
                      set_client_state(Closed(@), "connecting", "disconnected_error").w]
    BY <1>2, <2>1 DEF aws_iot_mqtt_connect
  <2>4. /\ Sane(i.w) /\ i.w.state = "connecting"
        /\ i.rc = "SUCCESS" => i.w.link = "up"
        /\ i.rc \in {"SUCCESS", "CONNECTION_ERROR", "REFUSED"}
    BY <2>2, <2>3, InternallyConnected
  <2>5. PICK idle : idle = set_client_state(i.w, "connecting", "idle").w
    OBVIOUS
  <2>6. i.rc = "SUCCESS" => Sane(idle) /\ idle.state = "idle"
    <3>1. "idle" \in ClientStates
      BY DEF ClientStates, ConnectedStates
    <3> QED
      BY <2>4, <2>5, <3>1, StateMoves
  <2>7. PICK down : down = set_client_state(Closed(i.w), "connecting", "disconnected_error").w
    OBVIOUS
  <2>8. Sane(down) /\ down.state = "disconnected_error"
    <3>1. Closed(i.w).state = "connecting"
      BY <2>4 DEF Closed, Sane, World
    <3>2. down = [Closed(i.w) EXCEPT !.state = "disconnected_error"]
      BY <2>7, <3>1 DEF set_client_state, Outcome
    <3> QED
      BY <2>4, <3>2, ClosedMoves DEF ClientStates, ConnectedStates
  <2>9. o = IF i.rc = "SUCCESS" THEN [i EXCEPT !.w = idle] ELSE [i EXCEPT !.w = down]
    BY <2>3, <2>5, <2>7
  <2>10. ~is_client_connected(w)
    BY <1>2 DEF is_client_state_valid_for_connect, is_client_connected, ConnectedStates
  <2> QED
    BY <2>4, <2>6, <2>8, <2>9, <2>10
<1> QED
  BY <1>1, <1>2

\* The broker's subscriptions change nothing in the client.
LEMMA SubsSet ==
  ASSUME NEW w, Sane(w), NEW S \in SUBSET Topics
  PROVE  Sane([w EXCEPT !.subs = S]) /\ [w EXCEPT !.subs = S].state = w.state
         /\ [w EXCEPT !.subs = S].table = w.table
<1>1. /\ [w EXCEPT !.subs = S] \in World /\ [w EXCEPT !.subs = S].state = w.state
      /\ [w EXCEPT !.subs = S].link = w.link /\ [w EXCEPT !.subs = S].table = w.table
  BY DEF Sane, World
<1> QED
  BY <1>1 DEF Sane, Linked, Distinct, is_client_connected

\* A topic that is not in the table is put at its end.
LEMMA Recorded ==
  ASSUME NEW w, Sane(w), NEW topic \in Topics, topic \notin Listed(w)
  PROVE  LET v == [w EXCEPT !.table = Append(@, topic)] IN Sane(v) /\ v.state = w.state
<1>1. PICK t : t = Append(w.table, topic)
  OBVIOUS
<1>2. PICK v : v = [w EXCEPT !.table = t]
  OBVIOUS
<1>3. w.table \in Seq(Topics)
  BY DEF Sane, World
<1>4. t \in Seq(Topics) /\ DOMAIN t = 1 .. Len(w.table) + 1
      /\ t[Len(w.table) + 1] = topic
      /\ \A i \in 1 .. Len(w.table) : t[i] = w.table[i]
      /\ DOMAIN w.table = 1 .. Len(w.table) /\ Len(w.table) \in Nat
  BY <1>1, <1>3
<1>5. v \in World /\ v.state = w.state /\ v.link = w.link /\ v.table = t
  BY <1>2, <1>4 DEF Sane, World
<1>6. \A i \in 1 .. Len(w.table) : t[i] # topic
  BY <1>4 DEF Listed
<1>7. Distinct(v)
  <2>1. \A i, j \in 1 .. Len(w.table) : t[i] = t[j] => i = j
    BY <1>4 DEF Sane, Distinct
  <2>2. \A i \in DOMAIN t : i \in 1 .. Len(w.table) \/ i = Len(w.table) + 1
    BY <1>4
  <2>3. \A i, j \in DOMAIN t : t[i] = t[j] => i = j
    BY <1>4, <1>6, <2>1, <2>2
  <2> QED
    BY <1>5, <2>3 DEF Distinct
<1>8. Sane(v)
  BY <1>5, <1>7 DEF Sane, Linked, is_client_connected
<1> QED
  BY <1>1, <1>2, <1>5, <1>8

\* A subscription leaves the client's state, and has its topic at most once.
LEMMA InternallySubscribed ==
  ASSUME NEW w, Sane(w), NEW topic \in Topics, NEW o \in internal_subscribe(w, topic)
  PROVE  Sane(o.w) /\ o.w.state = w.state
<1>1. PICK a : a = [w EXCEPT !.subs = @ \cup {topic}]
  OBVIOUS
<1>2. Sane(a) /\ a.state = w.state /\ a.table = w.table
  <2>1. w.subs \cup {topic} \in SUBSET Topics
    BY DEF Sane, World
  <2> QED
    BY <1>1, <2>1, SubsSet
<1>3. PICK asked : asked = send_packet(w, a)
  OBVIOUS
<1>4. Sane(asked.w) /\ asked.w.state = w.state /\ asked.w.table = w.table
  <2>1. asked.w \in {w, a}
    BY <1>3, PacketSent
  <2> QED
    BY <1>2, <2>1
<1>5. PICK r : r = [asked.w EXCEPT !.table = Append(@, topic)]
  OBVIOUS
<1>6. topic \notin Listed(w) => Sane(r) /\ r.state = w.state
  <2>1. Listed(asked.w) = Listed(w)
    BY <1>4 DEF Listed
  <2> QED
    BY <1>4, <1>5, <2>1, Recorded
<1>7. \/ \E rc : o = Outcome(w, rc)
      \/ o = asked
      \/ \E rc : o = Outcome(asked.w, rc)
      \/ topic \notin Listed(w) /\ \E rc : o = Outcome(r, rc)
  <2>1. CASE topic \in Listed(w)
    BY <2>1 DEF internal_subscribe
  <2>2. CASE topic \notin Listed(w) /\ get_free_message_handler_index(w) > Handlers
    BY <2>2 DEF internal_subscribe
  <2>3. CASE topic \notin Listed(w) /\ ~(get_free_message_handler_index(w) > Handlers)
    <3>1. o \in IF asked.rc # "SUCCESS" THEN {asked}
                ELSE {Outcome(IF rc = "SUCCESS" THEN r ELSE asked.w, rc)
                      : rc \in wait_for_read(asked.w)}
      BY <1>1, <1>3, <1>5, <2>3 DEF internal_subscribe
    <3>2. CASE asked.rc # "SUCCESS"
      BY <3>1, <3>2
    <3>3. CASE asked.rc = "SUCCESS"
      <4>1. PICK rc \in wait_for_read(asked.w) :
              o = Outcome(IF rc = "SUCCESS" THEN r ELSE asked.w, rc)
        BY <3>1, <3>3
      <4> QED
        BY <2>3, <4>1
    <3> QED
      BY <3>2, <3>3
  <2> QED
    BY <2>1, <2>2, <2>3
<1> QED
  BY <1>4, <1>6, <1>7 DEF Outcome

LEMMA Subscribed ==
  ASSUME NEW w, Sane(w), NEW topic \in Topics, NEW o \in subscribe_end(w, topic),
         w.state \in {"subscribe", "disconnected_manually"}
  PROVE  /\ Sane(o.w)
         /\ o.w.state = IF w.state = "subscribe" THEN "idle" ELSE "disconnected_manually"
<1>1. PICK i \in internal_subscribe(w, topic) :
        o = LET back == set_client_state(i.w, "subscribe", "idle")
            IN  Outcome(back.w, IF i.rc = "SUCCESS" THEN back.rc ELSE i.rc)
  BY DEF subscribe_end
<1>2. Sane(i.w) /\ i.w.state = w.state
  BY <1>1, InternallySubscribed
<1>3. PICK back : back = set_client_state(i.w, "subscribe", "idle")
  OBVIOUS
<1>4. o.w = back.w
  BY <1>1, <1>3 DEF Outcome
<1>5. w.state = "subscribe" => Sane(back.w) /\ back.w.state = "idle"
  <2>1. "idle" \in ClientStates
    BY DEF ClientStates, ConnectedStates
  <2>2. w.state = "subscribe" => i.w.link # "none"
    BY <1>2 DEF Sane, Linked, is_client_connected, ConnectedStates
  <2>3. ASSUME w.state = "subscribe"
        PROVE  Sane(back.w) /\ (i.w.state = "subscribe" => back.w.state = "idle")
    BY <1>2, <1>3, <2>1, <2>2, <2>3, StateMoves
  <2> QED
    BY <1>2, <2>3
<1>6. w.state # "subscribe" => back.w = i.w
  BY <1>2, <1>3 DEF set_client_state, Outcome
<1> QED
  BY <1>2, <1>4, <1>5, <1>6

\* The topics of the table again.
LEMMA Resubscribed ==
  ASSUME NEW w, Sane(w), w.state \in {"resubscribe", "disconnected_manually"},
         NEW o \in attempt_reconnect_end(w)
  PROVE  /\ Sane(o.w)
         /\ o.w.state = IF w.state = "resubscribe" THEN "idle" ELSE "disconnected_manually"
<1>1. PICK r \in resubscribe_end(w) :
        o = IF r.rc = "SUCCESS" THEN Outcome(r.w, "RECONNECTED") ELSE r
  BY DEF attempt_reconnect_end
<1>2. PICK i \in internal_resubscribe(w) : r = set_client_state(i.w, "resubscribe", "idle")
  BY <1>1 DEF resubscribe_end
<1>3. Sane(i.w) /\ i.w.state = w.state
  <2>1. \A k \in 0 .. Len(w.table) : {w.table[x] : x \in 1 .. k} \in SUBSET Topics
    BY DEF Sane, World
  <2>2. \/ \E rc : i = Outcome(w, rc)
        \/ \E rc : \E k \in 0 .. Len(w.table) :
             i = Outcome([w EXCEPT !.subs = @ \cup {w.table[x] : x \in 1 .. k}], rc)
    BY <1>2 DEF internal_resubscribe
  <2>3. CASE \E rc : i = Outcome(w, rc)
    BY <2>3 DEF Outcome
  <2>4. CASE \E rc : \E k \in 0 .. Len(w.table) :
               i = Outcome([w EXCEPT !.subs = @ \cup {w.table[x] : x \in 1 .. k}], rc)
    <3>0. PICK rc : \E k \in 0 .. Len(w.table) :
               i = Outcome([w EXCEPT !.subs = @ \cup {w.table[x] : x \in 1 .. k}], rc)
      BY <2>4
    <3>1. PICK k \in 0 .. Len(w.table) :
               i = Outcome([w EXCEPT !.subs = @ \cup {w.table[x] : x \in 1 .. k}], rc)
      BY <3>0
    <3>2. PICK S : S = w.subs \cup {w.table[x] : x \in 1 .. k}
      OBVIOUS
    <3>3. S \in SUBSET Topics
      BY <2>1, <3>2 DEF Sane, World
    <3>4. i.w = [w EXCEPT !.subs = S]
      BY <3>1, <3>2 DEF Outcome
    <3> QED
      BY <3>3, <3>4, SubsSet
  <2> QED
    BY <2>2, <2>3, <2>4
<1>4. o.w = r.w
  BY <1>1 DEF Outcome
<1>5. w.state = "resubscribe" => Sane(r.w) /\ r.w.state = "idle"
  <2>1. "idle" \in ClientStates
    BY DEF ClientStates, ConnectedStates
  <2>2. w.state = "resubscribe" => i.w.link # "none"
    BY <1>3 DEF Sane, Linked, is_client_connected, ConnectedStates
  <2>3. ASSUME w.state = "resubscribe"
        PROVE  Sane(r.w) /\ (i.w.state = "resubscribe" => r.w.state = "idle")
    BY <1>2, <1>3, <2>1, <2>2, <2>3, StateMoves
  <2> QED
    BY <1>3, <2>3
<1>6. w.state # "resubscribe" => r.w = i.w
  BY <1>2, <1>3 DEF set_client_state, Outcome
<1> QED
  BY <1>3, <1>4, <1>5, <1>6

\* The setting of automatic reconnection changes nothing else.
LEMMA AutoSet ==
  ASSUME NEW w, Sane(w), NEW b \in BOOLEAN
  PROVE  Sane(autoreconnect_set_status(w, b)) /\ autoreconnect_set_status(w, b).state = w.state
<1>1. PICK v : v = [w EXCEPT !.auto = b]
  OBVIOUS
<1>2. /\ v \in World /\ v.state = w.state /\ v.link = w.link /\ v.table = w.table
  BY <1>1 DEF Sane, World
<1> QED
  BY <1>1, <1>2 DEF Sane, Linked, Distinct, is_client_connected, autoreconnect_set_status

\* A reconnection goes on to the topics, or leaves a client at rest.
LEMMA ReconnectBegins ==
  ASSUME NEW w, Sane(w), w.state \in AtRest, NEW reachable,
         NEW o \in attempt_reconnect_begin(w, reachable)
  PROVE  \/ o.w = w /\ o.rc = "ALREADY_CONNECTED"
         \/ /\ Sane(o.w) /\ ~is_client_connected(w)
            /\ \/ o.w.state = "resubscribe" /\ o.rc = "SUCCESS"
               \/ o.w.state \in AtRest /\ o.rc = "ATTEMPTING_RECONNECT"
<1>1. CASE is_client_connected(w)
  BY <1>1 DEF attempt_reconnect_begin, Outcome
<1>2. CASE ~is_client_connected(w)
  <2>1. PICK c \in aws_iot_mqtt_connect(w, "NULL", reachable) :
          o = IF c.w.state = "idle" THEN resubscribe_begin(c.w)
              ELSE Outcome(set_client_state(c.w, "disconnected_error", "pending_reconnect").w,
                           "ATTEMPTING_RECONNECT")
    BY <1>2 DEF attempt_reconnect_begin
  <2>2. Sane(c.w) /\ c.w.state \in AtRest
    BY <2>1, Connected DEF Outcome, AtRest
  <2>3. CASE c.w.state = "idle"
    <3>1. o = set_client_state(c.w, "idle", "resubscribe")
      BY <2>1, <2>3 DEF resubscribe_begin, is_client_connected, ConnectedStates
    <3>2. "resubscribe" \in ClientStates /\ c.w.link # "none"
      BY <2>2, <2>3 DEF ClientStates, ConnectedStates, Sane, Linked, is_client_connected
    <3>3. Sane(o.w) /\ (c.w.state = "idle" => o.w.state = "resubscribe" /\ o.rc = "SUCCESS")
      BY <2>2, <3>1, <3>2, StateMoves
    <3> QED
      BY <1>2, <2>3, <3>3
  <2>4. CASE c.w.state # "idle"
    <3>1. PICK p : p = set_client_state(c.w, "disconnected_error", "pending_reconnect")
      OBVIOUS
    <3>2. "pending_reconnect" \in ClientStates /\ "pending_reconnect" \notin ConnectedStates
      BY DEF ClientStates, ConnectedStates
    <3>3. /\ Sane(p.w) /\ c.w.state = "disconnected_error" => p.w.state = "pending_reconnect"
          /\ c.w.state # "disconnected_error" => p.w = c.w
      BY <2>2, <3>1, <3>2, StateMoves
    <3>4. Sane(p.w)
      BY <2>2, <3>1, <3>2, StateMoves
    <3>5. o.w = p.w /\ o.rc = "ATTEMPTING_RECONNECT"
      BY <2>1, <2>4, <3>1 DEF Outcome
    <3> QED
      BY <1>2, <2>2, <3>3, <3>4, <3>5 DEF AtRest
  <2> QED
    BY <2>3, <2>4
<1> QED
  BY <1>1, <1>2

-----------------------------------------------------------------------------
(* The lock and the client.                                                *)

\* mqtt_lock is where the task that holds it is in a blocking call.
Owners ==
  /\ mqtt_lock \in {"none", "connection", "yield", "validation"}
  /\ mqtt_lock = "connection" <=> connAt = "resubscribe"
  /\ mqtt_lock = "yield" <=> yieldAt # "rest"
  /\ mqtt_lock = "validation" <=> valAt = "subscribing"
  /\ yieldAt \in {"rest", "reading", "callback"}

\* The client is in the state of that call, or disconnected under it: the order to go
\* on with new keys, and a connection task that gives up, take no lock.
During(s) == mqtt.state \in {s, "disconnected_manually"}
InCall ==
  /\ mqtt_lock = "none" => mqtt.state \in AtRest
  /\ connAt = "resubscribe" => During("resubscribe")
  /\ valAt = "subscribing" => During("subscribe")
  /\ yieldAt = "reading" => During("yield")
  /\ yieldAt = "callback" => During("callback")

NetInv == Sane(mqtt) /\ channel \in DOMAIN Channels /\ Owners /\ InCall

LossStep == connected /\ ~connected' => ~drv_mqtt_online' \/ inputAt' = "reset"
                                        \/ connAt = "configure"

SameCalls == /\ mqtt_lock' = mqtt_lock /\ yieldAt' = yieldAt
             /\ connAt' = "resubscribe" <=> connAt = "resubscribe"
             /\ valAt' = "subscribing" <=> valAt = "subscribing"

\* A step that begins and ends no call: it may disconnect the client, and do what it
\* likes while nobody holds the lock.
LEMMA Beside ==
  ASSUME NetInv, SameCalls, channel' \in DOMAIN Channels, Sane(mqtt'),
         \/ mqtt'.state = mqtt.state \/ mqtt'.state = "disconnected_manually"
         \/ mqtt_lock = "none" /\ mqtt'.state \in AtRest
  PROVE  NetInv'
<1>1. Owners'
  BY DEF NetInv, Owners, SameCalls
<1>2. mqtt_lock = "none" => mqtt'.state \in AtRest
  BY DEF NetInv, InCall, AtRest
<1>3. mqtt_lock # "none" => \A s : During(s) => During(s)'
  BY DEF During
<1>4. InCall'
  BY <1>1, <1>2, <1>3 DEF NetInv, Owners, InCall, SameCalls
<1> QED
  BY <1>1, <1>4 DEF NetInv

\* A connection kept is no loss.
LEMMA Kept == ASSUME mqtt'.state = mqtt.state PROVE LossStep
  BY DEF LossStep, connected, is_client_connected

\* Giving up, with or without a rollback of the keys.
LEMMA GivenUp ==
  ASSUME NEW w, Sane(w), NEW from, Exhausted(from, w)
  PROVE  /\ Sane(mqtt') /\ connAt = from /\ connAt' = "rest"
         /\ mqtt'.state = w.state \/ mqtt'.state = "disconnected_manually"
         /\ is_client_connected(w) /\ ~is_client_connected(mqtt') => ~drv_mqtt_online'
<1>1. connAt = from /\ connAt' = "rest"
  BY DEF Exhausted, GiveUp, At
<1>2. CASE mqtt' = aws_iot_mqtt_disconnect(w).w /\ disconnection_cb
  BY <1>1, <1>2, Disconnected DEF disconnection_cb
<1>3. CASE mqtt' = w
  BY <1>1, <1>3
<1> QED
  BY <1>2, <1>3 DEF Exhausted

LEMMA TriedAgain ==
  ASSUME NEW from, TryAgain(from)
  PROVE  connAt = from /\ connAt' = "dial"
  BY DEF TryAgain, At

-----------------------------------------------------------------------------
(* The steps.                                                              *)

Keeps == NetInv' /\ LossStep

\* The steps that leave the client alone, and begin and end no call.
LEMMA UntouchedKeeps ==
  ASSUME NetInv,
         \/ connection_attempt \/ connection_attempt_fails \/ drv_mqtt_unready
         \/ drv_mqtt_await \/ connection_check \/ connection_online \/ wifi_got_ip
         \/ validation_success_cb \/ connection_reset \/ validation_attempt \/ UNCHANGED vars
  PROVE  Keeps
<1>1. UNCHANGED <<mqtt, mqtt_lock, yieldAt>>
  BY DEF connection_attempt, connection_attempt_fails, drv_mqtt_unready, drv_mqtt_await,
         connection_check, connection_online, wifi_got_ip, validation_success_cb,
         connection_reset, validation_attempt, vars, yield
<1>2. connAt' = "resubscribe" <=> connAt = "resubscribe"
  BY DEF connection_attempt, connection_attempt_fails, drv_mqtt_unready, drv_mqtt_await,
         connection_check, connection_online, wifi_got_ip, validation_success_cb,
         connection_reset, validation_attempt, vars, conn, GiveUp, At
<1>3. valAt' = "subscribing" <=> valAt = "subscribing"
  BY DEF connection_attempt, connection_attempt_fails, drv_mqtt_unready, drv_mqtt_await,
         connection_check, connection_online, wifi_got_ip, validation_success_cb,
         connection_reset, validation_attempt, vars, val
<1>4. channel' \in DOMAIN Channels
  <2>1. channel' = channel \/ channel' = 1
    BY DEF connection_attempt, connection_attempt_fails, drv_mqtt_unready, drv_mqtt_await,
           connection_check, connection_online, wifi_got_ip, validation_success_cb,
           connection_reset, validation_attempt, vars, val
  <2>2. 1 \in DOMAIN Channels
    BY NetworkAssumption
  <2> QED
    BY <2>1, <2>2 DEF NetInv
<1>5. NetInv'
  BY <1>1, <1>2, <1>3, <1>4, Beside DEF NetInv, SameCalls
<1> QED
  BY <1>1, <1>5, Kept DEF Keeps

\* The outside takes the link away or gives it back, and sends orders.
LEMMA OutsideKeeps ==
  ASSUME NetInv, wifi_stopped \/ wifi_lost \/ LinkFails \/ LinkRecovers \/ OrderForward
  PROVE  Keeps
<1>1. SameCalls /\ channel' = channel
  BY DEF wifi_stopped, wifi_lost, LinkFails, LinkRecovers, OrderForward, conn, yield, val,
         SameCalls
<1>2. Sane(mqtt') /\ mqtt'.state = mqtt.state
  <2>1. CASE mqtt' = mqtt
    BY <2>1 DEF NetInv
  <2>2. CASE \E l \in {"up", "silent", "broken"} : mqtt' = [mqtt EXCEPT !.link = l]
    <3>1. PICK l \in {"up", "silent", "broken"} : mqtt' = [mqtt EXCEPT !.link = l]
      BY <2>2
    <3>2. LET v == [mqtt EXCEPT !.link = l] IN Sane(v) /\ v.state = mqtt.state
      BY LinkSet DEF NetInv
    <3> QED
      BY <3>1, <3>2
  <2>3. CASE mqtt' = [mqtt EXCEPT !.mail = @ \cup {"forward"}]
    <3>1. PICK S : S = mqtt.mail \cup {"forward"}
      OBVIOUS
    <3>2. S \in SUBSET Messages /\ mqtt' = [mqtt EXCEPT !.mail = S]
      BY <2>3, <3>1, NetworkAssumption DEF NetInv, Sane, World
    <3> QED
      BY <3>2, MailGone DEF NetInv
  <2>4. wifi_offline => mqtt' = mqtt \/ mqtt' = [mqtt EXCEPT !.link = "silent"]
    BY DEF wifi_offline
  <2>5. LinkFails => mqtt' = [mqtt EXCEPT !.link = "silent"]
                     \/ mqtt' = [mqtt EXCEPT !.link = "broken"]
    BY DEF LinkFails
  <2>6. LinkRecovers => mqtt' = [mqtt EXCEPT !.link = "up"]
    BY DEF LinkRecovers
  <2>7. OrderForward => mqtt' = [mqtt EXCEPT !.mail = @ \cup {"forward"}]
    BY DEF OrderForward
  <2>8. wifi_stopped \/ wifi_lost => wifi_offline
    BY DEF wifi_stopped, wifi_lost
  <2> QED
    BY <2>1, <2>2, <2>3, <2>4, <2>5, <2>6, <2>7, <2>8
<1> QED
  BY <1>1, <1>2, Beside, Kept DEF NetInv, Keeps

LEMMA ConfigureKeeps == ASSUME NetInv, drv_mqtt_configure PROVE Keeps
<1>1. PICK o \in aws_iot_mqtt_init(mqtt) :
        mqtt' = o.w /\ (At("configure", "await") \/ GiveUp("configure"))
  BY DEF drv_mqtt_configure
<1>2. Sane(mqtt') /\ mqtt'.state \in AtRest
  BY <1>1, Initialized DEF NetInv, AtRest
<1>3. /\ mqtt_lock = "none" /\ mqtt_lock' = mqtt_lock /\ yieldAt' = yieldAt /\ valAt' = valAt
      /\ channel' = channel
  BY DEF drv_mqtt_configure, Free, yield, val
<1>4. connAt = "configure" /\ connAt' # "resubscribe"
  BY <1>1 DEF GiveUp, At
<1>5. NetInv'
  BY <1>2, <1>3, <1>4, Beside DEF NetInv, SameCalls
<1> QED
  BY <1>4, <1>5 DEF Keeps, LossStep

LEMMA ConnectKeeps == ASSUME NetInv, drv_mqtt_connect PROVE Keeps
<1>1. PICK o \in aws_iot_mqtt_connect(mqtt, "hub", wifi_online) :
        \/ o.rc = "SUCCESS" /\ At("dial", "accept") /\ mqtt' = o.w
        \/ o.rc # "SUCCESS" /\ TryAgain("dial") /\ mqtt' = o.w
        \/ o.rc # "SUCCESS" /\ Exhausted("dial", o.w)
  BY DEF drv_mqtt_connect
<1>2. \/ o.w = mqtt
      \/ /\ Sane(o.w) /\ ~is_client_connected(mqtt)
         /\ o.w.state = "idle" \/ o.w.state = "disconnected_error"
  BY <1>1, Connected DEF NetInv, Outcome
<1>3. /\ mqtt_lock = "none" /\ mqtt_lock' = mqtt_lock /\ yieldAt' = yieldAt /\ valAt' = valAt
      /\ channel' = channel
  BY DEF drv_mqtt_connect, Free, yield, val
<1>4. Sane(o.w) /\ o.w.state \in AtRest
  BY <1>2, <1>3 DEF NetInv, InCall, AtRest
<1>5. /\ Sane(mqtt') /\ mqtt'.state \in AtRest /\ connAt = "dial" /\ connAt' # "resubscribe"
      /\ mqtt' = o.w \/ (is_client_connected(o.w) /\ ~is_client_connected(mqtt')
                         => ~drv_mqtt_online')
  <2>1. CASE mqtt' = o.w /\ connAt = "dial" /\ connAt' \in {"accept", "dial"}
    BY <1>4, <2>1
  <2>2. CASE Exhausted("dial", o.w)
    BY <1>4, <2>2, GivenUp DEF AtRest
  <2> QED
    BY <1>1, <2>1, <2>2, TriedAgain DEF At
<1>6. NetInv'
  BY <1>3, <1>5, Beside DEF NetInv, SameCalls
<1>7. LossStep
  BY <1>2, <1>5 DEF LossStep, connected
<1> QED
  BY <1>6, <1>7 DEF Keeps

LEMMA ReconnectKeeps == ASSUME NetInv, drv_mqtt_reconnect PROVE Keeps
<1>1. PICK o \in attempt_reconnect_begin(mqtt, wifi_online) :
       \/ /\ o.w.state = "resubscribe" /\ At("dial", "resubscribe") /\ mqtt' = o.w
          /\ Take("connection")
       \/ /\ o.rc = "ALREADY_CONNECTED" /\ At("dial", "accept") /\ mqtt' = o.w
          /\ UNCHANGED mqtt_lock
       \/ /\ o.rc = "ATTEMPTING_RECONNECT"
          /\ (TryAgain("dial") /\ mqtt' = o.w) \/ Exhausted("dial", o.w)
          /\ UNCHANGED mqtt_lock
  BY DEF drv_mqtt_reconnect
<1>2. /\ mqtt_lock = "none" /\ yieldAt' = yieldAt /\ valAt' = valAt /\ channel' = channel
  BY DEF drv_mqtt_reconnect, Free, yield, val
<1>3. Sane(mqtt) /\ mqtt.state \in AtRest
  BY <1>2 DEF NetInv, InCall
<1>4. \/ o.w = mqtt /\ o.rc = "ALREADY_CONNECTED"
      \/ /\ Sane(o.w) /\ ~is_client_connected(mqtt)
         /\ \/ o.w.state = "resubscribe" /\ o.rc = "SUCCESS"
            \/ o.w.state \in AtRest /\ o.rc = "ATTEMPTING_RECONNECT"
  BY <1>1, <1>3, ReconnectBegins
<1>5. CASE o.w.state = "resubscribe" /\ At("dial", "resubscribe") /\ mqtt' = o.w
           /\ Take("connection")
  <2>1. Sane(mqtt') /\ ~is_client_connected(mqtt) /\ mqtt'.state = "resubscribe"
    BY <1>3, <1>4, <1>5 DEF AtRest
  <2>2. connAt = "dial" /\ connAt' = "resubscribe" /\ mqtt_lock' = "connection"
    BY <1>5 DEF At, Take
  <2>3. Owners' /\ InCall'
    BY <1>2, <2>1, <2>2 DEF NetInv, Owners, InCall, During
  <2> QED
    BY <1>2, <2>1, <2>3 DEF NetInv, Keeps, LossStep, connected
<1>6. CASE UNCHANGED mqtt_lock /\ o.rc \in {"ALREADY_CONNECTED", "ATTEMPTING_RECONNECT"}
           /\ connAt = "dial" /\ connAt' # "resubscribe"
           /\ (mqtt' = o.w \/ Exhausted("dial", o.w))
  <2>1. Sane(o.w) /\ o.w.state \in AtRest
    BY <1>3, <1>4, <1>6
  <2>2. Sane(mqtt') /\ mqtt'.state \in AtRest
    BY <1>6, <2>1, GivenUp DEF AtRest
  <2>3. NetInv'
    BY <1>2, <1>6, <2>2, Beside DEF NetInv, SameCalls
  <2>4. is_client_connected(o.w) /\ ~is_client_connected(mqtt') => ~drv_mqtt_online'
    BY <1>6, <2>1, GivenUp
  <2>5. LossStep
    BY <1>4, <2>4 DEF LossStep, connected
  <2> QED
    BY <2>3, <2>5 DEF Keeps
<1>7. Exhausted("dial", o.w) /\ Sane(o.w) => connAt = "dial" /\ connAt' # "resubscribe"
  BY GivenUp
<1>8. At("dial", "accept") => connAt = "dial" /\ connAt' # "resubscribe"
  BY DEF At
<1>9. TryAgain("dial") => connAt = "dial" /\ connAt' # "resubscribe"
  BY TriedAgain
<1>10. Sane(o.w)
  BY <1>3, <1>4
<1> QED
  BY <1>1, <1>5, <1>6, <1>7, <1>8, <1>9, <1>10

LEMMA ResubscribedKeeps == ASSUME NetInv, drv_mqtt_resubscribed PROVE Keeps
<1>1. PICK o \in attempt_reconnect_end(mqtt) :
        (TryAgain("resubscribe") /\ mqtt' = o.w) \/ Exhausted("resubscribe", o.w)
  BY DEF drv_mqtt_resubscribed
<1>2. /\ connAt = "resubscribe" /\ mqtt_lock' = "none" /\ yieldAt' = yieldAt /\ valAt' = valAt
      /\ channel' = channel
  BY DEF drv_mqtt_resubscribed, Give, yield, val
<1>3. Sane(mqtt) /\ During("resubscribe") /\ mqtt_lock = "connection"
  BY <1>2 DEF NetInv, InCall, Owners
<1>4. /\ Sane(o.w)
      /\ o.w.state = IF mqtt.state = "resubscribe" THEN "idle" ELSE "disconnected_manually"
  BY <1>1, <1>3, Resubscribed DEF During
<1>5. /\ Sane(mqtt') /\ connAt' # "resubscribe"
      /\ mqtt'.state = o.w.state \/ mqtt'.state = "disconnected_manually"
      /\ is_client_connected(o.w) /\ ~is_client_connected(mqtt') => ~drv_mqtt_online'
  BY <1>1, <1>4, GivenUp, TriedAgain
<1>6. mqtt'.state \in AtRest
  BY <1>4, <1>5 DEF AtRest
<1>7. Owners' /\ InCall'
  BY <1>2, <1>3, <1>5, <1>6 DEF NetInv, Owners, InCall
<1>8. is_client_connected(mqtt) => is_client_connected(o.w)
  BY <1>3, <1>4 DEF is_client_connected, During, ConnectedStates
<1> QED
  BY <1>2, <1>5, <1>7, <1>8 DEF NetInv, Keeps, LossStep, connected

LEMMA DialBusyKeeps == ASSUME NetInv, drv_mqtt_dial_busy PROVE Keeps
<1>1. /\ connAt = "dial" /\ mqtt_lock' = mqtt_lock /\ yieldAt' = yieldAt /\ valAt' = valAt
      /\ channel' = channel
      /\ (TryAgain("dial") /\ mqtt' = mqtt) \/ Exhausted("dial", mqtt)
  BY DEF drv_mqtt_dial_busy, yield, val
<1>2. /\ Sane(mqtt') /\ connAt' # "resubscribe"
      /\ mqtt'.state = mqtt.state \/ mqtt'.state = "disconnected_manually"
      /\ connected /\ ~connected' => ~drv_mqtt_online'
  BY <1>1, GivenUp, TriedAgain DEF NetInv, connected
<1>3. NetInv'
  BY <1>1, <1>2, Beside DEF NetInv, SameCalls
<1> QED
  BY <1>2, <1>3 DEF Keeps, LossStep

LEMMA AcceptKeeps == ASSUME NetInv, drv_mqtt_accept PROVE Keeps
<1>1. SameCalls /\ channel' = channel
  BY DEF drv_mqtt_accept, At, yield, val, SameCalls
<1>2. mqtt' = mqtt \/ mqtt' = autoreconnect_set_status(mqtt, FALSE)
  BY DEF drv_mqtt_accept
<1>3. Sane(mqtt') /\ mqtt'.state = mqtt.state
  BY <1>2, AutoSet DEF NetInv
<1> QED
  BY <1>1, <1>3, Beside, Kept DEF NetInv, Keeps

LEMMA FinishKeeps == ASSUME NetInv, drv_mqtt_finish PROVE Keeps
<1>1. SameCalls /\ channel' = channel
  BY DEF drv_mqtt_finish, At, yield, val, SameCalls
<1>2. PICK w \in {mqtt, autoreconnect_set_status(mqtt, FALSE)} :
        mqtt' = w \/ (mqtt' = aws_iot_mqtt_disconnect(w).w /\ disconnection_cb)
  BY DEF drv_mqtt_finish
<1>3. Sane(w) /\ w.state = mqtt.state
  BY <1>2, AutoSet DEF NetInv
<1>4. CASE mqtt' = w
  BY <1>1, <1>3, <1>4, Beside, Kept DEF NetInv, Keeps
<1>5. CASE mqtt' = aws_iot_mqtt_disconnect(w).w /\ disconnection_cb
  <2>1. Sane(mqtt') /\ (mqtt'.state = mqtt.state \/ mqtt'.state = "disconnected_manually")
    BY <1>3, <1>5, Disconnected
  <2>2. NetInv'
    BY <1>1, <2>1, Beside DEF NetInv
  <2> QED
    BY <1>5, <2>2 DEF Keeps, LossStep, disconnection_cb
<1> QED
  BY <1>2, <1>4, <1>5

\* A yield begins with the client idle, and takes the lock.
LEMMA YieldKeeps == ASSUME NetInv, drv_mqtt_yield PROVE Keeps
<1>1. /\ yieldAt = "rest" /\ yieldAt' = "reading" /\ mqtt_lock = "none" /\ mqtt_lock' = "yield"
      /\ mqtt' = yield_begin(mqtt).w /\ yield_begin(mqtt).rc = "SUCCESS"
      /\ connAt' = connAt /\ valAt' = valAt /\ channel' = channel
  BY DEF drv_mqtt_yield, Take, Free, conn, val
<1>2. mqtt.state = "idle" /\ mqtt' = set_client_state(mqtt, "idle", "yield").w
  BY <1>1 DEF yield_begin, Outcome
<1>3. Sane(mqtt') /\ (mqtt.state = "idle" => mqtt'.state = "yield")
  <2>1. "yield" \in ClientStates /\ mqtt.link # "none"
    BY <1>2 DEF ClientStates, ConnectedStates, NetInv, Sane, Linked, is_client_connected
  <2>2. PICK o : o = set_client_state(mqtt, "idle", "yield")
    OBVIOUS
  <2>3. Sane(o.w) /\ (mqtt.state = "idle" => o.w.state = "yield")
    BY <2>1, <2>2, StateMoves DEF NetInv
  <2> QED
    BY <1>2, <2>2, <2>3
<1>4. Owners' /\ InCall'
  BY <1>1, <1>2, <1>3 DEF NetInv, Owners, InCall, During
<1> QED
  BY <1>1, <1>2, <1>3, <1>4
  DEF NetInv, Keeps, LossStep, connected, is_client_connected, ConnectedStates

\* A yield returns from a read in its own state, and gives the lock back.
LEMMA Returns ==
  ASSUME NetInv, yieldAt # "rest", UNCHANGED <<connAt, valAt, channel>>,
         NEW read, NEW s \in {"yield", "disconnected_manually"}, Same(read, s),
         connected => is_client_connected(read.w),
         NEW expired \in BOOLEAN, YieldReturns(read, expired)
  PROVE  Keeps
<1>1. PICK o : o = yield_end(read, expired)
  OBVIOUS
<1>2. Tells(o, read.w)
  BY <1>1, YieldEnds
<1>3. mqtt' = o.w /\ Told(o) /\ mqtt_lock' = "none" /\ yieldAt' = "rest"
  BY <1>1 DEF YieldReturns, Give
<1>4. Sane(mqtt') /\ mqtt'.state \in AtRest
  BY <1>2, <1>3 DEF Tells
<1>5. Owners' /\ InCall'
  BY <1>3, <1>4 DEF NetInv, Owners, InCall
<1>6. Spoken(o) => ~drv_mqtt_online'
  BY <1>3 DEF Told, Spoken, disconnection_cb
<1>7. LossStep
  BY <1>2, <1>3, <1>6 DEF Tells, LossStep, connected
<1> QED
  BY <1>4, <1>5, <1>7 DEF NetInv, Keeps

LEMMA ReadKeeps == ASSUME NetInv, NEW expired \in BOOLEAN, yield_read(expired) PROVE Keeps
<1>1. PICK read \in cycle_read(mqtt) : YieldReturns(read, expired)
  BY DEF yield_read
<1>2. /\ yieldAt = "reading" /\ UNCHANGED <<connAt, valAt, channel>>
      /\ mqtt.state \in {"yield", "disconnected_manually"}
  BY DEF yield_read, conn, val, NetInv, InCall, During
<1>3. Same(read, mqtt.state)
  BY <1>1, CycleReads DEF NetInv
<1>4. connected => is_client_connected(read.w)
  BY <1>3 DEF Same, connected, is_client_connected
<1> QED
  BY <1>1, <1>2, <1>3, <1>4, Returns

\* A message that has no handler is acknowledged, and the yield returns; one that has
\* calls it first.
LEMMA PublishKeeps == ASSUME NetInv, yield_publish PROVE Keeps
<1>1. /\ yieldAt = "reading" /\ UNCHANGED <<connAt, valAt, channel>>
      /\ mqtt.state \in {"yield", "disconnected_manually"} /\ "PUBLISH" \in read_packet(mqtt)
  BY DEF yield_publish, conn, val, NetInv, InCall, During
<1>2. mqtt.link = "up"
  BY <1>1 DEF read_packet
<1>3. PICK m \in mqtt.mail :
        IF Handled(mqtt, Validation)
        THEN /\ mqtt' = deliver_message_begin(mqtt)
             /\ yieldAt' = "callback" /\ mqtt_lock' = mqtt_lock
        ELSE YieldReturns(handle_publish_end(deliver_message_begin(mqtt), mqtt.state, m), FALSE)
  BY DEF yield_publish
<1>4. PICK b : b = deliver_message_begin(mqtt)
  OBVIOUS
<1>5. Sane(b) /\ b.state = "callback" /\ b.link # "none"
  <2>1. "callback" \in ClientStates
    BY DEF ClientStates, ConnectedStates
  <2>2. b = [mqtt EXCEPT !.state = "callback"]
    BY <1>4 DEF deliver_message_begin
  <2>3. Sane(b) /\ b.state = "callback"
    BY <1>2, <2>1, <2>2, StateSet DEF NetInv
  <2> QED
    BY <2>3 DEF Sane, Linked, is_client_connected, ConnectedStates
<1>6. CASE mqtt' = b /\ yieldAt' = "callback" /\ mqtt_lock' = mqtt_lock
  <2>1. Owners' /\ InCall'
    BY <1>1, <1>5, <1>6 DEF NetInv, Owners, InCall, During
  <2>2. connected'
    BY <1>5, <1>6 DEF connected, is_client_connected, ConnectedStates
  <2> QED
    BY <1>1, <1>5, <1>6, <2>1, <2>2 DEF NetInv, Keeps, LossStep
<1>7. CASE YieldReturns(handle_publish_end(b, mqtt.state, m), FALSE)
  <2>1. PICK read : read = handle_publish_end(b, mqtt.state, m)
    OBVIOUS
  <2>2. mqtt.state \in ClientStates
    BY DEF NetInv, Sane, World
  <2>3. Same(read, IF b.state = "callback" THEN mqtt.state ELSE "disconnected_manually")
    BY <1>5, <2>1, <2>2, PublishEnds
  <2>4. Same(read, mqtt.state)
    BY <1>5, <2>3
  <2>5. connected => is_client_connected(read.w)
    BY <2>4 DEF Same, connected, is_client_connected
  <2> QED
    BY <1>1, <1>7, <2>1, <2>4, <2>5, Returns
<1> QED
  BY <1>3, <1>4, <1>6, <1>7

\* After the handler the client is back in the yield, unless it was disconnected.
LEMMA CallbackKeeps == ASSUME NetInv, msg_fmt_raw_cb PROVE Keeps
<1>1. /\ yieldAt = "callback" /\ UNCHANGED <<connAt, valAt, channel>>
      /\ mqtt.state \in {"callback", "disconnected_manually"}
      /\ YieldReturns(handle_publish_end(mqtt, "yield", coming), FALSE)
  BY DEF msg_fmt_raw_cb, conn, val, NetInv, InCall, During
<1>2. PICK read : read = handle_publish_end(mqtt, "yield", coming)
  OBVIOUS
<1>3. mqtt.state = "callback" => mqtt.link # "none"
  BY DEF NetInv, Sane, Linked, is_client_connected, ConnectedStates
<1>4. PICK s : s = IF mqtt.state = "callback" THEN "yield" ELSE "disconnected_manually"
  OBVIOUS
<1>5. Same(read, s)
  <2>1. "yield" \in ClientStates
    BY DEF ClientStates, ConnectedStates
  <2>2. CASE mqtt.state = "callback"
    BY <1>2, <1>3, <1>4, <2>1, <2>2, PublishEnds DEF NetInv
  <2>3. CASE mqtt.state # "callback"
    <3>1. read = Outcome(mqtt, "UNEXPECTED_STATE")
      BY <1>2, <2>3 DEF handle_publish_end, deliver_message_end, set_client_state, Outcome
    <3> QED
      BY <1>1, <1>4, <2>3, <3>1 DEF Same, Outcome, Untold, NetInv
  <2> QED
    BY <2>2, <2>3
<1>6. connected => is_client_connected(read.w)
  BY <1>1, <1>4, <1>5 DEF Same, connected, is_client_connected, ConnectedStates
<1>7. s \in {"yield", "disconnected_manually"}
  BY <1>4
<1> QED
  BY <1>1, <1>2, <1>5, <1>6, <1>7, Returns

LEMMA ResetKeeps == ASSUME NetInv, drv_mqtt_reset PROVE Keeps
<1>1. /\ SameCalls /\ channel' = channel /\ inputAt' = "reset"
      /\ mqtt' = aws_iot_mqtt_disconnect(mqtt).w
  BY DEF drv_mqtt_reset, conn, yield, val, SameCalls
<1>2. Sane(mqtt') /\ (mqtt'.state = mqtt.state \/ mqtt'.state = "disconnected_manually")
  BY <1>1, Disconnected DEF NetInv
<1> QED
  BY <1>1, <1>2, Beside DEF NetInv, Keeps, LossStep

\* The next channel is one of the list.
LEMMA ChannelMoves ==
  ASSUME NetInv, NEW rc, NextChannel(rc)
  PROVE  channel' \in DOMAIN Channels /\ valAt' # "subscribing"
<1>1. DOMAIN Channels = 1 .. Len(Channels) /\ Len(Channels) \in Nat \ {0}
  BY NetworkAssumption
<1> QED
  BY <1>1 DEF NextChannel, NetInv

\* A subscription is refused, or begins with the client idle, and takes the lock.
LEMMA SubscribeKeeps == ASSUME NetInv, drv_mqtt_subscribe PROVE Keeps
<1>1. UNCHANGED <<connAt, yieldAt>> /\ valAt = "subscribe"
  BY DEF drv_mqtt_subscribe, conn, yield
<1>2. CASE NextChannel("FAILURE") /\ UNCHANGED <<mqtt, mqtt_lock>>
  <2>1. SameCalls /\ channel' \in DOMAIN Channels
    BY <1>1, <1>2, ChannelMoves DEF SameCalls
  <2> QED
    BY <1>2, <2>1, Beside, Kept DEF NetInv, Keeps
<1>3. CASE /\ Free /\ subscribe_begin(mqtt).rc = "SUCCESS"
           /\ Take("validation") /\ mqtt' = subscribe_begin(mqtt).w
           /\ valAt' = "subscribing" /\ UNCHANGED channel
  <2>1. PICK o : o = set_client_state(mqtt, "idle", "subscribe")
    OBVIOUS
  <2>2. mqtt.state = "idle" /\ mqtt' = o.w
    BY <1>3, <2>1 DEF subscribe_begin, Outcome
  <2>3. Sane(mqtt') /\ (mqtt.state = "idle" => mqtt'.state = "subscribe")
    <3>1. "subscribe" \in ClientStates /\ mqtt.link # "none"
      BY <2>2 DEF ClientStates, ConnectedStates, NetInv, Sane, Linked, is_client_connected
    <3>2. Sane(o.w) /\ (mqtt.state = "idle" => o.w.state = "subscribe")
      BY <2>1, <3>1, StateMoves DEF NetInv
    <3> QED
      BY <2>2, <3>2
  <2>4. Owners' /\ InCall'
    BY <1>1, <1>3, <2>2, <2>3 DEF NetInv, Owners, InCall, During, Take, Free
  <2> QED
    BY <1>3, <2>2, <2>3, <2>4
    DEF NetInv, Keeps, LossStep, connected, is_client_connected, ConnectedStates
<1> QED
  BY <1>2, <1>3 DEF drv_mqtt_subscribe

LEMMA SubscribedKeeps == ASSUME NetInv, drv_mqtt_subscribed PROVE Keeps
<1>1. PICK o \in subscribe_end(mqtt, Channels[channel]) : mqtt' = o.w /\ NextChannel(o.rc)
  BY DEF drv_mqtt_subscribed
<1>2. UNCHANGED <<connAt, yieldAt>> /\ valAt = "subscribing" /\ mqtt_lock' = "none"
  BY DEF drv_mqtt_subscribed, conn, yield, Give
<1>3. mqtt_lock = "validation" /\ mqtt.state \in {"subscribe", "disconnected_manually"}
  BY <1>2 DEF NetInv, Owners, InCall, During
<1>4. Channels[channel] \in Topics
  BY NetworkAssumption DEF NetInv
<1>5. /\ Sane(mqtt')
      /\ mqtt'.state = IF mqtt.state = "subscribe" THEN "idle" ELSE "disconnected_manually"
  BY <1>1, <1>3, <1>4, Subscribed DEF NetInv
<1>6. channel' \in DOMAIN Channels /\ valAt' # "subscribing"
  BY <1>1, ChannelMoves
<1>7. Owners' /\ InCall'
  BY <1>2, <1>3, <1>5, <1>6 DEF NetInv, Owners, InCall, AtRest
<1>8. connected => connected'
  BY <1>3, <1>5 DEF connected, is_client_connected, ConnectedStates
<1> QED
  BY <1>5, <1>6, <1>7, <1>8 DEF NetInv, Keeps, LossStep

LEMMA SendKeeps == ASSUME NetInv, validation_send PROVE Keeps
<1>1. SameCalls /\ channel' = channel
  BY DEF validation_send, conn, yield, SameCalls
<1>2. Sane(mqtt') /\ mqtt'.state = mqtt.state
  <2>1. CASE mqtt' = mqtt
    BY <2>1 DEF NetInv
  <2>2. CASE mqtt' = [mqtt EXCEPT !.mail = IF Validation \in mqtt.subs
                                           THEN @ \cup {"answer"} ELSE @]
    <3>1. PICK S : S = IF Validation \in mqtt.subs THEN mqtt.mail \cup {"answer"} ELSE mqtt.mail
      OBVIOUS
    <3>2. S \in SUBSET Messages /\ mqtt' = [mqtt EXCEPT !.mail = S]
      BY <2>2, <3>1, NetworkAssumption DEF NetInv, Sane, World
    <3> QED
      BY <3>2, MailGone DEF NetInv
  <2> QED
    BY <2>1, <2>2 DEF validation_send, msg_raw_send
<1> QED
  BY <1>1, <1>2, Beside, Kept DEF NetInv, Keeps

-----------------------------------------------------------------------------
LEMMA NetInit == Init => NetInv
<1> SUFFICES ASSUME Init PROVE NetInv
  OBVIOUS
<1>1. mqtt = ZeroClient
  BY DEF Init
<1>2. <<>> \in Seq(Topics)
  OBVIOUS
<1>3. mqtt \in World /\ mqtt.state = "invalid" /\ mqtt.table = <<>>
  BY <1>1, <1>2 DEF ZeroClient, World, ClientStates
<1>4. Sane(mqtt)
  BY <1>3 DEF Sane, Linked, Distinct, is_client_connected, ConnectedStates
<1>5. channel \in DOMAIN Channels
  BY NetworkAssumption DEF Init
<1>6. Owners /\ InCall
  BY <1>3 DEF Init, Owners, InCall, AtRest
<1> QED
  BY <1>4, <1>5, <1>6 DEF NetInv

LEMMA NetStep == NetInv /\ [Next]_vars => Keeps
<1> SUFFICES ASSUME NetInv, [Next]_vars PROVE Keeps
  OBVIOUS
<1>1. ASSUME Connecting PROVE Keeps
  BY <1>1, UntouchedKeeps, ConfigureKeeps, ConnectKeeps, ReconnectKeeps, ResubscribedKeeps,
     DialBusyKeeps, AcceptKeeps, FinishKeeps DEF Connecting
<1>2. ASSUME Yielding \/ drv_mqtt_yield PROVE Keeps
  BY <1>2, YieldKeeps, ReadKeeps, PublishKeeps, CallbackKeeps DEF Yielding
<1>3. ASSUME Handling PROVE Keeps
  BY <1>3, UntouchedKeeps, ResetKeeps DEF Handling
<1>4. ASSUME Validating PROVE Keeps
  BY <1>4, UntouchedKeeps, SubscribeKeeps, SubscribedKeeps, SendKeeps DEF Validating
<1>5. ASSUME Outside PROVE Keeps
  BY <1>5, UntouchedKeeps, OutsideKeeps DEF Outside
<1>6. ASSUME UNCHANGED vars PROVE Keeps
  BY <1>6, UntouchedKeeps
<1> QED
  BY <1>1, <1>2, <1>3, <1>4, <1>5, <1>6 DEF Next

LEMMA NetHolds == Spec => []NetInv
<1>1. NetInv /\ [Next]_vars => NetInv'
  BY NetStep DEF Keeps
<1> QED
  BY <1>1, NetInit, PTL DEF Spec

\* Between two calls the client is at rest, and idle only over a link: no task gives
\* mqtt_lock back in the middle of a yield, a subscription or a callback, even when
\* another task has disconnected the client without the lock.
THEOREM SettledHolds == Spec => []Settled
<1>1. NetInv => Settled
  BY DEF NetInv, InCall, AtRest, Sane, Linked, is_client_connected, ConnectedStates, Settled
<1> QED
  BY <1>1, NetHolds, PTL

\* A sequence without repetition is as long as its set is large.
LEMMA DistinctCounts ==
  ASSUME NEW w, Sane(w)
  PROVE  Len(w.table) = Cardinality(Listed(w))
<1>1. PICK t : t = w.table
  OBVIOUS
<1>2. t \in Seq(Topics) /\ Len(t) \in Nat /\ DOMAIN t = 1 .. Len(t)
  BY <1>1 DEF Sane, World
<1>3. t \in [1 .. Len(t) -> Listed(w)]
  BY <1>1, <1>2 DEF Listed
<1>4. \A x \in Listed(w) : \E i \in 1 .. Len(t) : t[i] = x
  BY <1>1, <1>2 DEF Listed
<1>5. t \in Surjection(1 .. Len(t), Listed(w))
  BY <1>3, <1>4 DEF Surjection
<1>6. t \in Injection(1 .. Len(t), Listed(w))
  <2>1. \A i, j \in 1 .. Len(t) : t[i] = t[j] => i = j
    BY <1>1, <1>2 DEF Sane, Distinct
  <2>2. DOMAIN t = 1 .. Len(t)
    BY <1>2
  <2>3. IsInjective(t)
    BY <2>1, <2>2, Zenon DEF IsInjective
  <2> QED
    BY <1>3, <2>3 DEF Injection
<1>7. IsFiniteSet(1 .. Len(t)) /\ Cardinality(1 .. Len(t)) = Len(t)
  BY <1>2, FS_Interval
<1> QED
  BY <1>1, <1>5, <1>6, <1>7, FS_Surjection

\* However the client is initialized, lost and reconnected, a topic has one handler.
THEOREM OneHandlerHolds == Spec => []OneHandlerEach
<1>1. NetInv => OneHandlerEach
  BY DistinctCounts DEF NetInv, OneHandlerEach
<1> QED
  BY <1>1, NetHolds, PTL

\* No step takes the connection away behind the hub's back: whoever loses it lowers
\* drv_mqtt_online, but for the order to go on with new keys, which connection_reset
\* follows, and a second initialization.
THEOREM LossIsTold == Spec => LossTold
<1>1. NetInv /\ [Next]_vars =>
        [connected /\ ~connected' => ~drv_mqtt_online' \/ inputAt' = "reset"
                                     \/ connAt = "configure"]_vars
  BY NetStep DEF Keeps, LossStep
<1> QED
  BY <1>1, NetHolds, PTL DEF Spec, LossTold
=============================================================================
