----------------------------- MODULE PinInputs -----------------------------
(***************************************************************************)
(* The inputs (src/pin_xio.c, src/port_xio.c and the input half of         *)
(* src/pin_evt.c). The sampling task fills one of two buffers with         *)
(* MAX_INPUT_TIMESTAMP samples of all ports, asks for a refresh and swaps  *)
(* the buffers; the port task answers by marking every port unread; the    *)
(* event task looks in the buffer that is not being filled for the levels  *)
(* the waiting events ask for.                                             *)
(*                                                                         *)
(* A sample is its level and its age, counted in samples; ages are history *)
(* and stop at Old. Tasks of the same priority are time-sliced, so a scan  *)
(* goes sample by sample and may be overtaken by the swap of the buffers.  *)
(***************************************************************************)
EXTENDS Integers, FiniteSets, Sequences

CONSTANTS MAX_INPUT_TIMESTAMP,  \* samples of a buffer (6 in the code)
          Ports,                \* input ports
          Waiters,              \* number of event slots (256 in the code)
          Shared                \* may two events wait on the same port?

ConstantsOK == /\ MAX_INPUT_TIMESTAMP \in Nat \ {0}
               /\ Waiters \in Nat \ {0}
               /\ Shared \in BOOLEAN

VARIABLES level,                  \* the level at each port
          pin_xio_status,         \* the samples: [buffer][index][port]
          ping_pong_idx,          \* the buffer being filled
          input_timestamp_place,  \* next sample of it
          inAt,                   \* sampling task: sampling, asking for a refresh, or swapping
          should_we_refresh_ports,
          portAt,                 \* port task: looking at the flag, marking, or clearing it
          has_been_read,          \* ports whose last buffer was looked through
          last_idx,               \* where the next look at a port begins
          pin_evt_events,         \* what each event waits for, as a set of at most one wait
          evtAt,                  \* event task: <<event looked at, sample looked at>>
          filled,                 \* history: a buffer was filled and swapped
          seen                    \* history: age of the sample found last at each port since
                                  \* the last refresh

samples == <<pin_xio_status, ping_pong_idx, input_timestamp_place, inAt>>
marks == <<has_been_read, last_idx>>
vars == <<level, samples, should_we_refresh_ports, portAt, marks, pin_evt_events, evtAt,
          filled, seen>>

K == MAX_INPUT_TIMESTAMP
Indices == 0 .. K - 1
Old == 2 * K                          \* older than any sample of a full buffer
Aged(age) == IF age < Old THEN age + 1 ELSE Old

\* Where the sampling task goes from sample i of a buffer.
NextPlace(i) == IF i < K - 1 THEN i + 1 ELSE 0

NotLooking == -1                      \* no scan under way

Waits == [port : Ports, level : BOOLEAN]

-----------------------------------------------------------------------------
\* Everything is zeroed but the request for a first refresh.
Init ==
  /\ level \in [Ports -> BOOLEAN]
  /\ pin_xio_status = [b \in {0, 1} |-> [i \in Indices |->
                         [p \in Ports |-> [level |-> FALSE, age |-> Old]]]]
  /\ ping_pong_idx = 0 /\ input_timestamp_place = 0 /\ inAt = "sample"
  /\ should_we_refresh_ports = TRUE
  /\ portAt = "look"
  /\ has_been_read = Ports
  /\ last_idx = [p \in Ports |-> 0]
  /\ pin_evt_events = [w \in 1 .. Waiters |-> {}]
  /\ evtAt = <<1, NotLooking>>
  /\ filled = FALSE
  /\ seen = [p \in Ports |-> Old]

\* The environment: a port changes its level.
Flip(p) ==
  /\ level' = [level EXCEPT ![p] = ~@]
  /\ UNCHANGED <<samples, should_we_refresh_ports, portAt, marks, pin_evt_events, evtAt,
                 filled, seen>>

\* A sequence waits for a level: pin_evt_push with direction IDIR into a free slot.
pin_evt_push(w, wait) ==
  /\ pin_evt_events[w] = {}
  /\ Shared \/ \A v \in 1 .. Waiters : \A x \in pin_evt_events[v] : x.port # wait.port
  /\ pin_evt_events' = [pin_evt_events EXCEPT ![w] = {wait}]
  /\ UNCHANGED <<level, samples, should_we_refresh_ports, portAt, marks, evtAt, filled, seen>>

\* pin_in_update samples all ports into the buffer being filled; the read side is
\* told when this was the last sample of it.
pin_in_update ==
  /\ inAt = "sample"
  /\ pin_xio_status' = [b \in {0, 1} |-> [i \in Indices |-> [p \in Ports |->
       IF b = ping_pong_idx /\ i = input_timestamp_place
         THEN [level |-> level[p], age |-> 0]
         ELSE [pin_xio_status[b][i][p] EXCEPT !.age = Aged(@)]]]]
  /\ seen' = [p \in Ports |-> Aged(seen[p])]
  /\ input_timestamp_place' = NextPlace(input_timestamp_place)
  /\ inAt' = IF input_timestamp_place = K - 1 THEN "refresh" ELSE "sample"
  /\ UNCHANGED <<level, ping_pong_idx, should_we_refresh_ports, portAt, marks,
                 pin_evt_events, evtAt, filled>>

\* ... first by port_set_refresh,
port_set_refresh ==
  /\ inAt = "refresh"
  /\ should_we_refresh_ports' = TRUE
  /\ inAt' = "swap"
  /\ UNCHANGED <<level, pin_xio_status, ping_pong_idx, input_timestamp_place, portAt,
                 marks, pin_evt_events, evtAt, filled, seen>>

toggle_none ==                        \* mutant: the buffers are not swapped
  /\ inAt = "swap"
  /\ inAt' = "sample"
  /\ filled' = TRUE
  /\ UNCHANGED <<level, pin_xio_status, ping_pong_idx, input_timestamp_place,
                 should_we_refresh_ports, portAt, marks, pin_evt_events, evtAt, seen>>

\* ... then by the swap.
toggle_ping_pong ==
  /\ inAt = "swap"
  /\ ping_pong_idx' = 1 - ping_pong_idx
  /\ inAt' = "sample"
  /\ filled' = TRUE
  /\ UNCHANGED <<level, pin_xio_status, input_timestamp_place, should_we_refresh_ports,
                 portAt, marks, pin_evt_events, evtAt, seen>>

-----------------------------------------------------------------------------
\* The event task holds buffer_read_lock while it scans a port.
Scanning == evtAt[2] # NotLooking

port_get_refresh ==
  /\ portAt = "look" /\ should_we_refresh_ports
  /\ portAt' = "mark"
  /\ UNCHANGED <<level, samples, should_we_refresh_ports, marks, pin_evt_events, evtAt,
                 filled, seen>>

port_refresh_indices ==               \* mutant: only the indices are reset
  /\ portAt = "mark" /\ ~Scanning
  /\ last_idx' = [p \in Ports |-> 0]
  /\ portAt' = "clear"
  /\ seen' = [p \in Ports |-> Old]
  /\ UNCHANGED <<level, samples, should_we_refresh_ports, has_been_read, pin_evt_events,
                 evtAt, filled>>

\* port_refresh marks every port unread, under buffer_read_lock.
port_refresh ==
  /\ portAt = "mark" /\ ~Scanning
  /\ has_been_read' = {}
  /\ last_idx' = [p \in Ports |-> 0]
  /\ portAt' = "clear"
  /\ seen' = [p \in Ports |-> Old]
  /\ UNCHANGED <<level, samples, should_we_refresh_ports, pin_evt_events, evtAt, filled>>

\* When the lock times out nothing is marked, and the request is cleared all the same.
port_refresh_untaken ==
  /\ portAt = "mark" /\ Scanning
  /\ portAt' = "clear"
  /\ UNCHANGED <<level, samples, should_we_refresh_ports, marks, pin_evt_events, evtAt,
                 filled, seen>>

port_unset_refresh ==
  /\ portAt = "clear"
  /\ should_we_refresh_ports' = FALSE
  /\ portAt' = "look"
  /\ UNCHANGED <<level, samples, marks, pin_evt_events, evtAt, filled, seen>>

-----------------------------------------------------------------------------
NextEvent == <<1 + (evtAt[1] % Waiters), NotLooking>>

\* pin_evt_update passes an event that waits for nothing, or whose port was read.
pin_evt_pass ==
  /\ ~Scanning
  /\ \A x \in pin_evt_events[evtAt[1]] : x.port \in has_been_read
  /\ evtAt' = NextEvent
  /\ UNCHANGED <<level, samples, should_we_refresh_ports, portAt, marks, pin_evt_events,
                 filled, seen>>

\* port_look_for_status takes buffer_read_lock and starts from last_idx.
port_look_begin ==
  /\ ~Scanning
  /\ \E x \in pin_evt_events[evtAt[1]] :
       /\ x.port \notin has_been_read
       /\ evtAt' = <<evtAt[1], last_idx[x.port]>>
  /\ UNCHANGED <<level, samples, should_we_refresh_ports, portAt, marks, pin_evt_events,
                 filled, seen>>

\* pin_xio_get reads the buffer that is not being filled.
ReadBuffer == 1 - ping_pong_idx
Sample(p) == pin_xio_status[ReadBuffer][evtAt[2]][p]

port_look_found_zero ==               \* mutant: the next look starts over
  /\ Scanning
  /\ \E x \in pin_evt_events[evtAt[1]] :
       /\ Sample(x.port).level = x.level
       /\ last_idx' = [last_idx EXCEPT ![x.port] = 0]
       /\ seen' = [seen EXCEPT ![x.port] = Sample(x.port).age]
  /\ pin_evt_events' = [pin_evt_events EXCEPT ![evtAt[1]] = {}]
  /\ evtAt' = NextEvent
  /\ UNCHANGED <<level, samples, should_we_refresh_ports, portAt, has_been_read, filled>>

\* The level is there: the port stays unread, and the next look starts at this sample.
port_look_found ==
  /\ Scanning
  /\ \E x \in pin_evt_events[evtAt[1]] :
       /\ Sample(x.port).level = x.level
       /\ last_idx' = [last_idx EXCEPT ![x.port] = evtAt[2]]
       /\ seen' = [seen EXCEPT ![x.port] = Sample(x.port).age]
  /\ pin_evt_events' = [pin_evt_events EXCEPT ![evtAt[1]] = {}]
  /\ evtAt' = NextEvent
  /\ UNCHANGED <<level, samples, should_we_refresh_ports, portAt, has_been_read, filled>>

\* It is not: the next sample, and after the last one the port is marked read.
port_look_on ==
  /\ Scanning
  /\ \E x \in pin_evt_events[evtAt[1]] :
       /\ Sample(x.port).level # x.level
       /\ has_been_read' = IF evtAt[2] = K - 1 THEN has_been_read \cup {x.port}
                                               ELSE has_been_read
  /\ evtAt' = IF evtAt[2] = K - 1 THEN NextEvent ELSE <<evtAt[1], evtAt[2] + 1>>
  /\ UNCHANGED <<level, samples, should_we_refresh_ports, portAt, last_idx, pin_evt_events,
                 filled, seen>>

pin_in == pin_in_update \/ port_set_refresh \/ toggle_ping_pong

pin_evt == pin_evt_pass \/ port_look_begin \/ port_look_found \/ port_look_on

Next == \/ \E p \in Ports : Flip(p)
        \/ \E w \in 1 .. Waiters, wait \in Waits : pin_evt_push(w, wait)
        \/ pin_in \/ pin_evt
        \/ port_get_refresh \/ port_refresh \/ port_refresh_untaken \/ port_unset_refresh

Spec == Init /\ [][Next]_vars

\* All three tasks are periodic; the port task has the lowest priority of them and
\* polls, so it meets the flag up and the lock free again and again.
Fairness == /\ WF_vars(pin_in) /\ WF_vars(pin_evt)
            /\ SF_vars(port_get_refresh) /\ SF_vars(port_refresh)
            /\ WF_vars(port_refresh_untaken) /\ WF_vars(port_unset_refresh)

FairSpec == Spec /\ Fairness

-----------------------------------------------------------------------------
\* A level is found in a sample at most two buffers old, even when the buffers are
\* swapped during the scan.
Fresh == [][\A w \in 1 .. Waiters : \A x \in pin_evt_events[w] :
              pin_evt_events'[w] = {} /\ filled => seen'[x.port] < Old]_vars

\* Between two refreshes the levels found at one port follow each other in time: a
\* sequence that waits for high and then low does not take a low before the high.
Forward == [][\A w \in 1 .. Waiters : \A x \in pin_evt_events[w] :
                pin_evt_events'[w] = {} => seen'[x.port] <= seen[x.port]]_vars

\* A level that stays is found by whoever waits for it.
Detected == \A w \in 1 .. Waiters, x \in Waits :
              ~ <>[](x \in pin_evt_events[w] /\ level[x.port] = x.level)

=============================================================================
