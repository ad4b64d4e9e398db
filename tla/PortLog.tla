------------------------------ MODULE PortLog ------------------------------
(***************************************************************************)
(* The log of port changes (src/port_xio.c): the tasks that drive and      *)
(* watch the ports push messages into a ring of XIO_MAX_MSGS slots, the    *)
(* monitoring task reads them for its reports, and an order from the cloud *)
(* switches the logging on and off. Pushing and reading hold xio_msg_lock; *)
(* switching off resets the indices without it.                            *)
(*                                                                         *)
(* Messages are numbered in the order they are written. A push and a read  *)
(* are two steps each, split where the code prints a line and another task *)
(* gets the core; switching off is one step per store. pushed and overrun  *)
(* are history.                                                            *)
(***************************************************************************)
EXTENDS Integers

CONSTANTS XIO_MAX_MSGS,  \* slots of the ring (64 in the code)
          Pushers,       \* tasks that call port_set or port_look_for_status
          Reader,        \* the monitoring task
          Free,          \* nobody holds xio_msg_lock
          MaxPushed,     \* bound on the messages pushed
          MaxOff         \* bound on the orders to switch the logging off

ConstantsOK == /\ XIO_MAX_MSGS \in Nat \ {0, 1}
               /\ Reader \notin Pushers /\ Free \notin Pushers \cup {Reader}
               /\ MaxPushed \in Nat /\ MaxOff \in Nat

VARIABLES port_queued_msgs,    \* number of the message in each slot, 0: none yet
          xio_msg_idx,         \* next slot written
          xio_msg_sent,        \* next slot read
          xio_index_overflow,  \* rounds the writers are ahead (a byte)
          port_logging,        \* logging is on
          xio_msg_lock,        \* who holds the lock
          willPush,            \* pushers that found the logging on
          offAt,               \* set_logging(FALSE): its next store
          got,                 \* number of the message read last
          pushed,              \* history: messages written so far
          overrun,             \* history: a message was overwritten before its turn
          offs                 \* history: orders to switch off so far

indices == <<xio_msg_idx, xio_msg_sent, xio_index_overflow>>
history == <<pushed, overrun, offs>>
vars == <<port_queued_msgs, indices, port_logging, xio_msg_lock, willPush, offAt, got,
          history>>

Slots == 0 .. XIO_MAX_MSGS - 1
Last == XIO_MAX_MSGS - 1

-----------------------------------------------------------------------------
Init ==
  /\ port_queued_msgs = [i \in Slots |-> 0]
  /\ xio_msg_idx = 0 /\ xio_msg_sent = 0 /\ xio_index_overflow = 0
  /\ port_logging = TRUE
  /\ xio_msg_lock = Free
  /\ willPush = {}
  /\ offAt = "none"
  /\ got = 0 /\ pushed = 0 /\ overrun = FALSE
  /\ offs = 0

\* The slot of message n while no index was reset, and whether its turn comes:
\* the reader passes slot 0 in the first round only.
SlotOf(n) == (n - 1) % XIO_MAX_MSGS
HasTurn(n) == n = 1 \/ SlotOf(n) # 0
Awaited(n) == n > got /\ HasTurn(n)

\* get_logging, under the lock: a pusher goes on when the logging is on. (When
\* it is off, or the lock times out, the message is not logged.)
get_logging(p) ==
  /\ xio_msg_lock = Free /\ port_logging
  /\ p \notin willPush
  /\ willPush' = willPush \cup {p}
  /\ UNCHANGED <<port_queued_msgs, indices, port_logging, xio_msg_lock, offAt, got, history>>

\* xio_push_msg takes the lock again and fills the slot, whatever it holds.
xio_push_begin(p) ==
  /\ p \in willPush /\ xio_msg_lock = Free /\ pushed < MaxPushed
  /\ xio_msg_lock' = p
  /\ port_queued_msgs' = [port_queued_msgs EXCEPT ![xio_msg_idx] = pushed + 1]
  /\ pushed' = pushed + 1
  /\ overrun' = (overrun \/ (port_queued_msgs[xio_msg_idx] # 0
                             /\ Awaited(port_queued_msgs[xio_msg_idx])))
  /\ UNCHANGED <<indices, port_logging, willPush, offAt, got, offs>>

\* ... then steps its index and gives the lock.
xio_push_end(p) ==
  /\ xio_msg_lock = p
  /\ xio_msg_lock' = Free
  /\ willPush' = willPush \ {p}
  /\ IF xio_msg_idx >= Last
       THEN /\ xio_msg_idx' = 0
            /\ xio_index_overflow' = (xio_index_overflow + 1) % 256
       ELSE /\ xio_msg_idx' = xio_msg_idx + 1
            /\ UNCHANGED xio_index_overflow
  /\ UNCHANGED <<xio_msg_sent, port_queued_msgs, port_logging, offAt, got, history>>

\* is_any_msg: there is a message to report.
Due == xio_msg_sent < xio_msg_idx \/ xio_index_overflow > 0

\* get_next_xio_msg copies the message at its index.
get_next_begin ==
  /\ xio_msg_lock = Free /\ Due
  /\ xio_msg_lock' = Reader
  /\ got' = port_queued_msgs[xio_msg_sent]
  /\ UNCHANGED <<port_queued_msgs, indices, port_logging, willPush, offAt,
                 pushed, overrun, offs>>

get_next_end_wraps ==              \* mutant: the reader wraps as the writers do
  /\ xio_msg_lock = Reader
  /\ xio_msg_lock' = Free
  /\ IF xio_msg_sent >= Last
       THEN /\ xio_msg_sent' = 0
            /\ xio_index_overflow' = (xio_index_overflow - 1) % 256
       ELSE /\ xio_msg_sent' = xio_msg_sent + 1
            /\ UNCHANGED xio_index_overflow
  /\ UNCHANGED <<xio_msg_idx, port_queued_msgs, port_logging, willPush, offAt, got, history>>

get_next_end_kept ==               \* mutant: the round is not taken off
  /\ xio_msg_lock = Reader
  /\ xio_msg_lock' = Free
  /\ xio_msg_sent' = (IF xio_msg_sent >= Last THEN 0 ELSE xio_msg_sent) + 1
  /\ UNCHANGED <<xio_msg_idx, xio_index_overflow, port_queued_msgs, port_logging,
                 willPush, offAt, got, history>>

\* ... then steps its index, and past the last slot steps 0 as well.
get_next_end ==
  /\ xio_msg_lock = Reader
  /\ xio_msg_lock' = Free
  /\ IF xio_msg_sent >= Last
       THEN /\ xio_msg_sent' = 1
            /\ xio_index_overflow' = (xio_index_overflow - 1) % 256
       ELSE /\ xio_msg_sent' = xio_msg_sent + 1
            /\ UNCHANGED xio_index_overflow
  /\ UNCHANGED <<xio_msg_idx, port_queued_msgs, port_logging, willPush, offAt, got, history>>

-----------------------------------------------------------------------------
\* set_logging(FALSE): three stores without the lock.
set_logging_off ==
  /\ offAt = "none" /\ offs < MaxOff
  /\ offs' = offs + 1
  /\ xio_index_overflow' = 0
  /\ offAt' = "idx"
  /\ UNCHANGED <<xio_msg_idx, xio_msg_sent, port_queued_msgs, port_logging, xio_msg_lock,
                 willPush, got, pushed, overrun>>

reset_idx ==
  /\ offAt = "idx"
  /\ xio_msg_idx' = 0
  /\ offAt' = "sent"
  /\ UNCHANGED <<xio_msg_sent, xio_index_overflow, port_queued_msgs, port_logging,
                 xio_msg_lock, willPush, got, history>>

reset_sent ==
  /\ offAt = "sent"
  /\ xio_msg_sent' = 0
  /\ offAt' = "flag"
  /\ UNCHANGED <<xio_msg_idx, xio_index_overflow, port_queued_msgs, port_logging,
                 xio_msg_lock, willPush, got, history>>

\* ... and the flag under the lock; the lock may time out while another holds it.
\* A pusher that has seen the logging on still pushes.
set_logging_flag ==
  /\ offAt = "flag"
  /\ \/ xio_msg_lock = Free /\ port_logging' = FALSE
     \/ xio_msg_lock # Free /\ UNCHANGED port_logging
  /\ offAt' = "none"
  /\ UNCHANGED <<indices, port_queued_msgs, xio_msg_lock, willPush, got,
                 pushed, overrun, offs>>

set_logging_on ==
  /\ offAt = "none" /\ xio_msg_lock = Free /\ ~port_logging
  /\ port_logging' = TRUE
  /\ UNCHANGED <<indices, port_queued_msgs, xio_msg_lock, willPush, offAt, got, history>>

Next == \/ \E p \in Pushers : get_logging(p) \/ xio_push_begin(p) \/ xio_push_end(p)
        \/ get_next_begin \/ get_next_end
        \/ set_logging_off \/ reset_idx \/ reset_sent \/ set_logging_flag \/ set_logging_on

Spec == Init /\ [][Next]_vars

\* The tasks finish what they begin, and monitoring, which wins the lock again
\* and again, reads on.
Fairness == /\ WF_vars(\E p \in Pushers : xio_push_end(p))
            /\ SF_vars(get_next_begin) /\ WF_vars(get_next_end)

FairSpec == Spec /\ Fairness

-----------------------------------------------------------------------------
\* Reading, so long as no order reset the indices and nothing was overwritten.
Regular == offs = 0 /\ ~overrun

\* The message after n that has a turn: slot 0 is left out of every round.
Upcoming(n) == IF HasTurn(n + 1) THEN n + 1 ELSE n + 2

\* Messages are reported one by one in the order they were written, except that
\* each round after the first loses exactly the one in slot 0.
OneLostPerRound == [][Regular /\ xio_msg_lock' = Reader /\ xio_msg_lock # Reader
                        => got' = Upcoming(got)]_vars

\* Whatever meets whatever, the reader always gets to the end of the log: it
\* does not report for ever what nobody pushed.
Drains == <>[](~Due)

=============================================================================
