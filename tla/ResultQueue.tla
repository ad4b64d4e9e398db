---------------------------- MODULE ResultQueue ----------------------------
(***************************************************************************)
(* The results the execution task posts to the cloud (src/execution.c): a  *)
(* buffer of MAX_EXECUTION_MSGS slots. execution_q_message writes the next *)
(* slot whatever it holds; execution_deq_message posts the next one, when  *)
(* the channel is free. Both indices restart at slot 1, not 0, so slot 0   *)
(* serves once; message_index_overflow counts how many rounds the writer   *)
(* is ahead of the reader.                                                 *)
(*                                                                         *)
(* Results are numbered in the order they are queued. queued, posted and   *)
(* overruns are history.                                                   *)
(***************************************************************************)
EXTENDS Integers

CONSTANTS MAX_EXECUTION_MSGS,  \* slots of the buffer (56 in the code)
          MaxQueued            \* bound on the results queued in a behaviour

ASSUME ResultAssumption == /\ MAX_EXECUTION_MSGS \in Nat \ {0, 1}
                           /\ MaxQueued \in Nat

VARIABLES execution_message_buffer,  \* number of the result in each slot, 0: none yet
          execution_message_index,   \* next slot written
          execution_message_sent,    \* next slot posted
          message_index_overflow,    \* rounds the writer is ahead (a byte)
          queued,                    \* history: results queued so far
          posted,                    \* history: posts made so far
          lastPosted,                \* history: number of the result posted last
          overruns                   \* history: results overwritten before their post

vars == <<execution_message_buffer, execution_message_index, execution_message_sent,
          message_index_overflow, queued, posted, lastPosted, overruns>>

Slots == 0 .. MAX_EXECUTION_MSGS - 1
Last  == MAX_EXECUTION_MSGS - 1

\* Where an index goes from slot i: past the last slot, 0 is stepped as well.
NextIndex(i) == (IF i >= Last THEN 0 ELSE i) + 1

TypeOK ==
  /\ execution_message_buffer \in [Slots -> Nat]
  /\ execution_message_index \in Slots
  /\ execution_message_sent \in Slots
  /\ message_index_overflow \in 0 .. 255
  /\ queued \in Nat
  /\ posted \in Nat
  /\ lastPosted \in Nat
  /\ overruns \in Nat

-----------------------------------------------------------------------------
Init ==
  /\ execution_message_buffer = [i \in Slots |-> 0]
  /\ execution_message_index = 0
  /\ execution_message_sent = 0
  /\ message_index_overflow = 0
  /\ queued = 0
  /\ posted = 0
  /\ lastPosted = 0
  /\ overruns = 0

\* The slot at the write index still waits for its post.
Unposted == execution_message_buffer[execution_message_index] > lastPosted

execution_q_message_zero ==         \* mutant: the writer restarts at slot 0
  /\ queued < MaxQueued
  /\ execution_message_buffer' =
       [execution_message_buffer EXCEPT ![execution_message_index] = queued + 1]
  /\ message_index_overflow' =
       (message_index_overflow + (IF execution_message_index >= Last THEN 1 ELSE 0)) % 256
  /\ execution_message_index' = (execution_message_index + 1) % MAX_EXECUTION_MSGS
  /\ queued' = queued + 1
  /\ overruns' = overruns + (IF Unposted THEN 1 ELSE 0)
  /\ UNCHANGED <<execution_message_sent, posted, lastPosted>>

execution_q_message_uncounted ==    \* mutant: the round is not counted
  /\ queued < MaxQueued
  /\ execution_message_buffer' =
       [execution_message_buffer EXCEPT ![execution_message_index] = queued + 1]
  /\ execution_message_index' = NextIndex(execution_message_index)
  /\ queued' = queued + 1
  /\ overruns' = overruns + (IF Unposted THEN 1 ELSE 0)
  /\ UNCHANGED <<execution_message_sent, message_index_overflow, posted, lastPosted>>

\* A result is queued. (When the lock times out it is dropped: a stuttering step.)
execution_q_message ==
  /\ queued < MaxQueued
  /\ execution_message_buffer' =
       [execution_message_buffer EXCEPT ![execution_message_index] = queued + 1]
  /\ message_index_overflow' =
       (message_index_overflow + (IF execution_message_index >= Last THEN 1 ELSE 0)) % 256
  /\ execution_message_index' = NextIndex(execution_message_index)
  /\ queued' = queued + 1
  /\ overruns' = overruns + (IF Unposted THEN 1 ELSE 0)
  /\ UNCHANGED <<execution_message_sent, posted, lastPosted>>

\* There is something to post.
Due == execution_message_sent < execution_message_index \/ message_index_overflow > 0

execution_deq_message_ahead ==      \* mutant: the index is stepped first
  /\ Due
  /\ lastPosted' = execution_message_buffer[NextIndex(execution_message_sent)]
  /\ posted' = posted + 1
  /\ message_index_overflow' =
       (message_index_overflow - (IF execution_message_sent >= Last THEN 1 ELSE 0)) % 256
  /\ execution_message_sent' = NextIndex(execution_message_sent)
  /\ UNCHANGED <<execution_message_buffer, execution_message_index, queued, overruns>>

\* The next result is posted. (When the channel still holds a message,
\* execution_post_result fails and the result is tried again later.)
execution_deq_message ==
  /\ Due
  /\ lastPosted' = execution_message_buffer[execution_message_sent]
  /\ posted' = posted + 1
  /\ message_index_overflow' =
       (message_index_overflow - (IF execution_message_sent >= Last THEN 1 ELSE 0)) % 256
  /\ execution_message_sent' = NextIndex(execution_message_sent)
  /\ UNCHANGED <<execution_message_buffer, execution_message_index, queued, overruns>>

Next == execution_q_message \/ execution_deq_message

Spec == Init /\ [][Next]_vars

\* The message task tries every 100 ms in running mode, and the channel is free
\* again once the MQTT task has sent what it holds.
FairSpec == Spec /\ SF_vars(execution_deq_message)

-----------------------------------------------------------------------------
\* While nothing was overwritten the reader sees something due exactly when a
\* result is owed: indices and counter tell an empty buffer from a full one.
DueWhenOwed == overruns = 0 => (Due <=> posted < queued)

\* ... and the results are posted one by one in the order they were queued.
InTurn == [][overruns = 0 /\ posted' # posted => lastPosted' = posted']_vars

\* When nothing is owed any more, what the cloud was told last is the newest
\* result, overrun or not.
LastWord == posted = queued => lastPosted = queued

\* Each queued result leads to a post, even after an overrun.
AllPosted == \A k \in 1 .. MaxQueued : (queued >= k) ~> (posted >= k)

=============================================================================
