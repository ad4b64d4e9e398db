----------------------------- MODULE EventQueue -----------------------------
(***************************************************************************)
(* The event queue of the master state machine (src/lavigoMasterFSM.c): a  *)
(* ring of MAXFSMEVTS slots that every task of the hub writes through      *)
(* fsm_q_evt and that the FSM task alone reads, one event per 500 ms tick. *)
(* A slot carries a pending flag; the writer never looks at it, so a write *)
(* into a full ring lands on the oldest event that was not read yet.       *)
(*                                                                         *)
(* Two variables are history only: ticket[i] numbers the event in slot i   *)
(* in the order the events were queued, and overwrites counts the events   *)
(* lost to a write into a pending slot.                                    *)
(***************************************************************************)
EXTENDS Integers, FiniteSets, Sequences

CONSTANTS MAXFSMEVTS,   \* slots of the ring (10 in include/lavigoMasterFSM.h)
          Events,       \* the events the tasks may queue
          flashOk,      \* the event 0, queued at start-up
          MaxSent       \* bound on the number of events queued in a behaviour

ASSUME QueueAssumption == /\ MAXFSMEVTS \in Nat \ {0}
                          /\ MaxSent \in Nat \ {0}
                          /\ flashOk \in Events

VARIABLES masterEventQ,      \* the slots: [nextEvent, pending]
          FSMEvtIdx,         \* next slot written
          currentFSMEvtIdx,  \* next slot read
          nextEvent,         \* the event last handed to the state machine
          fsmAt,             \* FSM task: before fsm_check_evt, or before fsm_get_evt
          ticket,            \* history: number of the event in each slot
          sent,              \* history: events queued so far
          handed,            \* history: number of the last event dequeued
          overwrites         \* history: pending events overwritten so far

vars == <<masterEventQ, FSMEvtIdx, currentFSMEvtIdx, nextEvent, fsmAt,
          ticket, sent, handed, overwrites>>

Slots == 0 .. MAXFSMEVTS - 1

\* The slot after i: both indices are stepped and wrapped the same way.
Following(i) == IF i + 1 = MAXFSMEVTS THEN 0 ELSE i + 1

TypeOK ==
  /\ masterEventQ \in [Slots -> [nextEvent : Events, pending : BOOLEAN]]
  /\ FSMEvtIdx \in Slots
  /\ currentFSMEvtIdx \in Slots
  /\ nextEvent \in Events
  /\ fsmAt \in {"check", "get"}
  /\ ticket \in [Slots -> Nat]
  /\ sent \in Nat
  /\ handed \in Nat
  /\ overwrites \in Nat

-----------------------------------------------------------------------------
\* master_fsm_init has queued flashOk in the zeroed ring.
Init ==
  /\ masterEventQ = [i \in Slots |-> [nextEvent |-> flashOk, pending |-> i = 0]]
  /\ FSMEvtIdx = Following(0)
  /\ currentFSMEvtIdx = 0
  /\ nextEvent = flashOk
  /\ fsmAt = "check"
  /\ ticket = [i \in Slots |-> IF i = 0 THEN 1 ELSE 0]
  /\ sent = 1
  /\ handed = 0
  /\ overwrites = 0

\* A task queues e, whatever the slot it lands on holds. (When the lock times
\* out the event is dropped before it reaches the ring: a stuttering step.)
fsm_q_evt(e) ==
  /\ sent < MaxSent
  /\ masterEventQ' = [masterEventQ EXCEPT ![FSMEvtIdx] =
                        [nextEvent |-> e, pending |-> TRUE]]
  /\ FSMEvtIdx' = Following(FSMEvtIdx)
  /\ ticket' = [ticket EXCEPT ![FSMEvtIdx] = sent + 1]
  /\ sent' = sent + 1
  /\ overwrites' = overwrites + (IF masterEventQ[FSMEvtIdx].pending THEN 1 ELSE 0)
  /\ UNCHANGED <<currentFSMEvtIdx, nextEvent, fsmAt, handed>>

fsm_check_evt_unguarded ==                        \* mutant: the flag is not tested
  /\ fsmAt = "check"
  /\ fsmAt' = "get"
  /\ UNCHANGED <<masterEventQ, FSMEvtIdx, currentFSMEvtIdx, nextEvent,
                 ticket, sent, handed, overwrites>>

\* The FSM task finds the slot at its read index pending.
fsm_check_evt ==
  /\ fsmAt = "check"
  /\ masterEventQ[currentFSMEvtIdx].pending
  /\ fsmAt' = "get"
  /\ UNCHANGED <<masterEventQ, FSMEvtIdx, currentFSMEvtIdx, nextEvent,
                 ticket, sent, handed, overwrites>>

\* ... and takes it, the lock having been given back in between.
fsm_get_evt ==
  /\ fsmAt = "get"
  /\ nextEvent' = masterEventQ[currentFSMEvtIdx].nextEvent
  /\ masterEventQ' = [masterEventQ EXCEPT ![currentFSMEvtIdx].pending = FALSE]
  /\ currentFSMEvtIdx' = Following(currentFSMEvtIdx)
  /\ handed' = ticket[currentFSMEvtIdx]
  /\ fsmAt' = "check"
  /\ UNCHANGED <<FSMEvtIdx, ticket, sent, overwrites>>

fsm_get_evt_untaken_steps ==     \* mutant: the read index steps without the lock
  /\ fsmAt = "get"
  /\ nextEvent' = flashOk
  /\ currentFSMEvtIdx' = Following(currentFSMEvtIdx)
  /\ fsmAt' = "check"
  /\ UNCHANGED <<masterEventQ, FSMEvtIdx, ticket, sent, handed, overwrites>>

fsm_get_evt_untaken_repeats ==   \* mutant: the slot is read although not dequeued
  /\ fsmAt = "get"
  /\ nextEvent' = masterEventQ[currentFSMEvtIdx].nextEvent
  /\ fsmAt' = "check"
  /\ UNCHANGED <<masterEventQ, FSMEvtIdx, currentFSMEvtIdx,
                 ticket, sent, handed, overwrites>>

fsm_get_evt_untaken_clears ==          \* mutant: the pending flag is cleared anyway
  /\ fsmAt = "get"
  /\ nextEvent' = flashOk
  /\ masterEventQ' = [masterEventQ EXCEPT ![currentFSMEvtIdx].pending = FALSE]
  /\ fsmAt' = "check"
  /\ UNCHANGED <<FSMEvtIdx, currentFSMEvtIdx, ticket, sent, handed, overwrites>>

\* The lock timed out in fsm_get_evt: it returns 0, which is flashOk, and the
\* state machine runs on an event nobody queued; the pending one stays.
fsm_get_evt_untaken ==
  /\ fsmAt = "get"
  /\ nextEvent' = flashOk
  /\ fsmAt' = "check"
  /\ UNCHANGED <<masterEventQ, FSMEvtIdx, currentFSMEvtIdx,
                 ticket, sent, handed, overwrites>>

Next ==
  \/ \E e \in Events : fsm_q_evt(e)
  \/ fsm_check_evt
  \/ fsm_get_evt
  \/ fsm_get_evt_untaken

Spec == Init /\ [][Next]_vars

\* The FSM task never blocks for good, and the lock is held for a few
\* instructions only, so that fsm_get_evt takes it sooner or later.
FairSpec == Spec /\ WF_vars(fsm_check_evt) /\ SF_vars(fsm_get_evt)

-----------------------------------------------------------------------------
Pending == {i \in Slots : masterEventQ[i].pending}

\* How far slot i lies behind the read index.
Distance(i) == IF currentFSMEvtIdx <= i THEN i - currentFSMEvtIdx
                                        ELSE i + MAXFSMEVTS - currentFSMEvtIdx

\* The FSM task is deaf when events are pending and fsm_check_evt does not see
\* them, because the read index rests on a slot that is not pending.
Deaf == Pending # {} /\ ~masterEventQ[currentFSMEvtIdx].pending

\* Unless an event was overwritten, a pending event is always in sight of
\* fsm_check_evt: the two indices, stepped by different tasks, stay in phase.
HearsUnlessOverwritten == overwrites = 0 => ~Deaf

\* While nothing is overwritten the events reach the state machine one by one
\* in the order they were queued: none is skipped, none comes twice.
InOrder ==
  [][overwrites = 0 /\ handed' # handed => handed' = handed + 1]_vars

\* A queued event reaches the state machine, unless some event was overwritten
\* (an out-of-phase reader waits for the writers to come round the ring).
Delivered ==
  \A k \in 1 .. MaxSent : (sent >= k) ~> (handed >= k \/ overwrites > 0)

-----------------------------------------------------------------------------
\* The events from the read index on, oldest first, as the mailbox they stand
\* for; a ring that lost an event stands for a broken mailbox.
NthSlot(k) == (currentFSMEvtIdx + k - 1) % MAXFSMEVTS

Box == IF overwrites = 0
         THEN [k \in 1 .. Cardinality(Pending) |-> masterEventQ[NthSlot(k)].nextEvent]
         ELSE <<>>

Mail == INSTANCE Mailbox WITH Capacity <- MAXFSMEVTS, Quiet <- flashOk,
                              box <- Box, out <- nextEvent,
                              broken <- overwrites > 0

\* The ring is a bounded first-in first-out mailbox.
ImplementsMailbox == Mail!Spec

=============================================================================
