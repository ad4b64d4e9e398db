-------------------------- MODULE EventQueueProofs --------------------------
(***************************************************************************)
(* For a ring of any size and any set of events: the types hold, and while *)
(* no pending event has been overwritten the reader is never deaf and the  *)
(* events come out in the order they were queued.                          *)
(*                                                                         *)
(* The inductive invariant says which slots are pending: as long as no     *)
(* event was overwritten they are the sent - handed slots that follow the  *)
(* read index, numbered in order, and the write index is the slot after    *)
(* them. With the number of pending slots it also shows that the ring is   *)
(* the first-in first-out mailbox of module Mailbox.                       *)
(***************************************************************************)
EXTENDS EventQueue, FiniteSetTheorems, SequenceTheorems, TLAPS

Waiting == sent - handed

InPhase ==
  /\ handed <= sent
  /\ Waiting <= MAXFSMEVTS
  /\ FSMEvtIdx = IF currentFSMEvtIdx + Waiting < MAXFSMEVTS
                   THEN currentFSMEvtIdx + Waiting
                   ELSE currentFSMEvtIdx + Waiting - MAXFSMEVTS
  /\ \A i \in Slots : masterEventQ[i].pending <=> Distance(i) < Waiting
  /\ \A i \in Slots : masterEventQ[i].pending => ticket[i] = handed + 1 + Distance(i)
  /\ fsmAt = "get" => Waiting > 0

IInv == TypeOK /\ (overwrites = 0 => InPhase)

LEMMA FollowingInSlots == \A i \in Slots : Following(i) \in Slots
  BY QueueAssumption DEF Following, Slots

LEMMA DistanceInSlots ==
  ASSUME TypeOK, NEW i \in Slots
  PROVE  /\ Distance(i) \in Slots
         /\ Distance(i) = 0 <=> i = currentFSMEvtIdx
  BY QueueAssumption DEF TypeOK, Distance, Slots

LEMMA WriteIndexDistance ==
  ASSUME TypeOK, InPhase, Waiting < MAXFSMEVTS
  PROVE  /\ Waiting \in Slots
         /\ Distance(FSMEvtIdx) = Waiting
         /\ \A i \in Slots : Distance(i) = Waiting => i = FSMEvtIdx
<1>1. Waiting \in Slots
  BY QueueAssumption DEF TypeOK, InPhase, Waiting, Slots
<1>2. /\ currentFSMEvtIdx \in Slots
      /\ FSMEvtIdx = IF currentFSMEvtIdx + Waiting < MAXFSMEVTS
                       THEN currentFSMEvtIdx + Waiting
                       ELSE currentFSMEvtIdx + Waiting - MAXFSMEVTS
  BY DEF TypeOK, InPhase
<1> HIDE DEF Waiting
<1> QED
  BY <1>1, <1>2, QueueAssumption DEF Distance, Slots

\* One step of the read index brings every other slot one nearer and sends the
\* slot just read to the far end.
LEMMA StepDistance ==
  ASSUME TypeOK, currentFSMEvtIdx' = Following(currentFSMEvtIdx), NEW i \in Slots
  PROVE  Distance(i)' = IF i = currentFSMEvtIdx THEN MAXFSMEVTS - 1
                                                ELSE Distance(i) - 1
<1>1. MAXFSMEVTS \in Nat \ {0} /\ currentFSMEvtIdx \in 0 .. MAXFSMEVTS - 1
      /\ i \in 0 .. MAXFSMEVTS - 1
  BY QueueAssumption DEF TypeOK, Slots
<1>2. Distance(i)' = IF currentFSMEvtIdx' <= i
                       THEN i - currentFSMEvtIdx'
                       ELSE i + MAXFSMEVTS - currentFSMEvtIdx'
  BY DEF Distance
<1> QED
  BY <1>1, <1>2 DEF Distance, Following

LEMMA InitTypes == Init => TypeOK
<1> SUFFICES ASSUME Init PROVE TypeOK
  OBVIOUS
<1>1. 0 \in Slots /\ Following(0) \in Slots
  BY QueueAssumption, FollowingInSlots DEF Slots
<1>2. \A i \in Slots : (i = 0) \in BOOLEAN
  OBVIOUS
<1>3. masterEventQ \in [Slots -> [nextEvent : Events, pending : BOOLEAN]]
  BY <1>2, QueueAssumption DEF Init
<1>4. ticket \in [Slots -> Nat]
  BY DEF Init
<1> QED
  BY <1>1, <1>3, <1>4, QueueAssumption DEF Init, TypeOK

LEMMA NextTypes == TypeOK /\ [Next]_vars => TypeOK'
<1> SUFFICES ASSUME TypeOK, [Next]_vars PROVE TypeOK'
  OBVIOUS
<1> USE QueueAssumption, FollowingInSlots DEF TypeOK
<1>1. ASSUME NEW e \in Events, fsm_q_evt(e) PROVE TypeOK'
  <2>1. [nextEvent |-> e, pending |-> TRUE] \in [nextEvent : Events, pending : BOOLEAN]
    OBVIOUS
  <2>2. masterEventQ' \in [Slots -> [nextEvent : Events, pending : BOOLEAN]]
    BY <1>1, <2>1 DEF fsm_q_evt
  <2>3. FSMEvtIdx' \in Slots /\ ticket' \in [Slots -> Nat] /\ sent' \in Nat
    BY <1>1 DEF fsm_q_evt
  <2>4. overwrites' \in Nat
    BY <1>1 DEF fsm_q_evt
  <2> QED
    BY <1>1, <2>2, <2>3, <2>4 DEF fsm_q_evt
<1>2. CASE fsm_check_evt
  BY <1>2 DEF fsm_check_evt
<1>3. CASE fsm_get_evt
  BY <1>3 DEF fsm_get_evt
<1>4. CASE fsm_get_evt_untaken
  BY <1>4 DEF fsm_get_evt_untaken
<1>5. CASE UNCHANGED vars
  BY <1>5 DEF vars
<1> QED
  BY <1>1, <1>2, <1>3, <1>4, <1>5 DEF Next

\* The ring keeps its types: both indices stay inside the array, which nothing
\* but their wrap-around guarantees.
THEOREM TypeCorrect == Spec => []TypeOK
  BY InitTypes, NextTypes, PTL DEF Spec

-----------------------------------------------------------------------------
LEMMA InitPhase == Init => IInv
<1> SUFFICES ASSUME Init PROVE IInv
  OBVIOUS
<1>1. TypeOK /\ Waiting = 1 /\ MAXFSMEVTS \in Nat \ {0}
  BY InitTypes, QueueAssumption DEF Init, Waiting
<1>2. \A i \in Slots : Distance(i) = i /\ i \in Nat
  BY QueueAssumption DEF Init, Distance, Slots
<1>3. \A i \in Slots : masterEventQ[i].pending <=> i = 0
  BY DEF Init
<1>4. \A i \in Slots : i = 0 => ticket[i] = 1
  BY DEF Init
<1>5. FSMEvtIdx = IF 1 < MAXFSMEVTS THEN 1 ELSE 1 - MAXFSMEVTS
  BY <1>1 DEF Init, Following
<1>6. handed = 0 /\ sent = 1 /\ currentFSMEvtIdx = 0 /\ fsmAt = "check"
  BY DEF Init
<1> HIDE DEF Waiting
<1> QED
  BY <1>1, <1>2, <1>3, <1>4, <1>5, <1>6 DEF IInv, InPhase

\* Queueing into a free slot: the slot written is the one after the pending ones.
LEMMA QueuePhase ==
  ASSUME IInv, NEW e \in Events, fsm_q_evt(e) PROVE overwrites' = 0 => InPhase'
<1> SUFFICES ASSUME overwrites' = 0 PROVE InPhase'
  OBVIOUS
<1>0. TypeOK /\ MAXFSMEVTS \in Nat \ {0}
  BY QueueAssumption DEF IInv
<1>1. ~masterEventQ[FSMEvtIdx].pending /\ overwrites = 0 /\ InPhase
  BY <1>0 DEF fsm_q_evt, IInv, TypeOK
<1>2. Waiting \in Nat /\ handed \in Nat /\ sent \in Nat /\ handed + Waiting = sent
  BY <1>0, <1>1 DEF InPhase, Waiting, TypeOK
<1>3. FSMEvtIdx \in Slots /\ currentFSMEvtIdx \in Slots
  BY <1>0 DEF TypeOK
<1>4. Waiting < MAXFSMEVTS
  <2>1. Waiting = MAXFSMEVTS => Distance(FSMEvtIdx) < Waiting
    BY <1>0, <1>3, DistanceInSlots DEF Slots
  <2> QED
    BY <2>1, <1>0, <1>1, <1>2, <1>3 DEF InPhase
<1>5. /\ Distance(FSMEvtIdx) = Waiting
      /\ \A i \in Slots : Distance(i) = Waiting => i = FSMEvtIdx
  BY <1>0, <1>1, <1>4, WriteIndexDistance
<1>6. /\ Waiting' = Waiting + 1 /\ handed' = handed /\ sent' = sent + 1
      /\ currentFSMEvtIdx' = currentFSMEvtIdx /\ FSMEvtIdx' = Following(FSMEvtIdx)
      /\ \A i \in Slots : Distance(i)' = Distance(i)
  BY <1>2 DEF fsm_q_evt, Waiting, Distance
<1>7. /\ masterEventQ'[FSMEvtIdx].pending
      /\ ticket'[FSMEvtIdx] = sent + 1
      /\ \A i \in Slots \ {FSMEvtIdx} :
            masterEventQ'[i] = masterEventQ[i] /\ ticket'[i] = ticket[i]
  BY <1>0, <1>3 DEF fsm_q_evt, TypeOK
<1> HIDE DEF Waiting
<1>8. \A i \in Slots : /\ masterEventQ'[i].pending <=> Distance(i) < Waiting + 1
                       /\ masterEventQ'[i].pending => ticket'[i] = handed + 1 + Distance(i)
  <2> TAKE i \in Slots
  <2>1. Distance(i) \in Nat
    BY <1>0, DistanceInSlots DEF Slots
  <2>2. CASE i = FSMEvtIdx
    BY <2>2, <1>2, <1>5, <1>7
  <2>3. CASE i # FSMEvtIdx
    <3>1. Distance(i) # Waiting
      BY <2>3, <1>5
    <3>2. Distance(i) < Waiting + 1 <=> Distance(i) < Waiting
      BY <3>1, <2>1, <1>2
    <3> QED
      BY <2>3, <3>2, <1>1, <1>7 DEF InPhase
  <2> QED
    BY <2>2, <2>3
<1>9. Following(FSMEvtIdx) = IF currentFSMEvtIdx + (Waiting + 1) < MAXFSMEVTS
                               THEN currentFSMEvtIdx + (Waiting + 1)
                               ELSE currentFSMEvtIdx + (Waiting + 1) - MAXFSMEVTS
  BY <1>0, <1>1, <1>2, <1>3, <1>4 DEF InPhase, Following, Slots
<1>10. handed' <= sent' /\ Waiting' <= MAXFSMEVTS /\ Waiting' > 0
  BY <1>0, <1>2, <1>4, <1>6
<1> QED
  BY <1>6, <1>8, <1>9, <1>10 DEF InPhase

\* Dequeueing: the slot read is the oldest pending one, every other comes one
\* slot nearer.
LEMMA GetPhase ==
  ASSUME IInv, fsm_get_evt, overwrites = 0 PROVE InPhase' /\ handed' = handed + 1
<1>0. TypeOK /\ InPhase /\ MAXFSMEVTS \in Nat \ {0} /\ currentFSMEvtIdx \in Slots
  BY QueueAssumption DEF IInv, TypeOK
<1>1. Waiting \in Nat \ {0} /\ handed \in Nat /\ sent \in Nat /\ handed + Waiting = sent
  BY <1>0 DEF InPhase, fsm_get_evt, Waiting, TypeOK
<1>2. Distance(currentFSMEvtIdx) = 0 /\ masterEventQ[currentFSMEvtIdx].pending
  BY <1>0, <1>1, DistanceInSlots DEF InPhase
<1>3. handed' = handed + 1
  BY <1>0, <1>1, <1>2 DEF fsm_get_evt, InPhase
<1>4. sent' = sent /\ Waiting' = Waiting - 1
  BY <1>1, <1>3 DEF fsm_get_evt, Waiting
<1>5. /\ FSMEvtIdx' = FSMEvtIdx /\ ticket' = ticket /\ fsmAt' = "check"
      /\ currentFSMEvtIdx' = Following(currentFSMEvtIdx)
      /\ ~masterEventQ'[currentFSMEvtIdx].pending
      /\ \A i \in Slots \ {currentFSMEvtIdx} : masterEventQ'[i] = masterEventQ[i]
  <2>1. masterEventQ' = [masterEventQ EXCEPT ![currentFSMEvtIdx] =
                           [masterEventQ[currentFSMEvtIdx] EXCEPT !.pending = FALSE]]
    BY <1>0 DEF fsm_get_evt
  <2>2. masterEventQ[currentFSMEvtIdx] \in [nextEvent : Events, pending : BOOLEAN]
    BY <1>0 DEF TypeOK
  <2>3. ~[masterEventQ[currentFSMEvtIdx] EXCEPT !.pending = FALSE].pending
    BY <2>2
  <2> QED
    BY <2>1, <2>3, <1>0 DEF fsm_get_evt, TypeOK
<1>6. \A i \in Slots : Distance(i)' = IF i = currentFSMEvtIdx THEN MAXFSMEVTS - 1
                                                              ELSE Distance(i) - 1
  BY <1>0, <1>5, StepDistance
<1> HIDE DEF Waiting
<1>7. \A i \in Slots : /\ masterEventQ'[i].pending <=> Distance(i)' < Waiting - 1
                       /\ masterEventQ'[i].pending => ticket[i] = (handed + 1) + 1 + Distance(i)'
  <2> TAKE i \in Slots
  <2>1. Distance(i) \in Nat /\ Waiting <= MAXFSMEVTS
    BY <1>0, DistanceInSlots DEF Slots, InPhase
  <2>2. CASE i = currentFSMEvtIdx
    BY <2>1, <2>2, <1>0, <1>1, <1>5, <1>6
  <2>3. CASE i # currentFSMEvtIdx
    <3>1. Distance(i)' = Distance(i) - 1 /\ masterEventQ'[i] = masterEventQ[i]
      BY <2>3, <1>5, <1>6
    <3>2. Distance(i) < Waiting <=> Distance(i) - 1 < Waiting - 1
      BY <2>1, <1>1
    <3>3. handed + 1 + Distance(i) = (handed + 1) + 1 + (Distance(i) - 1)
      BY <2>1, <1>1
    <3> QED
      BY <3>1, <3>2, <3>3, <1>0 DEF InPhase
  <2> QED
    BY <2>2, <2>3
<1>8. FSMEvtIdx = IF Following(currentFSMEvtIdx) + (Waiting - 1) < MAXFSMEVTS
                    THEN Following(currentFSMEvtIdx) + (Waiting - 1)
                    ELSE Following(currentFSMEvtIdx) + (Waiting - 1) - MAXFSMEVTS
  BY <1>0, <1>1 DEF InPhase, Following, Slots
<1>9. handed + 1 <= sent /\ Waiting - 1 <= MAXFSMEVTS
  BY <1>0, <1>1 DEF InPhase
<1> QED
  BY <1>3, <1>4, <1>5, <1>7, <1>8, <1>9 DEF InPhase

\* Steps that leave the slots and the indices alone.
LEMMA CheckPhase ==
  ASSUME IInv, fsm_check_evt \/ fsm_get_evt_untaken \/ UNCHANGED vars, overwrites = 0
  PROVE  InPhase'
<1>1. /\ masterEventQ' = masterEventQ /\ FSMEvtIdx' = FSMEvtIdx
      /\ currentFSMEvtIdx' = currentFSMEvtIdx /\ ticket' = ticket
      /\ sent' = sent /\ handed' = handed
  BY DEF fsm_check_evt, fsm_get_evt_untaken, vars
<1>2. TypeOK /\ InPhase
  BY DEF IInv
<1>3. fsmAt' = "get" => Waiting > 0
  <2>1. CASE fsm_check_evt
    <3>1. Distance(currentFSMEvtIdx) = 0 /\ currentFSMEvtIdx \in Slots
      BY <1>2, DistanceInSlots DEF TypeOK
    <3>2. masterEventQ[currentFSMEvtIdx].pending
      BY <2>1 DEF fsm_check_evt
    <3>3. 0 < Waiting
      BY <3>1, <3>2, <1>2 DEF InPhase
    <3> QED
      BY <3>3, <1>2 DEF TypeOK, Waiting
  <2>2. CASE fsm_get_evt_untaken \/ UNCHANGED vars
    BY <2>2, <1>2 DEF fsm_get_evt_untaken, vars, InPhase
  <2> QED
    BY <2>1, <2>2
<1>4. Waiting' = Waiting /\ \A i \in Slots : Distance(i)' = Distance(i)
  BY <1>1 DEF Waiting, Distance
<1> QED
  BY <1>1, <1>2, <1>3, <1>4 DEF InPhase

HandsNext == overwrites = 0 /\ handed' # handed => handed' = handed + 1

LEMMA NextPhase == IInv /\ [Next]_vars => IInv' /\ HandsNext
<1> SUFFICES ASSUME IInv, [Next]_vars PROVE IInv' /\ HandsNext
  OBVIOUS
<1>1. TypeOK'
  BY NextTypes DEF IInv
<1>2. ASSUME NEW e \in Events, fsm_q_evt(e) PROVE IInv' /\ HandsNext
  BY <1>1, <1>2, QueuePhase DEF fsm_q_evt, IInv, HandsNext
<1>3. CASE fsm_get_evt
  BY <1>1, <1>3, GetPhase DEF fsm_get_evt, IInv, HandsNext
<1>4. CASE fsm_check_evt \/ fsm_get_evt_untaken \/ UNCHANGED vars
  <2>1. overwrites' = overwrites /\ handed' = handed
    BY <1>4 DEF fsm_check_evt, fsm_get_evt_untaken, vars
  <2> QED
    BY <2>1, <1>1, <1>4, CheckPhase DEF IInv, HandsNext
<1> QED
  BY <1>2, <1>3, <1>4 DEF Next

\* A pending event is in sight of fsm_check_evt unless one was overwritten: the
\* tasks that write and the task that reads step their own index each, and the
\* pending flags alone keep the two apart.
THEOREM ReaderHears == Spec => []HearsUnlessOverwritten
<1>1. IInv => HearsUnlessOverwritten
  <2> SUFFICES ASSUME IInv, overwrites = 0, NEW i \in Pending
               PROVE  masterEventQ[currentFSMEvtIdx].pending
    BY DEF HearsUnlessOverwritten, Deaf
  <2>1. TypeOK /\ InPhase /\ i \in Slots /\ Distance(i) < Waiting
    BY DEF IInv, InPhase, Pending
  <2>2. Distance(i) \in Nat /\ Waiting \in Int
    BY <2>1, DistanceInSlots, QueueAssumption DEF Waiting, TypeOK, Slots
  <2>3. currentFSMEvtIdx \in Slots /\ Distance(currentFSMEvtIdx) = 0
    BY <2>1, DistanceInSlots DEF TypeOK
  <2>4. 0 < Waiting
    BY <2>1, <2>2
  <2> QED
    BY <2>1, <2>3, <2>4 DEF InPhase
<1> QED
  BY <1>1, InitPhase, NextPhase, PTL DEF Spec

\* Until an event is overwritten, fsm_get_evt hands out the events one by one in
\* the order fsm_q_evt was called.
THEOREM FirstInFirstOut == Spec => InOrder
<1>1. IInv /\ [Next]_vars => [overwrites = 0 /\ handed' # handed => handed' = handed + 1]_vars
  BY NextPhase DEF HandsNext
<1> QED
  BY <1>1, InitPhase, NextPhase, PTL DEF Spec, InOrder


-----------------------------------------------------------------------------
(* The ring implements the mailbox.                                        *)

\* How many slots are pending: what the length of the mailbox is.
Counted == Cardinality(Pending) = Waiting

BoxInv == IInv /\ (overwrites = 0 => Counted)

\* An interval from 1 tells its end.
LEMMA IntervalEnd ==
  ASSUME NEW a \in Nat, NEW b \in Nat, 1 .. a = 1 .. b
  PROVE  a = b
<1>1. ~(a < b)
  <2>1. a < b => b \in 1 .. b /\ b \notin 1 .. a
    OBVIOUS
  <2>2. QED BY <2>1
<1>2. ~(b < a)
  <2>1. b < a => a \in 1 .. a /\ a \notin 1 .. b
    OBVIOUS
  <2>2. QED BY <2>1
<1>3. QED BY <1>1, <1>2

\* The ring is finite, and so are its pending slots.
LEMMA PendingFinite == IsFiniteSet(Pending)
<1>1. IsFiniteSet(Slots)
  BY FS_Interval, QueueAssumption DEF Slots
<1> QED
  BY <1>1, FS_Subset DEF Pending

\* The k-th event of the mailbox is in the slot at distance k - 1.
LEMMA NthSlotDistance ==
  ASSUME TypeOK, NEW k \in 1 .. MAXFSMEVTS
  PROVE  NthSlot(k) \in Slots /\ Distance(NthSlot(k)) = k - 1
<1>1. MAXFSMEVTS \in Nat \ {0} /\ currentFSMEvtIdx \in 0 .. MAXFSMEVTS - 1
  BY QueueAssumption DEF TypeOK, Slots
<1>2. NthSlot(k) = IF currentFSMEvtIdx + k - 1 < MAXFSMEVTS
                     THEN currentFSMEvtIdx + k - 1
                     ELSE currentFSMEvtIdx + k - 1 - MAXFSMEVTS
  <2>1. CASE currentFSMEvtIdx + k - 1 < MAXFSMEVTS
    BY <1>1, <2>1 DEF NthSlot
  <2>2. CASE ~(currentFSMEvtIdx + k - 1 < MAXFSMEVTS)
    BY <1>1, <2>2 DEF NthSlot
  <2>3. QED BY <2>1, <2>2
<1>3. QED BY <1>1, <1>2 DEF Distance, Slots

\* What the mailbox holds while nothing was overwritten.
BoxShape ==
  /\ Waiting \in 0 .. MAXFSMEVTS
  /\ Box \in Seq(Events) /\ Len(Box) = Waiting
  /\ \A k \in 1 .. Waiting : Box[k] = masterEventQ[NthSlot(k)].nextEvent

LEMMA BoxIs == BoxInv /\ overwrites = 0 => BoxShape
<1> SUFFICES ASSUME BoxInv, overwrites = 0 PROVE BoxShape
  OBVIOUS
<1>1. TypeOK /\ InPhase /\ Counted
  BY DEF BoxInv, IInv
<1>2. Waiting \in 0 .. MAXFSMEVTS
  BY <1>1, QueueAssumption DEF InPhase, Waiting, TypeOK
<1>3. Box = [k \in 1 .. Waiting |-> masterEventQ[NthSlot(k)].nextEvent]
  BY <1>1 DEF Box, Counted
<1> HIDE DEF Waiting
<1>4. \A k \in 1 .. Waiting : masterEventQ[NthSlot(k)].nextEvent \in Events
  <2> TAKE k \in 1 .. Waiting
  <2>1. k \in 1 .. MAXFSMEVTS
    BY <1>2, QueueAssumption
  <2>2. QED BY <2>1, <1>1, NthSlotDistance DEF TypeOK
<1>5. Box \in [1 .. Waiting -> Events]
  BY <1>3, <1>4
<1>6. Box \in Seq(Events)
  BY <1>2, <1>5, SeqDef, QueueAssumption
<1>7. Len(Box) = Waiting
  <2>1. DOMAIN Box = 1 .. Len(Box) /\ Len(Box) \in Nat
    BY <1>6, LenProperties
  <2>2. DOMAIN Box = 1 .. Waiting
    BY <1>5
  <2>3. Waiting \in Nat
    BY <1>2, QueueAssumption
  <2>4. QED BY <2>1, <2>2, <2>3, IntervalEnd
<1>8. QED BY <1>2, <1>3, <1>6, <1>7 DEF BoxShape

\* At the start the mailbox holds flashOk.
LEMMA InitBox == Init => BoxInv /\ Mail!Init
<1> SUFFICES ASSUME Init PROVE BoxInv /\ Mail!Init
  OBVIOUS
<1>1. IInv /\ overwrites = 0 /\ Waiting = 1
  BY InitPhase DEF Init, Waiting
<1>2. Pending = {0}
  <2>1. \A i \in Slots : masterEventQ[i].pending <=> i = 0
    BY DEF Init
  <2>2. 0 \in Slots
    BY QueueAssumption DEF Slots
  <2>3. QED BY <2>1, <2>2 DEF Pending
<1>3. Cardinality(Pending) = 1
  BY <1>2, FS_Singleton
<1>4. BoxInv
  BY <1>1, <1>3 DEF BoxInv, Counted
<1>5. Box = <<flashOk>>
  <2>1. /\ Box \in Seq(Events) /\ Len(Box) = 1
        /\ Box[1] = masterEventQ[NthSlot(1)].nextEvent
    BY <1>1, <1>4, BoxIs DEF BoxShape
  <2>2. NthSlot(1) \in Slots
    BY <1>1, NthSlotDistance, QueueAssumption DEF IInv
  <2>3. Box[1] = flashOk
    BY <2>1, <2>2 DEF Init
  <2>4. <<flashOk>> \in Seq(Events) /\ Len(<<flashOk>>) = 1 /\ <<flashOk>>[1] = flashOk
    BY QueueAssumption
  <2>5. QED BY <2>1, <2>3, <2>4, SeqEqual
<1>6. QED BY <1>1, <1>4, <1>5 DEF Init, Mail!Init

\* Queueing into a free slot puts the event into the mailbox.
LEMMA QueueBox ==
  ASSUME BoxInv, NEW e \in Events, fsm_q_evt(e), overwrites' = 0
  PROVE  Counted' /\ Mail!Put(e)
<1>1. TypeOK /\ TypeOK' /\ InPhase /\ InPhase' /\ Counted /\ overwrites = 0
  <2>1. TypeOK /\ IInv'
    BY NextPhase DEF Next, BoxInv, IInv
  <2>2. overwrites = 0
    BY <2>1 DEF fsm_q_evt, TypeOK
  <2>3. QED BY <2>1, <2>2 DEF BoxInv, IInv
<1>2. FSMEvtIdx \in Slots \ Pending
  BY <1>1 DEF fsm_q_evt, TypeOK, Pending
<1>3. Pending' = Pending \cup {FSMEvtIdx}
  <2>1. masterEventQ'[FSMEvtIdx].pending
        /\ \A i \in Slots \ {FSMEvtIdx} : masterEventQ'[i] = masterEventQ[i]
    BY <1>1 DEF fsm_q_evt, TypeOK
  <2>2. QED BY <2>1, <1>2 DEF Pending
<1>4. Waiting \in Nat /\ Waiting' = Waiting + 1 /\ Waiting' <= MAXFSMEVTS
  BY <1>1 DEF fsm_q_evt, Waiting, TypeOK, InPhase
<1>5. Cardinality(Pending') = Cardinality(Pending) + 1
  BY <1>2, <1>3, PendingFinite, FS_AddElement
<1>6. Counted'
  BY <1>1, <1>4, <1>5 DEF Counted
<1>7. BoxInv' /\ (overwrites = 0)'
  BY <1>1, <1>6 DEF BoxInv, IInv
<1>8. /\ Box \in Seq(Events) /\ Len(Box) = Waiting
      /\ \A k \in 1 .. Waiting : Box[k] = masterEventQ[NthSlot(k)].nextEvent
      /\ Box' \in Seq(Events) /\ Len(Box') = Waiting + 1
      /\ \A k \in 1 .. Waiting + 1 : Box'[k] = masterEventQ'[NthSlot(k)].nextEvent
  <2>1. \A k : NthSlot(k)' = NthSlot(k)
    BY DEF fsm_q_evt, NthSlot
  <2>2. BoxShape /\ BoxShape'
    BY <1>1, <1>7, BoxIs, PTL
  <2>3. QED BY <1>1, <1>4, <2>1, <2>2 DEF BoxShape
<1> HIDE DEF Waiting
<1>9. NthSlot(Waiting + 1) = FSMEvtIdx
  <2>1. Waiting + 1 \in 1 .. MAXFSMEVTS /\ Waiting < MAXFSMEVTS
    BY <1>4, QueueAssumption
  <2>2. NthSlot(Waiting + 1) \in Slots /\ Distance(NthSlot(Waiting + 1)) = Waiting
    BY <1>1, <1>4, <2>1, NthSlotDistance
  <2>3. QED BY <1>1, <2>1, <2>2, WriteIndexDistance
<1>10. masterEventQ'[FSMEvtIdx].nextEvent = e
  BY <1>1 DEF fsm_q_evt, TypeOK
<1>11. \A k \in 1 .. Waiting : masterEventQ'[NthSlot(k)] = masterEventQ[NthSlot(k)]
  <2> TAKE k \in 1 .. Waiting
  <2>1. k \in 1 .. MAXFSMEVTS
    BY <1>4, QueueAssumption
  <2>2. NthSlot(k) \in Slots /\ Distance(NthSlot(k)) < Waiting
    BY <1>1, <1>4, <2>1, NthSlotDistance
  <2>3. masterEventQ[NthSlot(k)].pending
    BY <1>1, <2>2 DEF InPhase
  <2>4. NthSlot(k) # FSMEvtIdx
    BY <1>2, <2>3 DEF Pending
  <2>5. QED BY <1>1, <2>2, <2>4 DEF fsm_q_evt, TypeOK
<1>12. Box' = Append(Box, e)
  <2>1. /\ Append(Box, e) \in Seq(Events) /\ Len(Append(Box, e)) = Waiting + 1
        /\ \A k \in 1 .. Waiting : Append(Box, e)[k] = Box[k]
        /\ Append(Box, e)[Waiting + 1] = e
    BY <1>4, <1>8, AppendProperties
  <2>2. \A k \in 1 .. Waiting + 1 : Box'[k] = Append(Box, e)[k]
    <3> TAKE k \in 1 .. Waiting + 1
    <3>1. CASE k = Waiting + 1
      BY <3>1, <1>4, <1>8, <1>9, <1>10, <2>1
    <3>2. CASE k \in 1 .. Waiting
      BY <3>2, <1>4, <1>8, <1>11, <2>1
    <3>3. k = Waiting + 1 \/ k \in 1 .. Waiting
      BY <1>4
    <3>4. QED BY <3>1, <3>2, <3>3
  <2>3. QED BY <1>8, <2>1, <2>2, SeqEqual
<1>13. Len(Box) < MAXFSMEVTS
  BY <1>4, <1>8, QueueAssumption
<1>14. QED BY <1>1, <1>6, <1>12, <1>13 DEF fsm_q_evt, Mail!Put

\* Queueing into a full ring breaks the mailbox.
LEMMA OverflowBox ==
  ASSUME BoxInv, NEW e \in Events, fsm_q_evt(e), overwrites = 0, overwrites' # 0
  PROVE  Mail!Overflow
<1>1. TypeOK /\ InPhase
  BY DEF BoxInv, IInv
<1>2. masterEventQ[FSMEvtIdx].pending /\ FSMEvtIdx \in Slots
  BY <1>1 DEF fsm_q_evt, TypeOK
<1>3. Distance(FSMEvtIdx) < Waiting
  BY <1>1, <1>2 DEF InPhase
<1>4. BoxShape
  BY BoxIs
<1>5. Waiting = MAXFSMEVTS
  <2>1. ~(Waiting < MAXFSMEVTS)
    <3>1. Waiting < MAXFSMEVTS => Distance(FSMEvtIdx) = Waiting
      BY <1>1, WriteIndexDistance
    <3>2. Waiting \in Int
      BY <1>1 DEF Waiting, TypeOK
    <3>3. QED BY <1>3, <3>1, <3>2
  <2>2. QED BY <1>4, <2>1, QueueAssumption DEF BoxShape
<1>6. overwrites' > 0 /\ Box' = <<>>
  BY <1>1 DEF fsm_q_evt, TypeOK, Box
<1>7. QED BY <1>4, <1>5, <1>6 DEF fsm_q_evt, BoxShape, Mail!Overflow

\* Dequeueing takes the oldest event out of the mailbox.
LEMMA GetBox ==
  ASSUME BoxInv, fsm_get_evt, overwrites = 0
  PROVE  Counted' /\ Mail!Take
<1>1. TypeOK /\ TypeOK' /\ InPhase /\ InPhase' /\ Counted /\ handed' = handed + 1
  BY GetPhase, NextTypes DEF BoxInv, IInv, Next
<1>2. Waiting \in Nat \ {0} /\ Waiting' = Waiting - 1 /\ Waiting <= MAXFSMEVTS
  BY <1>1 DEF fsm_get_evt, Waiting, TypeOK, InPhase
<1>3. currentFSMEvtIdx \in Pending
  BY <1>1, <1>2, DistanceInSlots DEF InPhase, Pending, TypeOK
<1>4. /\ ~masterEventQ'[currentFSMEvtIdx].pending
      /\ \A i \in Slots \ {currentFSMEvtIdx} : masterEventQ'[i] = masterEventQ[i]
  <2>1. masterEventQ' = [masterEventQ EXCEPT ![currentFSMEvtIdx] =
                           [masterEventQ[currentFSMEvtIdx] EXCEPT !.pending = FALSE]]
    BY <1>1 DEF fsm_get_evt
  <2>2. masterEventQ[currentFSMEvtIdx] \in [nextEvent : Events, pending : BOOLEAN]
    BY <1>1 DEF TypeOK
  <2>3. ~[masterEventQ[currentFSMEvtIdx] EXCEPT !.pending = FALSE].pending
    BY <2>2
  <2>4. QED BY <2>1, <2>3, <1>1 DEF TypeOK
<1>5. Pending' = Pending \ {currentFSMEvtIdx}
  BY <1>3, <1>4 DEF Pending
<1>6. Cardinality(Pending') = Cardinality(Pending) - 1
  BY <1>3, <1>5, PendingFinite, FS_RemoveElement
<1>7. Counted'
  BY <1>1, <1>2, <1>6 DEF Counted
<1>8. BoxInv' /\ (overwrites = 0)'
  BY <1>1, <1>7 DEF BoxInv, IInv, fsm_get_evt
<1>9. BoxShape /\ BoxShape'
  BY <1>8, BoxIs, PTL
<1> HIDE DEF Waiting
<1>10. \A k \in 1 .. Waiting - 1 : /\ NthSlot(k)' = NthSlot(k + 1)
                                   /\ masterEventQ'[NthSlot(k + 1)] = masterEventQ[NthSlot(k + 1)]
  <2> TAKE k \in 1 .. Waiting - 1
  <2>1. k \in 1 .. MAXFSMEVTS /\ k + 1 \in 1 .. MAXFSMEVTS /\ k + 1 # 1
    BY <1>2, QueueAssumption
  <2>2. /\ MAXFSMEVTS \in Nat \ {0} /\ currentFSMEvtIdx \in 0 .. MAXFSMEVTS - 1
        /\ currentFSMEvtIdx' = Following(currentFSMEvtIdx)
    BY <1>1, QueueAssumption DEF TypeOK, Slots, fsm_get_evt
  <2>3. NthSlot(k + 1) = (currentFSMEvtIdx + k) % MAXFSMEVTS
    BY <2>1, <2>2 DEF NthSlot
  <2>4. NthSlot(k)' = (currentFSMEvtIdx' + k - 1) % MAXFSMEVTS
    BY DEF NthSlot
  <2>5. NthSlot(k)' = NthSlot(k + 1)
    <3>1. CASE currentFSMEvtIdx + 1 = MAXFSMEVTS
      <4>1. NthSlot(k)' = k - 1
        BY <3>1, <2>1, <2>2, <2>4 DEF Following
      <4>2. NthSlot(k + 1) = k - 1
        BY <3>1, <2>1, <2>2, <2>3
      <4>3. QED BY <4>1, <4>2
    <3>2. CASE currentFSMEvtIdx + 1 # MAXFSMEVTS
      <4>1. currentFSMEvtIdx' = currentFSMEvtIdx + 1
        BY <3>2, <2>2 DEF Following
      <4>2. currentFSMEvtIdx' + k - 1 = currentFSMEvtIdx + k
        BY <4>1, <2>1, <2>2
      <4>3. QED BY <4>2, <2>3, <2>4
    <3>3. QED BY <3>1, <3>2
  <2>6. NthSlot(k + 1) \in Slots /\ Distance(NthSlot(k + 1)) = (k + 1) - 1
    BY <1>1, <2>1, NthSlotDistance
  <2>7. NthSlot(k + 1) # currentFSMEvtIdx
    <3>1. Distance(NthSlot(k + 1)) # 0
      BY <2>1, <2>6
    <3>2. QED BY <3>1, <2>6, <1>1, DistanceInSlots
  <2>8. QED BY <2>5, <2>6, <2>7, <1>4
<1>11. NthSlot(1) = currentFSMEvtIdx
  <2>1. 1 \in 1 .. MAXFSMEVTS
    BY QueueAssumption
  <2>2. QED BY <2>1, <1>1, NthSlotDistance, DistanceInSlots
<1>12. Box # <<>> /\ Head(Box) = masterEventQ[currentFSMEvtIdx].nextEvent
  <2>1. Len(Box) # 0 /\ Box[1] = masterEventQ[currentFSMEvtIdx].nextEvent
    BY <1>2, <1>9, <1>11 DEF BoxShape
  <2>2. QED BY <2>1, <1>9 DEF BoxShape
<1>13. Box' = Tail(Box)
  <2>1. /\ Tail(Box) \in Seq(Events) /\ Len(Tail(Box)) = Waiting - 1
        /\ \A k \in 1 .. Waiting - 1 : Tail(Box)[k] = Box[k + 1]
    BY <1>2, <1>9, <1>12, HeadTailProperties DEF BoxShape
  <2>2. /\ Box' \in Seq(Events) /\ Len(Box') = Waiting - 1
        /\ \A k \in 1 .. Waiting - 1 : Box'[k] = masterEventQ'[NthSlot(k)'].nextEvent
    BY <1>2, <1>9 DEF BoxShape
  <2>3. \A k \in 1 .. Waiting - 1 : Box[k + 1] = masterEventQ[NthSlot(k + 1)].nextEvent
    BY <1>2, <1>9 DEF BoxShape
  <2>4. \A k \in 1 .. Waiting - 1 : Box'[k] = Tail(Box)[k]
    BY <2>1, <2>2, <2>3, <1>10
  <2>5. QED BY <2>1, <2>2, <2>4, SeqEqual
<1>14. QED BY <1>1, <1>7, <1>12, <1>13 DEF fsm_get_evt, Mail!Take, TypeOK

\* The reader misses the lock: it gets flashOk and the mail stays.
LEMMA UntakenBox ==
  ASSUME BoxInv, fsm_get_evt_untaken, overwrites = 0
  PROVE  Mail!Missed
<1>1. TypeOK /\ InPhase /\ Waiting > 0 /\ BoxShape
  BY BoxIs DEF BoxInv, IInv, InPhase, fsm_get_evt_untaken
<1>2. Box # <<>>
  <2>1. Len(Box) # 0
    BY <1>1 DEF BoxShape
  <2>2. QED BY <2>1
<1>3. \A k : NthSlot(k)' = NthSlot(k)
  BY DEF fsm_get_evt_untaken, NthSlot
<1>4. Box' = Box
  BY <1>3 DEF fsm_get_evt_untaken, Box, Pending
<1>5. QED BY <1>2, <1>4 DEF fsm_get_evt_untaken, Mail!Missed

\* A step of the ring that lost an event: the broken mailbox promises nothing.
LEMMA RuinedBox ==
  ASSUME TypeOK, TypeOK', [Next]_vars, overwrites # 0
  PROVE  overwrites' # 0 /\ (Mail!Ruined \/ UNCHANGED Mail!mailVars)
<1>1. overwrites' # 0
  BY DEF TypeOK, Next, vars, fsm_q_evt, fsm_check_evt, fsm_get_evt, fsm_get_evt_untaken
<1>2. (overwrites > 0)' /\ overwrites > 0
  BY <1>1 DEF TypeOK
<1>3. Box = <<>> /\ Box' = <<>>
  BY <1>1 DEF Box
<1>4. nextEvent' \in Events
  BY DEF TypeOK
<1>5. QED BY <1>1, <1>2, <1>3, <1>4 DEF Mail!Ruined

\* Every step of the ring is a step of the mailbox or none.
LEMMA NextBox == BoxInv /\ [Next]_vars => BoxInv' /\ [Mail!Next]_Mail!mailVars
<1> SUFFICES ASSUME BoxInv, [Next]_vars
             PROVE  BoxInv' /\ [Mail!Next]_Mail!mailVars
  OBVIOUS
<1>1. TypeOK /\ IInv' /\ TypeOK'
  BY NextPhase DEF BoxInv, IInv
<1>2. CASE overwrites # 0
  BY <1>1, <1>2, RuinedBox DEF BoxInv, Mail!Next
<1>3. CASE overwrites = 0
  <2>1. ASSUME NEW e \in Events, fsm_q_evt(e)
        PROVE  BoxInv' /\ [Mail!Next]_Mail!mailVars
    <3>1. CASE overwrites' = 0
      BY <1>1, <2>1, <3>1, QueueBox DEF BoxInv, Mail!Next
    <3>2. CASE overwrites' # 0
      BY <1>1, <1>3, <2>1, <3>2, OverflowBox DEF BoxInv, Mail!Next
    <3>3. QED BY <3>1, <3>2
  <2>2. CASE fsm_get_evt
    BY <1>1, <1>3, <2>2, GetBox DEF BoxInv, Mail!Next
  <2>3. CASE fsm_get_evt_untaken
    <3>1. Mail!Missed
      BY <1>3, <2>3, UntakenBox
    <3>2. Counted'
      BY <1>3, <2>3 DEF BoxInv, Counted, Waiting, Pending, fsm_get_evt_untaken
    <3>3. QED BY <1>1, <3>1, <3>2 DEF BoxInv, Mail!Next
  <2>4. CASE fsm_check_evt \/ UNCHANGED vars
    <3>1. /\ masterEventQ' = masterEventQ /\ currentFSMEvtIdx' = currentFSMEvtIdx
          /\ sent' = sent /\ handed' = handed /\ overwrites' = overwrites
          /\ nextEvent' = nextEvent
      BY <2>4 DEF fsm_check_evt, vars
    <3>2. Counted' /\ \A k : NthSlot(k)' = NthSlot(k)
      BY <1>3, <3>1 DEF BoxInv, Counted, Waiting, Pending, NthSlot
    <3>3. Box' = Box
      BY <3>1, <3>2 DEF Box, Pending
    <3>4. UNCHANGED Mail!mailVars
      BY <3>1, <3>3 DEF Mail!mailVars
    <3>5. QED BY <1>1, <3>2, <3>4 DEF BoxInv
  <2>5. QED BY <2>1, <2>2, <2>3, <2>4 DEF Next
<1>4. QED BY <1>2, <1>3

\* The ring of fsm_q_evt, fsm_check_evt and fsm_get_evt is a bounded first-in
\* first-out mailbox, which is what HubControl takes it for: until a full ring is
\* written to, every event queued is handed out once, oldest first, and a missed
\* lock costs a turn but no event.
THEOREM RingIsMailbox == Spec => ImplementsMailbox
  BY InitBox, NextBox, PTL DEF Spec, Mail!Spec, ImplementsMailbox

=============================================================================
