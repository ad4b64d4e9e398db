---------------------------- MODULE RingProofs ----------------------------
(***************************************************************************)
(* Proofs about the rings of the program, for every size of each and       *)
(* however long they run. Each keeps its indices its own way, and what     *)
(* holds of it depends on how they wrap:                                   *)
(*   - the results execution posts to the cloud (ResultQueue): until it    *)
(*     overruns, the reader knows when something is owed and posts the     *)
(*     results in turn;                                                    *)
(*   - the log of port changes (PortLog): one message a round is lost, and *)
(*     no other;                                                           *)
(*   - the words on their way to an expander (PinOutputs): what a word     *)
(*     shows of the pins that were not set;                                *)
(*   - the two buffers of samples (PinInputs): a level found is recent,    *)
(*     and not older than the one found before it.                         *)
(* MCPorts, which puts the last three side by side, names them Log,        *)
(* Outputs and Inputs.                                                     *)
(***************************************************************************)
EXTENDS ResultQueue, MCPorts, Sequences, FiniteSetsExt, TLAPS

-----------------------------------------------------------------------------
(* The queue of results.                                                   *)


\* Writer and reader in the same round: the results owed lie from the read to
\* the write index.
SameRound ==
  /\ message_index_overflow = 0
  /\ execution_message_sent <= execution_message_index
  /\ posted + execution_message_index - execution_message_sent = queued
  /\ \A i \in Slots :
       IF execution_message_sent <= i /\ i < execution_message_index
         THEN execution_message_buffer[i] = posted + 1 + i - execution_message_sent
         ELSE execution_message_buffer[i] <= posted

\* The writer one round ahead: they lie from the read index to the last slot, and
\* from slot 1 to the write index.
RoundAhead ==
  /\ message_index_overflow = 1
  /\ 1 <= execution_message_index
  /\ execution_message_index <= execution_message_sent \/ execution_message_index = 1
  /\ posted + Last + execution_message_index - execution_message_sent = queued
  /\ \A i \in Slots :
       IF execution_message_sent <= i
         THEN execution_message_buffer[i] = posted + 1 + i - execution_message_sent
         ELSE IF 1 <= i /\ i < execution_message_index
           THEN execution_message_buffer[i] = posted + 1 + i + Last - execution_message_sent
           ELSE execution_message_buffer[i] <= posted

InPhase == lastPosted = posted /\ (SameRound \/ RoundAhead)

IInv == TypeOK /\ (overruns = 0 => InPhase)

-----------------------------------------------------------------------------
LEMMA SlotFacts ==
  /\ MAX_EXECUTION_MSGS \in Nat /\ MAX_EXECUTION_MSGS >= 2
  /\ Last \in Slots /\ Last \in Nat /\ Last >= 1
  /\ \A i \in Slots : i \in Nat /\ i <= Last
  /\ \A i \in Slots : /\ NextIndex(i) \in Slots
                      /\ i < Last => NextIndex(i) = i + 1
                      /\ i >= Last => i = Last /\ NextIndex(i) = 1
  BY ResultAssumption, SMT DEF Last, Slots, NextIndex

LEMMA ByteFacts ==
  /\ (0 + 1) % 256 = 1 /\ (1 + 0) % 256 = 1 /\ (0 + 0) % 256 = 0
  /\ (1 - 0) % 256 = 1 /\ (1 - 1) % 256 = 0 /\ (0 - 0) % 256 = 0
  BY SMT

\* What the leaves below need of types.
Numeric ==
  /\ execution_message_index \in Int /\ 0 <= execution_message_index
  /\ execution_message_index <= Last
  /\ execution_message_sent \in Int /\ 0 <= execution_message_sent
  /\ execution_message_sent <= Last
  /\ queued \in Int /\ posted \in Int
  /\ execution_message_index \in Slots /\ execution_message_sent \in Slots
  /\ \A i \in Slots : execution_message_buffer[i] \in Int

LEMMA Numbers == TypeOK => Numeric
  BY SlotFacts, SMT DEF TypeOK, Numeric

LEMMA TypeInvariant == TypeOK /\ [Next]_vars => TypeOK'
<1> SUFFICES ASSUME TypeOK, [Next]_vars PROVE TypeOK'
  OBVIOUS
<1>1. CASE execution_q_message
  BY <1>1, SlotFacts, SMT DEF execution_q_message, TypeOK
<1>2. CASE execution_deq_message
  BY <1>2, SlotFacts, SMT DEF execution_deq_message, TypeOK
<1>3. CASE UNCHANGED vars
  BY <1>3 DEF vars, TypeOK
<1> QED
  BY <1>1, <1>2, <1>3 DEF Next

LEMMA InitPhase == Init => IInv
<1> SUFFICES ASSUME Init PROVE IInv
  OBVIOUS
<1>1. TypeOK
  BY ResultAssumption, SMT DEF Init, TypeOK, Slots
<1>2. InPhase
  BY <1>1, SlotFacts, SMT DEF Init, InPhase, SameRound, TypeOK
<1> QED
  BY <1>1, <1>2 DEF IInv

\* A write keeps the phase or is an overrun.
LEMMA WritePhase == IInv /\ execution_q_message => (overruns' = 0 => InPhase')
<1> SUFFICES ASSUME IInv, execution_q_message, overruns' = 0 PROVE InPhase'
  OBVIOUS
<1>1. TypeOK /\ TypeOK' /\ overruns = 0 /\ InPhase /\ ~Unposted
  BY TypeInvariant, SMT DEF IInv, TypeOK, execution_q_message, Next
<1>t. Numeric
  BY <1>1, Numbers
<1>2. /\ lastPosted' = lastPosted /\ posted' = posted /\ queued' = queued + 1
      /\ execution_message_sent' = execution_message_sent
      /\ execution_message_index' = NextIndex(execution_message_index)
      /\ \A i \in Slots : execution_message_buffer'[i] =
           IF i = execution_message_index THEN queued + 1 ELSE execution_message_buffer[i]
  BY <1>1, SlotFacts, SMT DEF execution_q_message, TypeOK
<1>3. CASE SameRound /\ execution_message_index < Last
  <2>1. /\ execution_message_index' = execution_message_index + 1
        /\ message_index_overflow' = 0
    BY <1>t, <1>1, <1>2, <1>3, SlotFacts, ByteFacts, SMT DEF execution_q_message, SameRound, Numeric
  <2>2. SameRound'
    <3>1. /\ message_index_overflow' = 0
          /\ execution_message_sent' <= execution_message_index'
          /\ posted' + execution_message_index' - execution_message_sent' = queued'
      BY <1>t, <1>1, <1>2, <1>3, <2>1, SlotFacts, SMT DEF SameRound, Numeric
    <3>2. ASSUME NEW i \in Slots
          PROVE  IF execution_message_sent' <= i /\ i < execution_message_index'
                   THEN execution_message_buffer'[i] = posted' + 1 + i - execution_message_sent'
                   ELSE execution_message_buffer'[i] <= posted'
      BY <1>t, <1>1, <1>2, <1>3, <2>1, SlotFacts, SMT DEF SameRound, Numeric
    <3> QED
      BY <3>1, <3>2 DEF SameRound
  <2> QED
    BY <2>2, <1>1, <1>2 DEF InPhase
<1>4. CASE SameRound /\ execution_message_index >= Last
  <2>1. /\ execution_message_index = Last
        /\ execution_message_index' = 1
        /\ message_index_overflow' = 1
    BY <1>t, <1>1, <1>2, <1>4, SlotFacts, ByteFacts, SMT DEF execution_q_message, SameRound, Numeric
  <2>2. RoundAhead'
    <3>1. /\ message_index_overflow' = 1
          /\ 1 <= execution_message_index'
          /\ execution_message_index' <= execution_message_sent' \/ execution_message_index' = 1
          /\ posted' + Last + execution_message_index' - execution_message_sent' = queued'
      BY <1>t, <1>1, <1>2, <1>4, <2>1, SlotFacts, SMT DEF SameRound, RoundAhead, Numeric
    <3>2. ASSUME NEW i \in Slots
          PROVE  IF execution_message_sent' <= i
                   THEN execution_message_buffer'[i] = posted' + 1 + i - execution_message_sent'
                   ELSE IF 1 <= i /\ i < execution_message_index'
                     THEN execution_message_buffer'[i] = posted' + 1 + i + Last - execution_message_sent'
                     ELSE execution_message_buffer'[i] <= posted'
      BY <1>t, <1>1, <1>2, <1>4, <2>1, SlotFacts, SMT DEF SameRound, RoundAhead, Numeric
    <3> QED
      BY <3>1, <3>2 DEF RoundAhead
  <2> QED
    BY <2>2, <1>1, <1>2 DEF InPhase
<1>5. CASE RoundAhead
  <2>1. execution_message_index < execution_message_sent
    BY <1>t, <1>1, <1>5, SlotFacts, SMT DEF RoundAhead, InPhase, Unposted, Numeric
  <2>2. execution_message_index < Last
    BY <1>t, <2>1, <1>1, SlotFacts, SMT DEF Numeric
  <2>3. /\ execution_message_index' = execution_message_index + 1
        /\ message_index_overflow' = 1
    BY <1>t, <1>1, <1>2, <1>5, <2>2, SlotFacts, ByteFacts, SMT DEF execution_q_message, RoundAhead, Numeric
  <2>4. RoundAhead'
    <3>1. /\ message_index_overflow' = 1
          /\ 1 <= execution_message_index'
          /\ execution_message_index' <= execution_message_sent' \/ execution_message_index' = 1
          /\ posted' + Last + execution_message_index' - execution_message_sent' = queued'
      BY <1>t, <1>1, <1>2, <1>5, <2>1, <2>3, SlotFacts, SMT DEF RoundAhead, Numeric
    <3>2. ASSUME NEW i \in Slots
          PROVE  IF execution_message_sent' <= i
                   THEN execution_message_buffer'[i] = posted' + 1 + i - execution_message_sent'
                   ELSE IF 1 <= i /\ i < execution_message_index'
                     THEN execution_message_buffer'[i] = posted' + 1 + i + Last - execution_message_sent'
                     ELSE execution_message_buffer'[i] <= posted'
      BY <1>t, <1>1, <1>2, <1>5, <2>1, <2>3, SlotFacts, SMT DEF RoundAhead, Numeric
    <3> QED
      BY <3>1, <3>2 DEF RoundAhead
  <2> QED
    BY <2>4, <1>1, <1>2 DEF InPhase
<1> QED
  BY <1>t, <1>1, <1>3, <1>4, <1>5, SlotFacts, SMT DEF InPhase, Numeric

\* A post in phase takes the next result and keeps the phase.
LEMMA PostPhase ==
  ASSUME IInv, execution_deq_message, overruns = 0
  PROVE  InPhase' /\ lastPosted' = posted'
<1>1. TypeOK /\ TypeOK' /\ InPhase
  BY TypeInvariant DEF IInv, Next
<1>t. Numeric
  BY <1>1, Numbers
<1>2. /\ lastPosted' = execution_message_buffer[execution_message_sent]
      /\ posted' = posted + 1 /\ queued' = queued
      /\ execution_message_sent' = NextIndex(execution_message_sent)
      /\ execution_message_index' = execution_message_index
      /\ execution_message_buffer' = execution_message_buffer
  BY DEF execution_deq_message
<1>3. CASE SameRound
  <2>1. execution_message_sent < execution_message_index
    BY <1>t, <1>1, <1>3, SMT DEF SameRound, execution_deq_message, Due, Numeric
  <2>2. /\ execution_message_sent' = execution_message_sent + 1
        /\ message_index_overflow' = 0
    BY <1>t, <2>1, <1>1, <1>2, <1>3, SlotFacts, ByteFacts, SMT DEF execution_deq_message, SameRound, Numeric
  <2>3. lastPosted' = posted'
    BY <1>t, <1>1, <1>2, <1>3, <2>1, SMT DEF SameRound, Numeric
  <2>4. SameRound'
    <3>1. /\ message_index_overflow' = 0
          /\ execution_message_sent' <= execution_message_index'
          /\ posted' + execution_message_index' - execution_message_sent' = queued'
      BY <1>t, <1>1, <1>2, <1>3, <2>1, <2>2, SlotFacts, SMT DEF SameRound, Numeric
    <3>2. ASSUME NEW i \in Slots
          PROVE  IF execution_message_sent' <= i /\ i < execution_message_index'
                   THEN execution_message_buffer'[i] = posted' + 1 + i - execution_message_sent'
                   ELSE execution_message_buffer'[i] <= posted'
      BY <1>t, <1>1, <1>2, <1>3, <2>1, <2>2, SlotFacts, SMT DEF SameRound, Numeric
    <3> QED
      BY <3>1, <3>2 DEF SameRound
  <2> QED
    BY <2>3, <2>4 DEF InPhase
<1>4. CASE RoundAhead /\ execution_message_sent < Last
  <2>1. /\ execution_message_sent' = execution_message_sent + 1
        /\ message_index_overflow' = 1
    BY <1>t, <1>1, <1>2, <1>4, SlotFacts, ByteFacts, SMT DEF execution_deq_message, RoundAhead, Numeric
  <2>2. lastPosted' = posted'
    BY <1>t, <1>1, <1>2, <1>4, SMT DEF RoundAhead, Numeric
  <2>3. RoundAhead'
    <3>1. /\ message_index_overflow' = 1
          /\ 1 <= execution_message_index'
          /\ execution_message_index' <= execution_message_sent' \/ execution_message_index' = 1
          /\ posted' + Last + execution_message_index' - execution_message_sent' = queued'
      BY <1>t, <1>1, <1>2, <1>4, <2>1, SlotFacts, SMT DEF RoundAhead, Numeric
    <3>2. ASSUME NEW i \in Slots
          PROVE  IF execution_message_sent' <= i
                   THEN execution_message_buffer'[i] = posted' + 1 + i - execution_message_sent'
                   ELSE IF 1 <= i /\ i < execution_message_index'
                     THEN execution_message_buffer'[i] = posted' + 1 + i + Last - execution_message_sent'
                     ELSE execution_message_buffer'[i] <= posted'
      BY <1>t, <1>1, <1>2, <1>4, <2>1, SlotFacts, SMT DEF RoundAhead, Numeric
    <3> QED
      BY <3>1, <3>2 DEF RoundAhead
  <2> QED
    BY <2>2, <2>3 DEF InPhase
<1>5. CASE RoundAhead /\ execution_message_sent >= Last
  <2>1. /\ execution_message_sent = Last
        /\ execution_message_sent' = 1
        /\ message_index_overflow' = 0
    BY <1>t, <1>1, <1>2, <1>5, SlotFacts, ByteFacts, SMT DEF execution_deq_message, RoundAhead, Numeric
  <2>2. lastPosted' = posted'
    BY <1>t, <1>1, <1>2, <1>5, SMT DEF RoundAhead, Numeric
  <2>3. SameRound'
    <3>1. /\ message_index_overflow' = 0
          /\ execution_message_sent' <= execution_message_index'
          /\ posted' + execution_message_index' - execution_message_sent' = queued'
      BY <1>t, <1>1, <1>2, <1>5, <2>1, SlotFacts, SMT DEF RoundAhead, SameRound, Numeric
    <3>2. ASSUME NEW i \in Slots
          PROVE  IF execution_message_sent' <= i /\ i < execution_message_index'
                   THEN execution_message_buffer'[i] = posted' + 1 + i - execution_message_sent'
                   ELSE execution_message_buffer'[i] <= posted'
      BY <1>t, <1>1, <1>2, <1>5, <2>1, SlotFacts, SMT DEF RoundAhead, SameRound, Numeric
    <3> QED
      BY <3>1, <3>2 DEF SameRound
  <2> QED
    BY <2>2, <2>3 DEF InPhase
<1> QED
  BY <1>t, <1>1, <1>3, <1>4, <1>5, SlotFacts, SMT DEF InPhase, Numeric

LEMMA Inductive == IInv /\ [Next]_vars => IInv'
<1> SUFFICES ASSUME IInv, [Next]_vars PROVE IInv'
  OBVIOUS
<1>1. TypeOK'
  BY TypeInvariant DEF IInv
<1>2. CASE execution_q_message
  BY <1>1, <1>2, WritePhase DEF IInv
<1>3. CASE execution_deq_message
  BY <1>1, <1>3, PostPhase DEF IInv, execution_deq_message
<1>4. CASE UNCHANGED vars
  BY <1>1, <1>4, SMT DEF IInv, vars, InPhase, SameRound, RoundAhead
<1> QED
  BY <1>2, <1>3, <1>4 DEF Next

LEMMA Invariant == Spec => []IInv
<1>1. Init => IInv
  BY InitPhase
<1>2. IInv /\ [Next]_vars => IInv'
  BY Inductive
<1> QED
  BY <1>1, <1>2, PTL DEF Spec

\* The buffer, its indices and its counter keep their types.
THEOREM TypeCorrect == Spec => []TypeOK
<1>1. IInv => TypeOK
  BY DEF IInv
<1> QED
  BY <1>1, Invariant, PTL

\* Until a result is overwritten, execution_deq_message finds something due
\* exactly when a result is owed, for every size of the buffer.
THEOREM OwedIsDue == Spec => []DueWhenOwed
<1>1. IInv => DueWhenOwed
  BY SlotFacts, SMT DEF IInv, DueWhenOwed, InPhase, SameRound, RoundAhead, Due, TypeOK, Slots, Last
<1> QED
  BY <1>1, Invariant, PTL

\* Until then it posts the results one by one in the order they were queued.
THEOREM PostedInTurn == Spec => InTurn
<1>1. IInv /\ [Next]_vars => [overruns = 0 /\ posted' # posted => lastPosted' = posted']_vars
  <2> SUFFICES ASSUME IInv, [Next]_vars, overruns = 0, posted' # posted
               PROVE  lastPosted' = posted'
    OBVIOUS
  <2>1. execution_deq_message
    BY DEF Next, execution_q_message, vars
  <2> QED
    BY <2>1, PostPhase
<1> QED
  BY <1>1, Invariant, PTL DEF Spec, InTurn

-----------------------------------------------------------------------------
(* The last word, overruns or not.                                         *)

\* Slot and round of an index after n steps: slot 0 once, then rounds of Last.
SlotAfter(n)  == IF n = 0 THEN 0 ELSE 1 + ((n - 1) % Last)
RoundAfter(n) == IF n = 0 THEN 0 ELSE (n - 1) \div Last

\* Both indices are determined by the number of their steps, the counter by the
\* rounds between them, and the slot written last holds the newest result.
Paced ==
  /\ posted <= queued
  /\ execution_message_index = SlotAfter(queued)
  /\ execution_message_sent = SlotAfter(posted)
  /\ message_index_overflow = (RoundAfter(queued) - RoundAfter(posted)) % 256
  /\ queued > 0 => execution_message_buffer[SlotAfter(queued - 1)] = queued
  /\ posted = queued => lastPosted = queued

\* One more step: the remainder goes up or starts again, and then the quotient
\* goes up.
LEMMA NextDivision ==
  ASSUME NEW n \in Nat, NEW d \in Nat \ {0}
  PROVE  /\ n % d \in 0 .. d - 1 /\ n \div d \in Nat
         /\ n % d < d - 1 => (n + 1) % d = (n % d) + 1 /\ (n + 1) \div d = n \div d
         /\ n % d >= d - 1 => (n + 1) % d = 0 /\ (n + 1) \div d = n \div d + 1
<1> DEFINE q == n \div d
           r == n % d
<1>1. q \in Nat /\ r \in 0 .. d - 1 /\ n = d * q + r
  OBVIOUS
<1> HIDE DEF q, r
<1>2. ASSUME r < d - 1
      PROVE  (n + 1) % d = r + 1 /\ (n + 1) \div d = q
  <2>1. n + 1 = d * q + (r + 1) /\ r + 1 \in 0 .. d - 1
    BY <1>1, <1>2
  <2>2. QED BY <2>1, <1>1
<1>3. ASSUME r >= d - 1
      PROVE  (n + 1) % d = 0 /\ (n + 1) \div d = q + 1
  <2>1. n + 1 = d * (q + 1) + 0 /\ 0 \in 0 .. d - 1
    BY <1>1, <1>3
  <2>2. QED BY <2>1, <1>1
<1>4. QED BY <1>1, <1>2, <1>3 DEF q, r

\* The slot and the round follow the steps of an index.
LEMMA NextSlot ==
  ASSUME NEW n \in Nat
  PROVE  /\ SlotAfter(n) \in Slots
         /\ SlotAfter(n + 1) = NextIndex(SlotAfter(n))
         /\ RoundAfter(n) \in Nat
         /\ RoundAfter(n + 1) = RoundAfter(n) + (IF SlotAfter(n) >= Last THEN 1 ELSE 0)
<1>1. Last \in Nat \ {0} /\ Slots = 0 .. Last
  BY ResultAssumption DEF Last, Slots
<1> HIDE DEF Last
<1>2. CASE n = 0
  <2>1. SlotAfter(n) = 0 /\ RoundAfter(n) = 0
    BY <1>2 DEF SlotAfter, RoundAfter
  <2>2. 0 % Last = 0 /\ 0 \div Last = 0
    BY <1>1
  <2>3. SlotAfter(n + 1) = 1 /\ RoundAfter(n + 1) = 0
    BY <1>2, <2>2 DEF SlotAfter, RoundAfter
  <2>4. QED BY <1>1, <2>1, <2>3 DEF NextIndex
<1>3. CASE n # 0
  <2>1. n - 1 \in Nat /\ (n - 1) + 1 = n
    BY <1>3
  <2>2. /\ (n - 1) % Last \in 0 .. Last - 1 /\ (n - 1) \div Last \in Nat
        /\ (n - 1) % Last < Last - 1 => /\ n % Last = ((n - 1) % Last) + 1
                                        /\ n \div Last = (n - 1) \div Last
        /\ (n - 1) % Last >= Last - 1 => /\ n % Last = 0
                                         /\ n \div Last = (n - 1) \div Last + 1
    BY <1>1, <2>1, NextDivision
  <2>3. /\ SlotAfter(n) = 1 + ((n - 1) % Last) /\ RoundAfter(n) = (n - 1) \div Last
        /\ SlotAfter(n + 1) = 1 + (n % Last) /\ RoundAfter(n + 1) = n \div Last
    BY <1>3 DEF SlotAfter, RoundAfter
  <2> DEFINE r == (n - 1) % Last
             q == (n - 1) \div Last
  <2>4. r < Last - 1 \/ r >= Last - 1
    BY <1>1, <2>2
  <2>5. QED BY <1>1, <2>2, <2>3, <2>4 DEF NextIndex
<1>4. QED BY <1>2, <1>3

\* Adding to a byte and taking from it.
LEMMA ByteSteps ==
  ASSUME NEW x \in Int, NEW d \in {0, 1}
  PROVE  ((x % 256) + d) % 256 = (x + d) % 256 /\ ((x % 256) - d) % 256 = (x - d) % 256
  OBVIOUS

LEMMA InitPaced == Init => Paced
<1>1. SlotAfter(0) = 0 /\ RoundAfter(0) = 0
  BY DEF SlotAfter, RoundAfter
<1>2. QED BY <1>1, ByteFacts DEF Init, Paced

\* A result written is the newest one, and it is not posted yet.
LEMMA WritePaced == TypeOK /\ Paced /\ execution_q_message => Paced'
<1> SUFFICES ASSUME TypeOK, Paced, execution_q_message PROVE Paced'
  OBVIOUS
<1>1. queued \in Nat /\ posted \in Nat /\ queued' = queued + 1 /\ posted' = posted
  BY DEF TypeOK, execution_q_message
<1>2. /\ SlotAfter(queued) \in Slots
      /\ SlotAfter(queued + 1) = NextIndex(SlotAfter(queued))
      /\ RoundAfter(queued) \in Nat /\ RoundAfter(posted) \in Nat
      /\ RoundAfter(queued + 1) =
           RoundAfter(queued) + (IF SlotAfter(queued) >= Last THEN 1 ELSE 0)
  BY <1>1, NextSlot
<1>3. execution_message_index' = SlotAfter(queued')
  BY <1>1, <1>2 DEF Paced, execution_q_message
<1>4. execution_message_sent' = SlotAfter(posted')
  BY <1>1 DEF Paced, execution_q_message
<1>5. message_index_overflow' = (RoundAfter(queued') - RoundAfter(posted')) % 256
  <2> DEFINE x == RoundAfter(queued) - RoundAfter(posted)
             d == IF SlotAfter(queued) >= Last THEN 1 ELSE 0
  <2>1. x \in Int /\ d \in {0, 1}
    BY <1>2
  <2>2. message_index_overflow' = ((x % 256) + d) % 256
    BY DEF Paced, execution_q_message
  <2>3. RoundAfter(queued') - RoundAfter(posted') = x + d
    BY <1>1, <1>2, <2>1
  <2> HIDE DEF x, d
  <2>4. QED BY <2>1, <2>2, <2>3, ByteSteps
<1>6. execution_message_buffer'[SlotAfter(queued' - 1)] = queued'
  <2>1. execution_message_buffer'[execution_message_index] = queued + 1
    BY DEF TypeOK, execution_q_message
  <2>2. queued' - 1 = queued /\ execution_message_index = SlotAfter(queued)
    BY <1>1 DEF Paced
  <2>3. QED BY <1>1, <2>1, <2>2
<1>7. posted' <= queued' /\ posted' # queued'
  BY <1>1 DEF Paced
<1>8. QED BY <1>3, <1>4, <1>5, <1>6, <1>7 DEF Paced

\* The reader never gets past the writer; when it catches up it has posted the
\* newest result.
LEMMA PostPaced == TypeOK /\ Paced /\ execution_deq_message => Paced'
<1> SUFFICES ASSUME TypeOK, Paced, execution_deq_message PROVE Paced'
  OBVIOUS
<1>1. queued \in Nat /\ posted \in Nat /\ queued' = queued /\ posted' = posted + 1
  BY DEF TypeOK, execution_deq_message
<1>2. /\ SlotAfter(posted) \in Slots
      /\ SlotAfter(posted + 1) = NextIndex(SlotAfter(posted))
      /\ RoundAfter(queued) \in Nat /\ RoundAfter(posted) \in Nat
      /\ RoundAfter(posted + 1) =
           RoundAfter(posted) + (IF SlotAfter(posted) >= Last THEN 1 ELSE 0)
  BY <1>1, NextSlot
<1>3. posted < queued
  <2>1. CASE posted = queued
    <3>1. message_index_overflow = 0
      BY <1>2, <2>1 DEF Paced
    <3>2. execution_message_sent = execution_message_index /\ execution_message_sent \in Int
      BY <1>2, <2>1 DEF Paced, Slots
    <3>3. ~Due
      BY <3>1, <3>2 DEF Due
    <3>4. QED BY <3>3 DEF execution_deq_message
  <2>2. QED BY <1>1, <2>1 DEF Paced
<1>4. /\ execution_message_index' = SlotAfter(queued')
      /\ execution_message_buffer' = execution_message_buffer
  BY <1>1 DEF Paced, execution_deq_message
<1>5. execution_message_sent' = SlotAfter(posted')
  BY <1>1, <1>2 DEF Paced, execution_deq_message
<1>6. message_index_overflow' = (RoundAfter(queued') - RoundAfter(posted')) % 256
  <2> DEFINE x == RoundAfter(queued) - RoundAfter(posted)
             d == IF SlotAfter(posted) >= Last THEN 1 ELSE 0
  <2>1. x \in Int /\ d \in {0, 1}
    BY <1>2
  <2>2. message_index_overflow' = ((x % 256) - d) % 256
    BY DEF Paced, execution_deq_message
  <2>3. RoundAfter(queued') - RoundAfter(posted') = x - d
    BY <1>1, <1>2, <2>1
  <2> HIDE DEF x, d
  <2>4. QED BY <2>1, <2>2, <2>3, ByteSteps
<1>7. posted' = queued' => lastPosted' = queued'
  <2> SUFFICES ASSUME posted + 1 = queued PROVE lastPosted' = queued
    BY <1>1
  <2>1. queued - 1 = posted /\ queued > 0
    BY <1>1
  <2>2. execution_message_buffer[execution_message_sent] = queued
    BY <2>1 DEF Paced
  <2>3. QED BY <2>2 DEF execution_deq_message
<1>8. queued' > 0 => execution_message_buffer'[SlotAfter(queued' - 1)] = queued'
  BY <1>1, <1>4 DEF Paced
<1>9. QED BY <1>1, <1>3, <1>4, <1>5, <1>6, <1>7, <1>8 DEF Paced

\* Whatever was overwritten in between, and even after the counter of rounds has
\* wrapped, the last result the cloud was told is the newest one once as many
\* posts were made as results queued.
THEOREM LastIsNewest == Spec => []LastWord
<1>1. Init => TypeOK /\ Paced
  BY InitPhase, InitPaced DEF IInv
<1>2. TypeOK /\ Paced /\ [Next]_vars => TypeOK' /\ Paced'
  <2> SUFFICES ASSUME TypeOK, Paced, [Next]_vars PROVE TypeOK' /\ Paced'
    OBVIOUS
  <2>1. TypeOK'
    BY TypeInvariant
  <2>2. CASE UNCHANGED vars
    BY <2>1, <2>2 DEF vars, Paced
  <2>3. QED BY <2>1, <2>2, WritePaced, PostPaced DEF Next
<1>3. Paced => LastWord
  BY DEF Paced, LastWord
<1>4. QED BY <1>1, <1>2, <1>3, PTL DEF Spec

-----------------------------------------------------------------------------
(* The log of port changes.                                                *)

LogTypes ==
  /\ port_queued_msgs \in [Log!Slots -> Nat]
  /\ xio_msg_idx \in Log!Slots
  /\ xio_msg_sent \in Log!Slots
  /\ xio_index_overflow \in 0 .. 255
  /\ port_logging \in BOOLEAN
  /\ xio_msg_lock \in Pushers \cup {Reader, Free}
  /\ willPush \in SUBSET Pushers
  /\ offAt \in {"none", "idx", "sent", "flag"}
  /\ got \in Nat /\ pushed \in Nat /\ offs \in Nat
  /\ overrun \in BOOLEAN

\* The slots filled in the writers' round: a push under way has filled its own.
Written == xio_msg_idx + (IF xio_msg_lock \in Pushers THEN 1 ELSE 0)

\* The number of the message in slot 0 of the reader's round is base + 1. Where the
\* reader is:
At(base) ==
  /\ base % XIO_MAX_MSGS = 0
  /\ base = 0 \/ xio_msg_sent >= 1
  /\ IF xio_msg_lock = Reader THEN got = base + xio_msg_sent + 1
                              ELSE Log!Upcoming(got) = base + xio_msg_sent + 1

\* the writers in the same round,
LogSameRound(base) ==
  /\ xio_index_overflow = 0
  /\ xio_msg_sent <= xio_msg_idx \/ (xio_msg_sent = 1 /\ xio_msg_idx = 0)
  /\ xio_msg_lock = Reader => xio_msg_sent < xio_msg_idx
  /\ pushed = base + Written
  /\ \A i \in Log!Slots :
       xio_msg_sent <= i /\ i < Written => port_queued_msgs[i] = base + i + 1

\* or one round ahead.
LogRoundAhead(base) ==
  /\ xio_index_overflow = 1
  /\ Written <= xio_msg_sent
  /\ pushed = base + XIO_MAX_MSGS + Written
  /\ \A i \in Log!Slots :
       /\ xio_msg_sent <= i => port_queued_msgs[i] = base + i + 1
       /\ i < Written => port_queued_msgs[i] = base + XIO_MAX_MSGS + i + 1

LogPhase(base) == At(base) /\ (LogSameRound(base) \/ LogRoundAhead(base))

LogInv ==
  /\ LogTypes
  /\ offs = 0 => offAt = "none"
  /\ Log!Regular => \E base \in Nat : LogPhase(base)

LEMMA LogFacts ==
  /\ XIO_MAX_MSGS \in Nat /\ XIO_MAX_MSGS >= 2
  /\ Log!Last = XIO_MAX_MSGS - 1
  /\ \A i : i \in Log!Slots <=> i \in Int /\ 0 <= i /\ i <= XIO_MAX_MSGS - 1
  /\ 0 \in Log!Slots /\ 1 \in Log!Slots
  /\ Reader \notin Pushers /\ Free \notin Pushers /\ Reader # Free
  BY PortsAssumption, SMT DEF Log!ConstantsOK, Log!Slots, Log!Last

LEMMA LogBytes ==
  /\ \A x \in Int : x % 256 \in 0 .. 255
  /\ (0 + 1) % 256 = 1 /\ (1 - 1) % 256 = 0
<1>1. ASSUME NEW x \in Int PROVE x % 256 \in 0 .. 255
  OBVIOUS
<1>2. (0 + 1) % 256 = 1 /\ (1 - 1) % 256 = 0
  OBVIOUS
<1> QED
  BY <1>1, <1>2

\* The slots of a round.
LEMMA LogRound ==
  ASSUME NEW base \in Nat, base % XIO_MAX_MSGS = 0, NEW i \in 0 .. XIO_MAX_MSGS - 1
  PROVE  /\ (base + i) % XIO_MAX_MSGS = i
         /\ (base + XIO_MAX_MSGS) % XIO_MAX_MSGS = 0
         /\ base + XIO_MAX_MSGS \in Nat
<1> DEFINE d == XIO_MAX_MSGS
           q == base \div d
<1>1. d \in Nat \ {0} /\ base % d = 0 /\ i \in 0 .. d - 1
  BY LogFacts
<1> HIDE DEF d
<1>2. q \in Nat /\ base = d * q
  BY <1>1
<1> HIDE DEF q
<1>3. ASSUME NEW n \in Nat, NEW k \in Nat, NEW r \in 0 .. d - 1, n = d * k + r
      PROVE  n % d = r
  BY <1>1, <1>3
<1>4. (base + i) % d = i
  <2>1. base + i = d * q + i /\ base + i \in Nat
    BY <1>1, <1>2
  <2> QED
    BY <1>1, <1>2, <1>3, <2>1, Zenon
<1>5. (base + d) % d = 0 /\ base + d \in Nat
  <2>1. base + d = d * (q + 1) + 0 /\ base + d \in Nat /\ 0 \in 0 .. d - 1 /\ q + 1 \in Nat
    BY <1>1, <1>2
  <2> QED
    BY <1>3, <2>1, Zenon
<1> QED
  BY <1>4, <1>5 DEF d

LEMMA SlotOfNext == \A n \in Nat : Log!SlotOf(n + 1) = n % XIO_MAX_MSGS
<1> SUFFICES ASSUME NEW m \in Nat PROVE Log!SlotOf(m + 1) = m % XIO_MAX_MSGS
  OBVIOUS
<1>1. (m + 1) - 1 = m
  OBVIOUS
<1>2. Log!SlotOf(m + 1) = ((m + 1) - 1) % XIO_MAX_MSGS
  BY DEF Log!SlotOf
<1> QED
  BY <1>1, <1>2, Zenon

\* The message whose turn comes after the one in slot i.
LEMMA UpcomingInRound ==
  ASSUME NEW base \in Nat, base % XIO_MAX_MSGS = 0, NEW i \in Log!Slots
  PROVE  /\ i < XIO_MAX_MSGS - 1 => Log!Upcoming(base + i + 1) = base + i + 2
         /\ i = XIO_MAX_MSGS - 1 => Log!Upcoming(base + i + 1) = base + XIO_MAX_MSGS + 2
         /\ i >= 1 \/ base = 0 => Log!HasTurn(base + i + 1)
<1>1. ASSUME NEW j \in 0 .. XIO_MAX_MSGS - 1
      PROVE  (base + j) % XIO_MAX_MSGS = j /\ (base + XIO_MAX_MSGS) % XIO_MAX_MSGS = 0
  BY LogRound
<1>2. ASSUME i < XIO_MAX_MSGS - 1
      PROVE  Log!Upcoming(base + i + 1) = base + i + 2
  <2>1. (base + (i + 1)) % XIO_MAX_MSGS = i + 1
    <3>1. i + 1 \in 0 .. XIO_MAX_MSGS - 1
      BY <1>2, LogFacts
    <3> QED
      BY <1>1, <3>1, Zenon
  <2>2. base + (i + 1) = base + i + 1 /\ base + i + 1 \in Nat
    BY LogFacts
  <2>3. Log!SlotOf(base + i + 1 + 1) = i + 1
    BY <2>1, <2>2, SlotOfNext, Zenon
  <2>4. i + 1 # 0 /\ base + i + 1 + 1 = base + i + 2
    BY LogFacts
  <2> QED
    BY <2>3, <2>4, Zenon DEF Log!Upcoming, Log!HasTurn
<1>3. ASSUME i = XIO_MAX_MSGS - 1
      PROVE  Log!Upcoming(base + i + 1) = base + XIO_MAX_MSGS + 2
  <2>1. base + i + 1 = base + XIO_MAX_MSGS /\ base + i + 1 \in Nat
    BY <1>3, LogFacts
  <2>2. Log!SlotOf(base + i + 1 + 1) = 0
    <3>1. 0 \in 0 .. XIO_MAX_MSGS - 1
      BY LogFacts
    <3> QED
      BY <1>1, <2>1, <3>1, SlotOfNext, Zenon
  <2>3. base + i + 1 + 1 # 1 /\ base + i + 1 + 2 = base + XIO_MAX_MSGS + 2
    BY <1>3, LogFacts
  <2> QED
    BY <2>2, <2>3, Zenon DEF Log!Upcoming, Log!HasTurn
<1>4. i >= 1 \/ base = 0 => Log!HasTurn(base + i + 1)
  <2>1. Log!SlotOf(base + i + 1) = i
    <3>1. base + i \in Nat /\ i \in 0 .. XIO_MAX_MSGS - 1
      BY LogFacts
    <3> QED
      BY <1>1, <3>1, SlotOfNext, Zenon
  <2> QED
    BY <2>1, LogFacts DEF Log!HasTurn
<1> QED
  BY <1>2, <1>3, <1>4

LEMMA UpcomingLater == \A n \in Nat : Log!Upcoming(n) \in Nat /\ Log!Upcoming(n) > n
  BY DEF Log!Upcoming

LEMMA LogTypesStep == LogTypes /\ [Log!Next]_(Log!vars) => LogTypes'
<1> SUFFICES ASSUME LogTypes, [Log!Next]_(Log!vars) PROVE LogTypes'
  OBVIOUS
<1>1. ASSUME NEW p \in Pushers, Log!get_logging(p) PROVE LogTypes'
  BY <1>1 DEF LogTypes, Log!get_logging, Log!indices, Log!history
<1>2. ASSUME NEW p \in Pushers, Log!xio_push_begin(p) PROVE LogTypes'
  <2>1. pushed' \in Nat /\ pushed + 1 \in Nat
    BY <1>2 DEF LogTypes, Log!xio_push_begin
  <2>2. port_queued_msgs' \in [Log!Slots -> Nat]
    BY <1>2, <2>1 DEF LogTypes, Log!xio_push_begin
  <2>3. overrun' \in BOOLEAN
    BY <1>2, Zenon DEF LogTypes, Log!xio_push_begin
  <2> QED
    BY <1>2, <2>1, <2>2, <2>3 DEF LogTypes, Log!xio_push_begin, Log!indices
<1>3. ASSUME NEW p \in Pushers, Log!xio_push_end(p) PROVE LogTypes'
  <2>1. xio_msg_idx' \in Log!Slots /\ xio_index_overflow' \in 0 .. 255
    BY <1>3, LogFacts, LogBytes DEF LogTypes, Log!xio_push_end
  <2> QED
    BY <1>3, <2>1 DEF LogTypes, Log!xio_push_end, Log!history
<1>4. CASE Log!get_next_begin
  BY <1>4 DEF LogTypes, Log!get_next_begin, Log!indices
<1>5. CASE Log!get_next_end
  <2>1. xio_msg_sent' \in Log!Slots /\ xio_index_overflow' \in 0 .. 255
    BY <1>5, LogFacts, LogBytes DEF LogTypes, Log!get_next_end
  <2> QED
    BY <1>5, <2>1 DEF LogTypes, Log!get_next_end, Log!history
<1>6. CASE Log!set_logging_off
  BY <1>6 DEF LogTypes, Log!set_logging_off
<1>7. CASE Log!reset_idx \/ Log!reset_sent
  BY <1>7, LogFacts DEF LogTypes, Log!reset_idx, Log!reset_sent, Log!history
<1>8. CASE Log!set_logging_flag \/ Log!set_logging_on
  BY <1>8 DEF LogTypes, Log!set_logging_flag, Log!set_logging_on, Log!indices, Log!history
<1>9. CASE UNCHANGED Log!vars
  BY <1>9 DEF LogTypes, Log!vars, Log!indices, Log!history
<1> QED
  BY <1>1, <1>2, <1>3, <1>4, <1>5, <1>6, <1>7, <1>8, <1>9 DEF Log!Next

\* A push that fills its slot keeps the phase or writes over a message awaited.
LEMMA PushBeginPhase ==
  ASSUME LogTypes, NEW p \in Pushers, Log!xio_push_begin(p), ~overrun',
         NEW base \in Nat, LogPhase(base)
  PROVE  LogPhase(base)'
<1>1. /\ xio_msg_lock = Free /\ xio_msg_lock' = p
      /\ port_queued_msgs' = [port_queued_msgs EXCEPT ![xio_msg_idx] = pushed + 1]
      /\ pushed' = pushed + 1
      /\ UNCHANGED <<xio_msg_idx, xio_msg_sent, xio_index_overflow, got>>
  BY DEF Log!xio_push_begin, Log!indices
<1>2. Written = xio_msg_idx /\ Written' = xio_msg_idx + 1
  BY <1>1, LogFacts DEF Written, LogTypes
<1>3. At(base)'
  BY <1>1, LogFacts DEF LogPhase, At
<1>4. /\ xio_msg_idx \in Int /\ 0 <= xio_msg_idx /\ xio_msg_idx <= XIO_MAX_MSGS - 1
      /\ xio_msg_sent \in Int /\ 0 <= xio_msg_sent /\ xio_msg_sent <= XIO_MAX_MSGS - 1
      /\ xio_msg_idx \in Log!Slots /\ xio_msg_sent \in Log!Slots
      /\ got \in Nat
  BY LogFacts DEF LogTypes
<1>5. \A i \in Log!Slots : port_queued_msgs'[i] =
        IF i = xio_msg_idx THEN pushed + 1 ELSE port_queued_msgs[i]
  BY <1>1, <1>4 DEF LogTypes
<1>6. Reader # p
  BY LogFacts
<1>7. CASE LogSameRound(base)
  <2>1. /\ xio_index_overflow = 0 /\ pushed = base + xio_msg_idx
        /\ xio_msg_sent <= xio_msg_idx \/ (xio_msg_sent = 1 /\ xio_msg_idx = 0)
    BY <1>2, <1>7 DEF LogSameRound
  <2>2. ASSUME NEW i \in Log!Slots, xio_msg_sent <= i, i < xio_msg_idx + 1
        PROVE  port_queued_msgs'[i] = base + i + 1
    <3>1. CASE i = xio_msg_idx
      BY <1>5, <2>1, <3>1
    <3>2. CASE i # xio_msg_idx
      <4>1. i < xio_msg_idx
        BY <2>2, <3>2, <1>4, LogFacts
      <4> QED
        BY <1>2, <1>5, <1>7, <2>2, <3>2, <4>1 DEF LogSameRound
    <3> QED
      BY <3>1, <3>2
  <2>3. pushed' = base + Written'
    BY <1>1, <1>2, <1>4, <2>1
  <2> QED
    BY <1>1, <1>2, <1>3, <1>6, <2>1, <2>2, <2>3 DEF LogPhase, LogSameRound
<1>8. CASE LogRoundAhead(base)
  <2>1. /\ xio_index_overflow = 1 /\ pushed = base + XIO_MAX_MSGS + xio_msg_idx
        /\ xio_msg_idx <= xio_msg_sent
    BY <1>2, <1>8 DEF LogRoundAhead
  <2>2. xio_msg_idx # xio_msg_sent
    <3> SUFFICES ASSUME xio_msg_idx = xio_msg_sent PROVE FALSE
      OBVIOUS
    <3>1. port_queued_msgs[xio_msg_idx] = base + xio_msg_sent + 1
      BY <1>4, <1>8 DEF LogRoundAhead
    <3>2. Log!Upcoming(got) = base + xio_msg_sent + 1
      BY <1>1, LogFacts DEF LogPhase, At
    <3>3. base + xio_msg_sent + 1 > got
      BY <1>4, <3>2, UpcomingLater
    <3>4. Log!HasTurn(base + xio_msg_sent + 1)
      BY <1>4, UpcomingInRound DEF LogPhase, At
    <3>5. Log!Awaited(port_queued_msgs[xio_msg_idx])
      BY <3>1, <3>3, <3>4 DEF Log!Awaited
    <3>6. port_queued_msgs[xio_msg_idx] # 0
      BY <1>4, <3>1
    <3> QED
      BY <3>5, <3>6, Zenon DEF Log!xio_push_begin
  <2>3. xio_msg_idx + 1 <= xio_msg_sent
    BY <1>4, <2>1, <2>2
  <2>4. ASSUME NEW i \in Log!Slots
        PROVE  /\ xio_msg_sent <= i => port_queued_msgs'[i] = base + i + 1
               /\ i < xio_msg_idx + 1 => port_queued_msgs'[i] = base + XIO_MAX_MSGS + i + 1
    <3>1. CASE i = xio_msg_idx
      BY <1>4, <1>5, <2>1, <2>3, <3>1
    <3>2. CASE i # xio_msg_idx
      <4>1. i < xio_msg_idx + 1 => i < xio_msg_idx
        BY <3>2, <1>4, LogFacts
      <4> QED
        BY <1>2, <1>5, <1>8, <3>2, <4>1 DEF LogRoundAhead
    <3> QED
      BY <3>1, <3>2
  <2>5. pushed' = base + XIO_MAX_MSGS + Written'
    BY <1>1, <1>2, <1>4, <2>1, LogFacts
  <2> QED
    BY <1>1, <1>2, <1>3, <2>1, <2>3, <2>4, <2>5 DEF LogPhase, LogRoundAhead
<1> QED
  BY <1>7, <1>8 DEF LogPhase

\* The writers step on, into the next round after the last slot.
LEMMA PushEndPhase ==
  ASSUME LogTypes, NEW p \in Pushers, Log!xio_push_end(p),
         NEW base \in Nat, LogPhase(base)
  PROVE  LogPhase(base)'
<1>1. /\ xio_msg_lock = p /\ xio_msg_lock' = Free
      /\ UNCHANGED <<xio_msg_sent, port_queued_msgs, got, pushed>>
  BY DEF Log!xio_push_end, Log!history
<1>2. /\ xio_msg_idx \in Int /\ 0 <= xio_msg_idx /\ xio_msg_idx <= XIO_MAX_MSGS - 1
      /\ xio_msg_sent \in Int /\ 0 <= xio_msg_sent /\ xio_msg_sent <= XIO_MAX_MSGS - 1
  BY LogFacts DEF LogTypes
<1>3. Written = xio_msg_idx + 1 /\ Written' = xio_msg_idx'
  <2>1. xio_msg_idx' \in Int
    BY <1>2, LogFacts DEF Log!xio_push_end
  <2>2. xio_msg_lock \in Pushers /\ ~(xio_msg_lock' \in Pushers)
    BY <1>1, LogFacts
  <2>3. Written = xio_msg_idx + 1 /\ Written' = xio_msg_idx' + 0
    BY <2>2 DEF Written
  <2>4. \A x \in Int : x + 0 = x
    OBVIOUS
  <2> QED
    BY <2>1, <2>3, <2>4, Zenon
<1>4. At(base)'
  <2>1. xio_msg_lock # Reader /\ xio_msg_lock' # Reader
    BY <1>1, LogFacts
  <2> QED
    BY <1>1, <2>1 DEF LogPhase, At, Log!Upcoming
<1>5. xio_msg_lock' # Reader
  BY <1>1, LogFacts
<1>6. CASE xio_msg_idx < XIO_MAX_MSGS - 1
  <2>1. xio_msg_idx' = xio_msg_idx + 1 /\ xio_index_overflow' = xio_index_overflow
    BY <1>2, <1>6, LogFacts DEF Log!xio_push_end
  <2>2. LogSameRound(base) => LogSameRound(base)'
    BY <1>1, <1>2, <1>3, <1>5, <2>1 DEF LogSameRound
  <2>3. LogRoundAhead(base) => LogRoundAhead(base)'
    BY <1>1, <1>2, <1>3, <2>1 DEF LogRoundAhead
  <2> QED
    BY <1>4, <2>2, <2>3 DEF LogPhase
<1>7. CASE xio_msg_idx = XIO_MAX_MSGS - 1
  <2>1. xio_msg_idx' = 0 /\ xio_index_overflow' = (xio_index_overflow + 1) % 256
    BY <1>2, <1>7, LogFacts DEF Log!xio_push_end
  <2>2. ~LogRoundAhead(base)
    BY <1>2, <1>3, <1>7, LogFacts DEF LogRoundAhead
  <2>3. LogSameRound(base)
    BY <2>2 DEF LogPhase
  <2>4. xio_index_overflow' = 1
    BY <2>1, <2>3, LogBytes DEF LogSameRound
  <2>5. pushed' = base + XIO_MAX_MSGS + Written'
    BY <1>1, <1>2, <1>3, <1>7, <2>1, <2>3, LogFacts DEF LogSameRound
  <2>6. ASSUME NEW i \in Log!Slots
        PROVE  /\ xio_msg_sent <= i => port_queued_msgs[i] = base + i + 1
               /\ ~(i < 0)
    <3>1. i < Written /\ ~(i < 0)
      BY <1>3, <1>7, LogFacts
    <3> QED
      BY <2>3, <3>1 DEF LogSameRound
  <2>7. LogRoundAhead(base)'
    BY <1>1, <1>2, <1>3, <2>1, <2>4, <2>5, <2>6 DEF LogRoundAhead
  <2> QED
    BY <1>4, <2>7 DEF LogPhase
<1> QED
  BY <1>2, <1>6, <1>7, LogFacts

\* The reader takes the message whose turn it is.
LEMMA ReadBeginPhase ==
  ASSUME LogTypes, Log!get_next_begin, NEW base \in Nat, LogPhase(base)
  PROVE  LogPhase(base)' /\ got' = Log!Upcoming(got)
<1>1. /\ xio_msg_lock = Free /\ xio_msg_lock' = Reader
      /\ got' = port_queued_msgs[xio_msg_sent]
      /\ xio_msg_sent < xio_msg_idx \/ xio_index_overflow > 0
      /\ UNCHANGED <<xio_msg_idx, xio_msg_sent, xio_index_overflow, port_queued_msgs, pushed>>
  BY DEF Log!get_next_begin, Log!Due, Log!indices
<1>2. /\ xio_msg_idx \in Int /\ xio_msg_sent \in Int /\ xio_msg_sent \in Log!Slots
  BY LogFacts DEF LogTypes
<1>3. Written = xio_msg_idx /\ Written' = xio_msg_idx
  BY <1>1, <1>2, LogFacts DEF Written
<1>4. Log!Upcoming(got) = base + xio_msg_sent + 1
  BY <1>1, LogFacts DEF LogPhase, At
<1>5. CASE LogSameRound(base)
  <2>1. xio_msg_sent < xio_msg_idx
    BY <1>1, <1>5 DEF LogSameRound
  <2>2. got' = base + xio_msg_sent + 1
    BY <1>1, <1>2, <1>3, <1>5, <2>1 DEF LogSameRound
  <2>3. At(base)'
    BY <1>1, <2>2 DEF LogPhase, At
  <2>4. LogSameRound(base)'
    BY <1>1, <1>3, <1>5, <2>1 DEF LogSameRound
  <2> QED
    BY <1>4, <2>2, <2>3, <2>4 DEF LogPhase
<1>6. CASE LogRoundAhead(base)
  <2>1. got' = base + xio_msg_sent + 1
    BY <1>1, <1>2, <1>6 DEF LogRoundAhead
  <2>2. At(base)'
    BY <1>1, <2>1 DEF LogPhase, At
  <2>3. LogRoundAhead(base)'
    BY <1>1, <1>3, <1>6 DEF LogRoundAhead
  <2> QED
    BY <1>4, <2>1, <2>2, <2>3 DEF LogPhase
<1> QED
  BY <1>5, <1>6 DEF LogPhase

\* The reader steps on, after the last slot past slot 0 of the next round.
LEMMA ReadEndPhase ==
  ASSUME LogTypes, Log!get_next_end, NEW base \in Nat, LogPhase(base)
  PROVE  \E b \in Nat : LogPhase(b)'
<1>1. /\ xio_msg_lock = Reader /\ xio_msg_lock' = Free
      /\ UNCHANGED <<xio_msg_idx, port_queued_msgs, got, pushed>>
  BY DEF Log!get_next_end, Log!history
<1>2. /\ xio_msg_idx \in Int /\ 0 <= xio_msg_idx /\ xio_msg_idx <= XIO_MAX_MSGS - 1
      /\ xio_msg_sent \in Int /\ 0 <= xio_msg_sent /\ xio_msg_sent <= XIO_MAX_MSGS - 1
      /\ xio_msg_sent \in Log!Slots
  BY LogFacts DEF LogTypes
<1>3. Written = xio_msg_idx /\ Written' = xio_msg_idx /\ xio_msg_lock' # Reader
  BY <1>1, <1>2, LogFacts DEF Written
<1>4. got = base + xio_msg_sent + 1 /\ base % XIO_MAX_MSGS = 0
  BY <1>1 DEF LogPhase, At
<1>5. CASE xio_msg_sent < XIO_MAX_MSGS - 1
  <2>1. xio_msg_sent' = xio_msg_sent + 1 /\ xio_index_overflow' = xio_index_overflow
    BY <1>2, <1>5, LogFacts DEF Log!get_next_end
  <2>2. Log!Upcoming(got) = base + xio_msg_sent + 2
    BY <1>2, <1>4, <1>5, UpcomingInRound
  <2>3. Log!Upcoming(got)' = base + xio_msg_sent' + 1
    BY <1>1, <1>2, <2>1, <2>2 DEF Log!Upcoming
  <2>4. At(base)'
    BY <1>2, <1>3, <1>4, <2>1, <2>3 DEF At
  <2>5. LogSameRound(base) => LogSameRound(base)'
    BY <1>1, <1>2, <1>3, <2>1, LogFacts DEF LogSameRound
  <2>6. LogRoundAhead(base) => LogRoundAhead(base)'
    BY <1>1, <1>2, <1>3, <2>1, LogFacts DEF LogRoundAhead
  <2> QED
    BY <2>4, <2>5, <2>6 DEF LogPhase
<1>6. CASE xio_msg_sent = XIO_MAX_MSGS - 1
  <2> DEFINE b == base + XIO_MAX_MSGS
  <2>1. xio_msg_sent' = 1 /\ xio_index_overflow' = (xio_index_overflow - 1) % 256
    BY <1>2, <1>6, LogFacts DEF Log!get_next_end
  <2>2. b \in Nat /\ b % XIO_MAX_MSGS = 0
    BY <1>4, LogRound, LogFacts
  <2>3. Log!Upcoming(got) = b + 2
    BY <1>2, <1>4, <1>6, LogFacts, UpcomingInRound
  <2>4. At(b)'
    <3>1. Log!Upcoming(got)' = b + 1 + 1
      BY <1>1, <2>2, <2>3 DEF Log!Upcoming
    <3> QED
      BY <1>3, <2>1, <2>2, <3>1 DEF At
  <2>5. ~LogSameRound(base)
    BY <1>1, <1>2, <1>6, LogFacts DEF LogSameRound
  <2>6. LogRoundAhead(base)
    BY <2>5 DEF LogPhase
  <2>7. xio_index_overflow' = 0
    BY <2>1, <2>6, LogBytes DEF LogRoundAhead
  <2>8. pushed' = b + Written'
    BY <1>1, <1>3, <2>6 DEF LogRoundAhead
  <2>9. \A i \in Log!Slots : i < xio_msg_idx => port_queued_msgs[i] = b + i + 1
    BY <1>3, <2>6 DEF LogRoundAhead
  <2>10. LogSameRound(b)'
    <3>1. xio_msg_sent' <= xio_msg_idx' \/ (xio_msg_sent' = 1 /\ xio_msg_idx' = 0)
      BY <1>1, <1>2, <2>1
    <3> HIDE DEF b
    <3> QED
      BY <1>1, <1>3, <2>1, <2>7, <2>8, <2>9, <3>1 DEF LogSameRound
  <2> HIDE DEF b
  <2> QED
    BY <2>2, <2>4, <2>10 DEF LogPhase
<1> QED
  BY <1>2, <1>5, <1>6, LogFacts

LEMMA InitLog == Log!Init => LogInv
<1> SUFFICES ASSUME Log!Init PROVE LogInv
  OBVIOUS
<1>1. LogTypes
  <2>1. port_queued_msgs \in [Log!Slots -> Nat]
    BY DEF Log!Init
  <2>2. willPush \in SUBSET Pushers /\ xio_msg_lock \in Pushers \cup {Reader, Free}
    BY DEF Log!Init
  <2>3. xio_index_overflow \in 0 .. 255
    BY DEF Log!Init
  <2> QED
    BY <2>1, <2>2, <2>3, LogFacts DEF Log!Init, LogTypes
<1>2. LogPhase(0)
  <2>1. 0 % XIO_MAX_MSGS = 0
    BY LogFacts
  <2>2. Written = 0
    BY LogFacts DEF Log!Init, Written
  <2>3. Log!Upcoming(got) = 1
    BY DEF Log!Init, Log!Upcoming, Log!HasTurn
  <2>4. xio_msg_lock # Reader
    BY LogFacts DEF Log!Init
  <2>5. LogSameRound(0)
    BY <2>2, <2>4, LogFacts DEF Log!Init, LogSameRound
  <2> QED
    BY <2>1, <2>3, <2>4, <2>5 DEF Log!Init, LogPhase, At
<1> QED
  BY <1>1, <1>2 DEF LogInv, Log!Init

\* Reading is by turns, and the phase is kept.
LEMMA LogStep ==
  ASSUME LogInv, [Log!Next]_(Log!vars)
  PROVE  /\ LogInv'
         /\ Log!Regular /\ xio_msg_lock' = Reader /\ xio_msg_lock # Reader
              => got' = Log!Upcoming(got)
<1> USE DEF Log!Regular
<1>0. LogTypes /\ LogTypes'
  BY LogTypesStep DEF LogInv
<1>1. ASSUME NEW p \in Pushers, Log!xio_push_begin(p)
      PROVE  LogInv' /\ xio_msg_lock' # Reader
  <2>1. offs' = offs /\ offAt' = offAt /\ xio_msg_lock' = p
    BY <1>1 DEF Log!xio_push_begin
  <2>2. ~overrun' => ~overrun
    BY <1>1, Zenon DEF Log!xio_push_begin
  <2>3. Log!Regular' => \E base \in Nat : LogPhase(base)'
    BY <1>0, <1>1, <2>1, <2>2, PushBeginPhase DEF LogInv
  <2> QED
    BY <1>0, <2>1, <2>3, LogFacts DEF LogInv
<1>2. ASSUME NEW p \in Pushers, Log!xio_push_end(p)
      PROVE  LogInv' /\ xio_msg_lock' # Reader
  <2>1. offs' = offs /\ offAt' = offAt /\ overrun' = overrun /\ xio_msg_lock' = Free
    BY <1>2 DEF Log!xio_push_end, Log!history
  <2>2. Log!Regular' => \E base \in Nat : LogPhase(base)'
    BY <1>0, <1>2, <2>1, PushEndPhase DEF LogInv
  <2> QED
    BY <1>0, <2>1, <2>2, LogFacts DEF LogInv
<1>3. ASSUME Log!get_next_begin
      PROVE  LogInv' /\ (Log!Regular => got' = Log!Upcoming(got))
  <2>1. offs' = offs /\ offAt' = offAt /\ overrun' = overrun
    BY <1>3 DEF Log!get_next_begin
  <2>2. Log!Regular => got' = Log!Upcoming(got) /\ \E base \in Nat : LogPhase(base)'
    BY <1>0, <1>3, ReadBeginPhase DEF LogInv
  <2> QED
    BY <1>0, <2>1, <2>2 DEF LogInv
<1>4. ASSUME Log!get_next_end
      PROVE  LogInv' /\ xio_msg_lock' # Reader
  <2>1. offs' = offs /\ offAt' = offAt /\ overrun' = overrun /\ xio_msg_lock' = Free
    BY <1>4 DEF Log!get_next_end, Log!history
  <2>2. Log!Regular' => \E base \in Nat : LogPhase(base)'
    BY <1>0, <1>4, <2>1, ReadEndPhase DEF LogInv
  <2> QED
    BY <1>0, <2>1, <2>2, LogFacts DEF LogInv
<1>5. ASSUME Log!set_logging_off \/ Log!reset_idx \/ Log!reset_sent \/ Log!set_logging_flag
      PROVE  LogInv' /\ xio_msg_lock' = xio_msg_lock
  <2>1. offs' # 0 /\ xio_msg_lock' = xio_msg_lock
    BY <1>0, <1>5 DEF LogInv, LogTypes, Log!set_logging_off, Log!reset_idx, Log!reset_sent,
                      Log!set_logging_flag, Log!history
  <2> QED
    BY <1>0, <2>1 DEF LogInv
<1>6. ASSUME UNCHANGED <<port_queued_msgs, xio_msg_idx, xio_msg_sent, xio_index_overflow,
                         xio_msg_lock, offAt, got, pushed, overrun, offs>>
      PROVE  LogInv' /\ xio_msg_lock' = xio_msg_lock
  <2>1. \A base \in Nat : LogPhase(base) => LogPhase(base)'
    BY <1>6 DEF LogPhase, At, LogSameRound, LogRoundAhead, Written, Log!Upcoming
  <2> QED
    BY <1>0, <1>6, <2>1 DEF LogInv
<1>7. CASE UNCHANGED Log!vars
  BY <1>6, <1>7 DEF Log!vars, Log!indices, Log!history
<1>8. CASE Log!set_logging_on \/ \E p \in Pushers : Log!get_logging(p)
  BY <1>6, <1>8 DEF Log!set_logging_on, Log!get_logging, Log!indices, Log!history
<1> QED
  BY <1>1, <1>2, <1>3, <1>4, <1>5, <1>7, <1>8 DEF Log!Next

LEMMA LogInvariant == Log!Spec => []LogInv
<1>1. LogInv /\ [Log!Next]_(Log!vars) => LogInv'
  BY LogStep
<1> QED
  BY <1>1, InitLog, PTL DEF Log!Spec

\* The reader of the log gets the messages in the order they were written, and loses
\* exactly one in every round after the first: the one in slot 0.
THEOREM OneLostPerRoundHolds == Log!Spec => OneLostPerRound
<1> DEFINE A == Log!Regular /\ xio_msg_lock' = Reader /\ xio_msg_lock # Reader
                  => got' = Log!Upcoming(got)
<1>1. LogInv /\ [Log!Next]_(Log!vars) => [A]_(Log!vars)
  BY LogStep
<1>2. OneLostPerRound <=> [][A]_(Log!vars)
  BY DEF OneLostPerRound, Log!OneLostPerRound
<1> HIDE DEF A
<1> QED
  BY <1>1, <1>2, LogInvariant, PTL DEF Log!Spec

-----------------------------------------------------------------------------
(* The words on their way to an expander.                                  *)

Word == SUBSET Pins
Call == [pin : Pins, high : BOOLEAN]

OutputTypes ==
  /\ boot \in Word
  /\ osts \in [Outputs!Slots -> Word]
  /\ sets \in Seq(Call)
  /\ taken \in Nat /\ printed \in Nat
  /\ outputs_overrun \in BOOLEAN

\* Both indices and the counter follow the numbers of calls and of words taken.
Turns ==
  /\ taken <= Len(sets)
  /\ output_timestamp_next = Len(sets) % MAX_INPUT_TIMESTAMP
  /\ output_timestamp_current = taken % MAX_INPUT_TIMESTAMP
  /\ output_timestamp_overflow =
       Len(sets) \div MAX_INPUT_TIMESTAMP - taken \div MAX_INPUT_TIMESTAMP
  /\ ~outputs_overrun => Len(sets) - taken <= MAX_INPUT_TIMESTAMP

\* The first n calls that went through the slot before slot i.
Through(n, i) == {m \in 1 .. n : m % MAX_INPUT_TIMESTAMP = i}

\* After the calls s and with what was found at start-up, b, a word shows for each pin
\* the last of the calls in N, or what was found.
ShowsPin(s, b, word, N, pin) ==
  \/ /\ \A m \in N : s[m].pin # pin
     /\ pin \in word <=> pin \in b
  \/ \E k \in N : /\ s[k].pin = pin
                  /\ \A m \in N : s[m].pin = pin => m <= k
                  /\ pin \in word <=> s[k].high

Shows(s, b, word, N) == \A pin \in Pins : ShowsPin(s, b, word, N, pin)

\* What a slot holds, and what the output task has in hand.
WordsShow == \A i \in Outputs!Slots : 
  Shows(sets, boot, osts[i], Through(Len(sets), Outputs!Stepped(i)))

InHand ==
  /\ data = {} => printed = taken
  /\ data # {} => /\ taken = printed + 1
                  /\ ~outputs_overrun =>
                       \E word \in Word : /\ data = {word}
                                          /\ Shows(sets, boot, word, Outputs!SameSlot(taken))

OutputsInv == OutputTypes /\ Turns /\ WordsShow /\ InHand

LEMMA OutputFacts ==
  /\ MAX_INPUT_TIMESTAMP \in Nat \ {0} /\ MAX_INPUT_TIMESTAMP >= 2
  /\ Outputs!Last = MAX_INPUT_TIMESTAMP - 1
  /\ Outputs!Slots = 0 .. MAX_INPUT_TIMESTAMP - 1
  BY PortsAssumption, SMT DEF Outputs!ConstantsOK, Outputs!Slots, Outputs!Last

\* Stepping an index follows the division.
LEMMA SteppedSlot ==
  ASSUME NEW n \in Nat
  PROVE  /\ n % MAX_INPUT_TIMESTAMP \in Outputs!Slots
         /\ (n + 1) % MAX_INPUT_TIMESTAMP = Outputs!Stepped(n % MAX_INPUT_TIMESTAMP)
         /\ n \div MAX_INPUT_TIMESTAMP \in Nat
         /\ (n + 1) \div MAX_INPUT_TIMESTAMP =
              n \div MAX_INPUT_TIMESTAMP + Outputs!Wrapped(n % MAX_INPUT_TIMESTAMP)
<1> DEFINE d == MAX_INPUT_TIMESTAMP
           r == n % d
           q == n \div d
<1>1. d \in Nat \ {0}
  BY OutputFacts
<1>2. /\ r \in 0 .. d - 1 /\ q \in Nat
      /\ r < d - 1 => (n + 1) % d = r + 1 /\ (n + 1) \div d = q
      /\ r >= d - 1 => (n + 1) % d = 0 /\ (n + 1) \div d = q + 1
  <2> HIDE DEF d
  <2> QED
    BY <1>1, NextDivision, Zenon
<1>3. Outputs!Last = d - 1 /\ Outputs!Slots = 0 .. d - 1
  BY OutputFacts
<1>4. /\ r \in Outputs!Slots /\ q \in Nat
      /\ (n + 1) % d = Outputs!Stepped(r)
      /\ (n + 1) \div d = q + Outputs!Wrapped(r)
  <2> HIDE DEF r, q, d
  <2> QED
    BY <1>1, <1>2, <1>3, SMT DEF Outputs!Stepped, Outputs!Wrapped
<1> QED
  BY <1>4

LEMMA SteppedInjective ==
  \A i, j \in Outputs!Slots : Outputs!Stepped(i) = Outputs!Stepped(j) => i = j
  BY OutputFacts, SMT DEF Outputs!Stepped

\* Less than a round apart, two numbers go to different slots.
LEMMA RoundApart ==
  ASSUME NEW d \in Nat \ {0}, NEW a \in Nat, NEW m \in Nat, a < m, m < a + d
  PROVE  m % d # a % d
<1> DEFINE p == a \div d
           q == m \div d
           r == a % d
<1>1. p \in Nat /\ q \in Nat /\ r \in 0 .. d - 1 /\ a = d * p + r
  OBVIOUS
<1>2. m = d * q + (m % d)
  OBVIOUS
<1> SUFFICES ASSUME m % d = r PROVE FALSE
  OBVIOUS
<1>3. m = d * q + r
  BY <1>2
<1> HIDE DEF p, q, r
<1>4. m - a = d * (q - p)
  BY <1>1, <1>3
<1>5. CASE q <= p
  <2>1. d * (q - p) <= 0
    BY <1>1, <1>5
  <2> QED
    BY <1>4, <2>1
<1>6. CASE q > p
  <2>1. d * (q - p) >= d
    BY <1>1, <1>6
  <2> QED
    BY <1>4, <2>1
<1> QED
  BY <1>1, <1>5, <1>6

LEMMA ThroughCurrent ==
  ASSUME NEW n \in Nat, NEW t \in Nat, t + 1 <= n, n - t <= MAX_INPUT_TIMESTAMP
  PROVE  Through(n, (t + 1) % MAX_INPUT_TIMESTAMP) = Outputs!SameSlot(t + 1)
<1>1. ASSUME NEW m \in 1 .. n, m % MAX_INPUT_TIMESTAMP = (t + 1) % MAX_INPUT_TIMESTAMP
      PROVE  m \in 1 .. t + 1
  <2> SUFFICES ASSUME m > t + 1 PROVE FALSE
    OBVIOUS
  <2>1. m \in Nat /\ t + 1 \in Nat /\ t + 1 < m /\ m < (t + 1) + MAX_INPUT_TIMESTAMP
    BY OutputFacts
  <2>2. m % MAX_INPUT_TIMESTAMP # (t + 1) % MAX_INPUT_TIMESTAMP
    BY <2>1, RoundApart, OutputFacts, Zenon
  <2> QED
    BY <1>1, <2>2
<1>2. \A m \in 1 .. t + 1 : m \in 1 .. n
  OBVIOUS
<1> QED
  BY <1>1, <1>2, Zenon DEF Through, Outputs!SameSlot

\* What a word shows is the level of each pin after the calls.
LEMMA ShownLevels ==
  ASSUME NEW word \in Word, NEW N \in SUBSET Nat, Shows(sets, boot, word, N)
  PROVE  word = {pin \in Pins : Outputs!LevelAfter(N, pin)}
<1>1. ASSUME NEW pin \in Pins
      PROVE  pin \in word <=> Outputs!LevelAfter(N, pin)
  <2> DEFINE ofPin == {n \in N : sets[n].pin = pin}
  <2>1. Outputs!LevelAfter(N, pin) = IF ofPin = {} THEN pin \in boot ELSE sets[Max(ofPin)].high
    BY DEF Outputs!LevelAfter, Outputs!Max, Max
  <2>2. ShowsPin(sets, boot, word, N, pin)
    BY DEF Shows
  <2>3. CASE \A m \in N : sets[m].pin # pin
    <3>1. ofPin = {}
      BY <2>3
    <3>2. pin \in word <=> pin \in boot
      BY <2>2, <2>3 DEF ShowsPin
    <3> QED
      BY <2>1, <3>1, <3>2
  <2>4. ASSUME NEW k \in N, sets[k].pin = pin, \A m \in N : sets[m].pin = pin => m <= k,
               pin \in word <=> sets[k].high
        PROVE  pin \in word <=> Outputs!LevelAfter(N, pin)
    <3>1. k \in ofPin /\ \A m \in ofPin : k >= m
      BY <2>4
    <3>2. \A x \in ofPin : (\A m \in ofPin : x >= m) => x = k
      BY <3>1
    <3> HIDE DEF ofPin
    <3>3. Max(ofPin) = k
      BY <3>1, <3>2 DEF Max
    <3>4. ofPin # {}
      BY <3>1
    <3> QED
      BY <2>1, <2>4, <3>3, <3>4
  <2> QED
    BY <2>2, <2>3, <2>4 DEF ShowsPin
<1> QED
  BY <1>1 DEF Word

\* Calls made later change nothing of what N shows,
LEMMA ShowsOn ==
  ASSUME NEW s \in Seq(Call), NEW call \in Call, NEW b, NEW word,
         NEW N \in SUBSET (1 .. Len(s)), Shows(s, b, word, N)
  PROVE  Shows(Append(s, call), b, word, N)
<1>1. \A m \in N : Append(s, call)[m] = s[m]
  OBVIOUS
<1>2. ASSUME NEW pin \in Pins PROVE ShowsPin(Append(s, call), b, word, N, pin)
  <2>1. ShowsPin(s, b, word, N, pin)
    BY DEF Shows
  <2> QED
    BY <1>1, <2>1, Zenon DEF ShowsPin
<1> QED
  BY <1>2 DEF Shows

\* and a call of the slot shows the pin it sets.
LEMMA ShowsCall ==
  ASSUME NEW s \in Seq(Call), NEW p \in Pins, NEW high \in BOOLEAN, NEW b,
         NEW word \in Word, NEW N \in SUBSET (1 .. Len(s)), Shows(s, b, word, N)
  PROVE  Shows(Append(s, [pin |-> p, high |-> high]), b, Outputs!WithPin(word, p, high),
               N \cup {Len(s) + 1})
<1> DEFINE w == Outputs!WithPin(word, p, high)
           n == Len(s) + 1
           M == N \cup {n}
           t == Append(s, [pin |-> p, high |-> high])
<1>1. /\ \A m \in N : t[m] = s[m] /\ m \in Nat /\ m < n
      /\ t[n].pin = p /\ t[n].high = high
      /\ n \in Nat
  BY DEF Call
<1>2. \A q \in Pins : q \in w <=> IF q = p THEN high ELSE q \in word
  BY DEF Outputs!WithPin
<1> HIDE DEF w, n, t
<1>3. ASSUME NEW q \in Pins
      PROVE  ShowsPin(t, b, w, M, q)
  <2>1. CASE q = p
    <3>1. n \in M /\ t[n].pin = q /\ (q \in w <=> t[n].high)
      BY <1>1, <1>2, <2>1
    <3>2. \A m \in M : m <= n
      BY <1>1
    <3> QED
      BY <3>1, <3>2 DEF ShowsPin
  <2>2. CASE q # p
    <3>1. ShowsPin(s, b, word, N, q)
      BY DEF Shows
    <3>2. t[n].pin # q /\ (q \in w <=> q \in word)
      BY <1>1, <1>2, <2>2
    <3>3. CASE \A m \in N : s[m].pin # q
      <4>1. q \in word <=> q \in b
        BY <3>1, <3>3 DEF ShowsPin
      <4>2. \A m \in M : t[m].pin # q
        BY <1>1, <3>2, <3>3
      <4> QED
        BY <3>2, <4>1, <4>2 DEF ShowsPin
    <3>4. ASSUME NEW k \in N, s[k].pin = q, \A m \in N : s[m].pin = q => m <= k,
                 q \in word <=> s[k].high
          PROVE  ShowsPin(t, b, w, M, q)
      <4>1. k \in M /\ t[k].pin = q /\ (q \in w <=> t[k].high)
        BY <1>1, <3>2, <3>4
      <4>2. \A m \in M : t[m].pin = q => m <= k
        BY <1>1, <3>2, <3>4
      <4> QED
        BY <4>1, <4>2 DEF ShowsPin
    <3> QED
      BY <3>1, <3>3, <3>4 DEF ShowsPin
  <2> QED
    BY <2>1, <2>2
<1> QED
  BY <1>3 DEF Shows, w, n, t

LEMMA ThroughNext ==
  ASSUME NEW n \in Nat, NEW i \in Outputs!Slots
  PROVE  Through(n + 1, i) = IF (n + 1) % MAX_INPUT_TIMESTAMP = i THEN Through(n, i) \cup {n + 1}
                                                                  ELSE Through(n, i)
<1>1. 1 .. n + 1 = (1 .. n) \cup {n + 1}
  OBVIOUS
<1> QED
  BY <1>1, Zenon DEF Through

LEMMA ThroughInterval ==
  /\ \A n, i : Through(n, i) \in SUBSET (1 .. n)
  /\ \A n \in Nat : Outputs!SameSlot(n) \in SUBSET (1 .. n)
  BY DEF Through, Outputs!SameSlot

LEMMA InitOutputs == Outputs!Init => OutputsInv
<1> SUFFICES ASSUME Outputs!Init PROVE OutputsInv
  OBVIOUS
<1>1. /\ boot \in Word /\ osts = [i \in Outputs!Slots |-> boot] /\ sets = <<>> /\ taken = 0
      /\ printed = 0 /\ outputs_overrun = FALSE /\ data = {}
      /\ output_timestamp_next = 0 /\ output_timestamp_current = 0
      /\ output_timestamp_overflow = 0 /\ Len(sets) = 0
  BY DEF Outputs!Init, Word
<1>2. OutputTypes
  <2>1. sets \in Seq(Call)
    <3> HIDE DEF Call
    <3> QED
      BY <1>1
  <2>2. osts \in [Outputs!Slots -> Word] /\ outputs_overrun \in BOOLEAN
    BY <1>1
  <2> QED
    BY <1>1, <2>1, <2>2 DEF OutputTypes
<1>3. Turns
  <2>1. 0 % MAX_INPUT_TIMESTAMP = 0 /\ 0 \div MAX_INPUT_TIMESTAMP = 0
    BY OutputFacts
  <2> QED
    BY <1>1, <2>1, OutputFacts DEF Turns
<1>4. WordsShow
  <2>1. \A i : Through(Len(sets), i) = {}
    BY <1>1 DEF Through
  <2> QED
    BY <1>1, <2>1 DEF WordsShow, Shows, ShowsPin
<1>5. InHand
  BY <1>1 DEF InHand
<1> QED
  BY <1>2, <1>3, <1>4, <1>5 DEF OutputsInv

LEMMA SetOutputs ==
  ASSUME OutputsInv, NEW pin \in Pins, NEW high \in BOOLEAN, Outputs!pin_xio_set(pin, high)
  PROVE  OutputsInv'
<1> DEFINE n == Len(sets)
           d == MAX_INPUT_TIMESTAMP
           call == [pin |-> pin, high |-> high]
<1>1. /\ osts' = [osts EXCEPT ![output_timestamp_next] = Outputs!WithPin(@, pin, high)]
      /\ output_timestamp_next' = Outputs!Stepped(output_timestamp_next)
      /\ output_timestamp_overflow' = output_timestamp_overflow + Outputs!Wrapped(output_timestamp_next)
      /\ sets' = Append(sets, call)
      /\ UNCHANGED <<output_timestamp_current, data, device, boot, taken, printed>>
  BY DEF Outputs!pin_xio_set
<1>2. OutputTypes /\ Turns /\ WordsShow /\ InHand
  BY DEF OutputsInv
<1>3. /\ n \in Nat /\ Len(sets') = n + 1 /\ call \in Call /\ sets' \in Seq(Call)
      /\ taken \in Nat /\ printed \in Nat
  BY <1>1, <1>2 DEF OutputTypes, Call
<1>4. /\ output_timestamp_next = n % d /\ n % d \in Outputs!Slots
      /\ (n + 1) % d = Outputs!Stepped(n % d)
      /\ n \div d \in Nat /\ taken \div d \in Nat
      /\ (n + 1) \div d = n \div d + Outputs!Wrapped(n % d)
  BY <1>2, <1>3, SteppedSlot DEF Turns
<1>5. outputs_overrun' \in BOOLEAN /\ (~outputs_overrun' => ~outputs_overrun /\ n - taken < d)
  <2>1. outputs_overrun' = (outputs_overrun \/ n - taken >= d)
    BY DEF Outputs!pin_xio_set
  <2>2. outputs_overrun \in BOOLEAN
    BY <1>2 DEF OutputTypes
  <2>3. n - taken >= d \/ n - taken < d
    BY <1>3, OutputFacts
  <2> HIDE DEF n, d
  <2> QED
    BY <2>1, <2>2, <2>3, Zenon
<1>6. OutputTypes'
  <2>1. osts[output_timestamp_next] \in Word
    BY <1>2, <1>4 DEF OutputTypes
  <2>2. Outputs!WithPin(osts[output_timestamp_next], pin, high) \in Word
    BY <2>1 DEF Outputs!WithPin, Word
  <2>3. osts' \in [Outputs!Slots -> Word]
    BY <1>1, <1>2, <2>2 DEF OutputTypes
  <2> QED
    BY <1>1, <1>2, <1>3, <1>5, <2>3 DEF OutputTypes
<1>7. Turns'
  <2>1. taken <= n + 1 /\ (n - taken < d => n + 1 - taken <= d)
    BY <1>2, <1>3, OutputFacts DEF Turns
  <2>2. output_timestamp_overflow' = (n + 1) \div d - taken \div d
    <3>1. output_timestamp_overflow = n \div d - taken \div d
      BY <1>2 DEF Turns
    <3>2. Outputs!Wrapped(n % d) \in Int
      BY DEF Outputs!Wrapped
    <3> DEFINE a == n \div d
               b == taken \div d
               c == Outputs!Wrapped(n % d)
    <3>3. /\ output_timestamp_overflow' = (a - b) + c /\ (n + 1) \div d = a + c
          /\ a \in Int /\ b \in Int /\ c \in Int
      BY <1>1, <1>4, <3>1, <3>2
    <3>4. output_timestamp_overflow' = (a + c) - b
      <4> HIDE DEF a, b, c
      <4> QED
        BY <3>3
    <3> QED
      BY <3>3, <3>4
  <2>3. output_timestamp_next' = (n + 1) % d
    BY <1>1, <1>4
  <2>4. output_timestamp_current' = taken' % d /\ taken' = taken
    BY <1>1, <1>2 DEF Turns
  <2> HIDE DEF n, d
  <2> QED
    BY <1>3, <1>5, <2>1, <2>2, <2>3, <2>4 DEF Turns, n, d
<1>8. WordsShow'
  <2>1. ASSUME NEW i \in Outputs!Slots
        PROVE  Shows(sets', boot', osts'[i], Through(n + 1, Outputs!Stepped(i)))
    <3> DEFINE j == Outputs!Stepped(i)
               N == Through(n, j)
    <3>1. Shows(sets, boot, osts[i], N) /\ sets \in Seq(Call)
      BY <1>2 DEF WordsShow, OutputTypes
    <3>2. j \in Outputs!Slots
      BY OutputFacts, SMT DEF Outputs!Stepped
    <3>3. N \in SUBSET (1 .. n)
      BY ThroughInterval
    <3>4. Through(n + 1, j) = IF (n + 1) % d = j THEN N \cup {n + 1} ELSE N
      BY <1>3, <3>2, ThroughNext
    <3>5. osts[i] \in Word
      BY <1>2 DEF OutputTypes
    <3>6. CASE i = n % d
      <4>1. osts'[i] = Outputs!WithPin(osts[i], pin, high)
        BY <1>1, <1>2, <1>4, <3>6 DEF OutputTypes
      <4>2. Through(n + 1, j) = N \cup {n + 1}
        BY <1>4, <3>4, <3>6
      <4>3. Shows(Append(sets, call), boot, Outputs!WithPin(osts[i], pin, high), N \cup {n + 1})
        <5> HIDE DEF N
        <5> QED
          BY <3>1, <3>3, <3>5, ShowsCall
      <4> QED
        BY <1>1, <4>1, <4>2, <4>3
    <3>7. CASE i # n % d
      <4>1. osts'[i] = osts[i]
        BY <1>1, <1>2, <1>4, <3>7 DEF OutputTypes
      <4>2. Through(n + 1, j) = N
        BY <1>4, <3>4, <3>7, SteppedInjective
      <4>3. Shows(Append(sets, call), boot, osts[i], N)
        <5> HIDE DEF N, call
        <5> QED
          BY <1>3, <3>1, <3>3, ShowsOn
      <4> QED
        BY <1>1, <4>1, <4>2, <4>3
    <3> QED
      BY <3>6, <3>7
  <2> QED
    BY <1>3, <2>1 DEF WordsShow
<1>9. InHand'
  <2>1. data = {} => printed' = taken'
    BY <1>1, <1>2 DEF InHand
  <2>2. ASSUME data # {}, ~outputs_overrun'
        PROVE  \E word \in Word : /\ data = {word}
                                  /\ Shows(sets', boot', word, Outputs!SameSlot(taken))
    <3>1. PICK word \in Word : /\ data = {word}
                               /\ Shows(sets, boot, word, Outputs!SameSlot(taken))
      BY <1>2, <1>5, <2>2 DEF InHand
    <3>2. Outputs!SameSlot(taken) \in SUBSET (1 .. n)
      BY <1>2, <1>3 DEF Outputs!SameSlot, Turns
    <3>3. sets \in Seq(Call)
      BY <1>2 DEF OutputTypes
    <3>4. Shows(Append(sets, call), boot, word, Outputs!SameSlot(taken))
      <4> HIDE DEF call
      <4> QED
        BY <1>3, <3>1, <3>2, <3>3, ShowsOn
    <3> QED
      BY <1>1, <3>1, <3>4
  <2>3. data # {} => taken = printed + 1
    BY <1>2 DEF InHand
  <2>4. Outputs!SameSlot(taken)' = Outputs!SameSlot(taken)
    BY <1>1 DEF Outputs!SameSlot
  <2> QED
    BY <1>1, <2>1, <2>2, <2>3, <2>4 DEF InHand
<1> QED
  BY <1>6, <1>7, <1>8, <1>9 DEF OutputsInv

LEMMA TakeOutputs == OutputsInv /\ Outputs!pin_out_take => OutputsInv'
<1> SUFFICES ASSUME OutputsInv, Outputs!pin_out_take PROVE OutputsInv'
  OBVIOUS
<1> DEFINE n == Len(sets)
           d == MAX_INPUT_TIMESTAMP
<1>1. /\ data = {} /\ Outputs!Pending
      /\ data' = {osts[output_timestamp_current]}
      /\ output_timestamp_current' = Outputs!Stepped(output_timestamp_current)
      /\ output_timestamp_overflow' = output_timestamp_overflow - Outputs!Wrapped(output_timestamp_current)
      /\ taken' = taken + 1
      /\ UNCHANGED <<osts, output_timestamp_next, device, boot, sets, printed, outputs_overrun>>
  BY DEF Outputs!pin_out_take
<1>2. OutputTypes /\ Turns /\ WordsShow /\ InHand
  BY DEF OutputsInv
<1>3. n \in Nat /\ taken \in Nat /\ taken <= n
  BY <1>2 DEF OutputTypes, Turns
<1>4. /\ output_timestamp_current = taken % d /\ taken % d \in Outputs!Slots
      /\ (taken + 1) % d = Outputs!Stepped(taken % d)
      /\ n \div d \in Nat /\ taken \div d \in Nat
      /\ (taken + 1) \div d = taken \div d + Outputs!Wrapped(taken % d)
  BY <1>2, <1>3, SteppedSlot DEF Turns
<1>5. taken + 1 <= n
  <2>1. taken # n
    <3> SUFFICES ASSUME taken = n PROVE FALSE
      OBVIOUS
    <3>1. /\ output_timestamp_next = taken % d /\ output_timestamp_current = taken % d
          /\ output_timestamp_overflow = taken \div d - taken \div d
      BY <1>2 DEF Turns
    <3>2. taken % d \in Int /\ output_timestamp_overflow = 0
      BY <1>3, <1>4, <3>1, OutputFacts
    <3> HIDE DEF d
    <3> QED
      BY <1>1, <3>1, <3>2 DEF Outputs!Pending
  <2> QED
    BY <1>3, <2>1
<1>6. OutputTypes'
  BY <1>1, <1>2 DEF OutputTypes
<1>7. Turns'
  <2>1. output_timestamp_overflow' = n \div d - (taken + 1) \div d
    <3>1. output_timestamp_overflow = n \div d - taken \div d
      BY <1>2 DEF Turns
    <3>2. Outputs!Wrapped(taken % d) \in Int
      BY DEF Outputs!Wrapped
    <3> DEFINE a == n \div d
               b == taken \div d
               c == Outputs!Wrapped(taken % d)
    <3>3. /\ output_timestamp_overflow' = (a - b) - c /\ (taken + 1) \div d = b + c
          /\ a \in Int /\ b \in Int /\ c \in Int
      BY <1>1, <1>4, <3>1, <3>2
    <3>4. output_timestamp_overflow' = a - (b + c)
      <4> HIDE DEF a, b, c
      <4> QED
        BY <3>3
    <3> QED
      BY <3>3, <3>4
  <2>2. output_timestamp_current' = (taken + 1) % d
    BY <1>1, <1>4
  <2>3. ~outputs_overrun => n - (taken + 1) <= d
    BY <1>2, <1>3, OutputFacts DEF Turns
  <2>4. output_timestamp_next' = n % d
    BY <1>1, <1>2 DEF Turns
  <2> HIDE DEF d
  <2> QED
    BY <1>1, <1>5, <2>1, <2>2, <2>3, <2>4 DEF Turns, d
<1>8. WordsShow'
  BY <1>1, <1>2 DEF WordsShow
<1>9. InHand'
  <2>1. taken + 1 = printed' + 1 /\ data' # {}
    BY <1>1, <1>2 DEF InHand
  <2>2. ASSUME ~outputs_overrun
        PROVE  Shows(sets, boot, osts[taken % d], Outputs!SameSlot(taken + 1))
    <3>1. Through(n, (taken + 1) % d) = Outputs!SameSlot(taken + 1)
      BY <1>2, <1>3, <1>5, <2>2, ThroughCurrent DEF Turns
    <3>2. Shows(sets, boot, osts[taken % d], Through(n, Outputs!Stepped(taken % d)))
      BY <1>2, <1>4 DEF WordsShow
    <3> QED
      BY <1>4, <3>1, <3>2
  <2>3. osts[taken % d] \in Word
    BY <1>2, <1>4 DEF OutputTypes
  <2>4. Outputs!SameSlot(taken)' = Outputs!SameSlot(taken + 1)
    BY <1>1 DEF Outputs!SameSlot
  <2> QED
    BY <1>1, <1>4, <2>1, <2>2, <2>3, <2>4 DEF InHand
<1> QED
  BY <1>6, <1>7, <1>8, <1>9 DEF OutputsInv

\* A write shows the word in hand.
LEMMA WriteOutputs ==
  ASSUME OutputsInv, Outputs!pin_out_write
  PROVE  /\ OutputsInv'
         /\ ~outputs_overrun /\ ~failed' =>
              device' = {pin \in Pins : Outputs!LevelAfter(Outputs!SameSlot(printed'), pin)}
<1>1. /\ data # {} /\ data' = {} /\ printed' = printed + 1
      /\ ~failed' => device' \in data
      /\ UNCHANGED <<osts, output_timestamp_next, output_timestamp_current,
                     output_timestamp_overflow, boot, sets, taken, outputs_overrun>>
  BY DEF Outputs!pin_out_write, Outputs!ring
<1>2. OutputTypes /\ Turns /\ WordsShow /\ InHand
  BY DEF OutputsInv
<1>3. printed' = taken
  BY <1>1, <1>2 DEF InHand
<1>4. OutputsInv'
  <2>1. OutputTypes'
    BY <1>1, <1>2 DEF OutputTypes
  <2>2. Turns' /\ WordsShow'
    BY <1>1, <1>2 DEF Turns, WordsShow
  <2>3. InHand'
    BY <1>1, <1>3 DEF InHand
  <2> QED
    BY <2>1, <2>2, <2>3 DEF OutputsInv
<1>5. ASSUME ~outputs_overrun, ~failed'
      PROVE  device' = {pin \in Pins : Outputs!LevelAfter(Outputs!SameSlot(taken), pin)}
  <2>1. PICK word \in Word : data = {word} /\ Shows(sets, boot, word, Outputs!SameSlot(taken))
    BY <1>1, <1>2, <1>5 DEF InHand
  <2>2. device' = word
    BY <1>1, <1>5, <2>1
  <2>3. Outputs!SameSlot(taken) \in SUBSET Nat
    BY DEF Outputs!SameSlot
  <2> QED
    BY <2>1, <2>2, <2>3, ShownLevels
<1> QED
  BY <1>3, <1>4, <1>5

LEMMA OutputsStep ==
  ASSUME OutputsInv, [Outputs!Next]_(Outputs!vars)
  PROVE  /\ OutputsInv'
         /\ printed' # printed /\ ~outputs_overrun /\ ~failed' =>
              device' = {pin \in Pins : Outputs!LevelAfter(Outputs!SameSlot(printed'), pin)}
<1>1. ASSUME NEW pin \in Pins, NEW high \in BOOLEAN, Outputs!pin_xio_set(pin, high)
      PROVE  OutputsInv' /\ printed' = printed
  BY <1>1, SetOutputs DEF Outputs!pin_xio_set
<1>2. ASSUME Outputs!pin_out_take PROVE OutputsInv' /\ printed' = printed
  BY <1>2, TakeOutputs DEF Outputs!pin_out_take
<1>3. CASE Outputs!pin_out_write
  BY <1>3, WriteOutputs
<1>4. ASSUME UNCHANGED Outputs!vars PROVE OutputsInv' /\ printed' = printed
  <2>1. /\ UNCHANGED <<osts, output_timestamp_next, output_timestamp_current,
                       output_timestamp_overflow, data, boot, sets, taken, printed,
                       outputs_overrun>>
    BY <1>4 DEF Outputs!vars, Outputs!ring
  <2> QED
    BY <2>1 DEF OutputsInv, OutputTypes, Turns, WordsShow, InHand, Outputs!SameSlot
<1> QED
  BY <1>1, <1>2, <1>3, <1>4 DEF Outputs!Next

LEMMA OutputsInvariant == Outputs!Spec => []OutputsInv
<1>1. OutputsInv /\ [Outputs!Next]_(Outputs!vars) => OutputsInv'
  BY OutputsStep
<1> QED
  BY <1>1, InitOutputs, PTL DEF Outputs!Spec

\* What a write shows: the level just set for its pin, and for every other pin the level
\* it was last given in the same slot, rounds ago.
THEOREM SlotMemoryHolds == Outputs!Spec => SlotMemory
<1> DEFINE A == printed' # printed /\ ~outputs_overrun /\ ~failed' =>
                  device' = {pin \in Pins : Outputs!LevelAfter(Outputs!SameSlot(printed'), pin)}
<1>1. OutputsInv /\ [Outputs!Next]_(Outputs!vars) => [A]_(Outputs!vars)
  BY OutputsStep
<1>2. SlotMemory <=> [][A]_(Outputs!vars)
  BY DEF SlotMemory, Outputs!SlotMemory
<1> HIDE DEF A
<1> QED
  BY <1>1, <1>2, OutputsInvariant, PTL DEF Outputs!Spec

-----------------------------------------------------------------------------
(* The inputs.                                                             *)

Age(b, i, p) == pin_xio_status[b][i][p].age

\* How many samples of the buffer being filled are there.
Sampled == IF inAt = "sample" THEN input_timestamp_place ELSE Inputs!K

InputTypes ==
  /\ level \in [Ports -> BOOLEAN]
  /\ pin_xio_status \in [{0, 1} -> [Inputs!Indices -> [Ports ->
                            [level : BOOLEAN, age : 0 .. Inputs!Old]]]]
  /\ ping_pong_idx \in {0, 1}
  /\ input_timestamp_place \in Inputs!Indices
  /\ inAt \in {"sample", "refresh", "swap"}
  /\ last_idx \in [Ports -> Inputs!Indices]
  /\ seen \in [Ports -> 0 .. Inputs!Old]
  /\ pin_evt_events \in [1 .. Waiters -> SUBSET Inputs!Waits]
  /\ evtAt \in (1 .. Waiters) \X (Inputs!Indices \cup {-1})
  /\ filled \in BOOLEAN

\* Both buffers are in the order they were sampled, without a gap between them.
SamplesInOrder ==
  /\ inAt # "sample" => input_timestamp_place = 0
  /\ ~filled => ping_pong_idx = 0
  /\ \A i \in Inputs!Indices, p \in Ports :
       /\ i < Sampled => Age(ping_pong_idx, i, p) = Sampled - 1 - i
       /\ Age(1 - ping_pong_idx, i, p) =
            IF filled THEN Inputs!K - 1 - i + Sampled ELSE Inputs!Old

\* From where the next look at a port begins no sample is older than the one found last,
Followed ==
  \A p \in Ports : \A i \in Inputs!Indices :
    last_idx[p] <= i => Age(1 - ping_pong_idx, i, p) <= seen[p]

\* and a look under way has come past that place.
LookOn ==
  /\ \A w \in 1 .. Waiters : \A x, y \in pin_evt_events[w] : x = y
  /\ Inputs!Scanning =>
       /\ pin_evt_events[evtAt[1]] # {}
       /\ \A x \in pin_evt_events[evtAt[1]] : last_idx[x.port] <= evtAt[2]

InputsInv == InputTypes /\ SamplesInOrder /\ Followed /\ LookOn

LEMMA IndexFacts ==
  /\ Inputs!K \in Nat /\ Inputs!K >= 1 /\ Inputs!Old = 2 * Inputs!K
  /\ Waiters \in Nat /\ Waiters >= 1
  /\ \A i : i \in Inputs!Indices <=> i \in Int /\ 0 <= i /\ i <= Inputs!K - 1
  /\ 0 \in Inputs!Indices
  BY PortsAssumption, SMT DEF Inputs!ConstantsOK, Inputs!K, Inputs!Old, Inputs!Indices

LEMMA InitInputs == Inputs!Init => InputsInv
<1> SUFFICES ASSUME Inputs!Init PROVE InputsInv
  OBVIOUS
<1>1. InputTypes
  <2>1. pin_xio_status \in [{0, 1} -> [Inputs!Indices -> [Ports ->
                              [level : BOOLEAN, age : 0 .. Inputs!Old]]]]
    <3>1. [level |-> FALSE, age |-> Inputs!Old] \in [level : BOOLEAN, age : 0 .. Inputs!Old]
      BY IndexFacts, SMT
    <3> QED
      BY <3>1 DEF Inputs!Init
  <2>2. evtAt \in (1 .. Waiters) \X (Inputs!Indices \cup {-1})
    <3>1. evtAt = <<1, -1>> /\ 1 \in 1 .. Waiters
      BY IndexFacts, SMT DEF Inputs!Init, Inputs!NotLooking
    <3> QED
      BY <3>1
  <2>3. /\ last_idx \in [Ports -> Inputs!Indices]
        /\ seen \in [Ports -> 0 .. Inputs!Old]
        /\ pin_evt_events \in [1 .. Waiters -> SUBSET Inputs!Waits]
    BY IndexFacts, SMT DEF Inputs!Init
  <2> QED
    BY <2>1, <2>2, <2>3, IndexFacts DEF Inputs!Init, InputTypes
<1>2. SamplesInOrder
  <2>1. Sampled = 0
    BY DEF Inputs!Init, Sampled
  <2>2. \A i \in Inputs!Indices, p \in Ports : Age(1, i, p) = Inputs!Old
    BY DEF Inputs!Init, Age
  <2> QED
    BY <2>1, <2>2, IndexFacts, SMT DEF Inputs!Init, SamplesInOrder
<1>3. Followed
  <2>1. \A i \in Inputs!Indices, p \in Ports : Age(1, i, p) = Inputs!Old
    BY DEF Inputs!Init, Age
  <2> QED
    BY <2>1, IndexFacts, SMT DEF Inputs!Init, Followed
<1>4. LookOn
  BY DEF Inputs!Init, LookOn, Inputs!Scanning, Inputs!NotLooking
<1> QED
  BY <1>1, <1>2, <1>3, <1>4 DEF InputsInv


\* What the other steps leave alone.
InputsRest ==
  /\ UNCHANGED <<pin_xio_status, ping_pong_idx, input_timestamp_place, filled>>
  /\ Sampled' = Sampled

LEMMA RestSamples == SamplesInOrder /\ InputsRest /\ (inAt' # "sample" => inAt # "sample") => SamplesInOrder'
<1> SUFFICES ASSUME SamplesInOrder, InputsRest, inAt' # "sample" => inAt # "sample" PROVE SamplesInOrder'
  OBVIOUS
<1>1. \A b, i, p : Age(b, i, p)' = Age(b, i, p)
  BY DEF InputsRest, Age
<1> QED
  BY <1>1 DEF InputsRest, SamplesInOrder

LEMMA RestFollowed ==
  Followed /\ InputsRest /\ UNCHANGED <<last_idx, seen>> => Followed'
<1> SUFFICES ASSUME Followed, InputsRest, UNCHANGED <<last_idx, seen>> PROVE Followed'
  OBVIOUS
<1>1. \A b, i, p : Age(b, i, p)' = Age(b, i, p)
  BY DEF InputsRest, Age
<1> QED
  BY <1>1 DEF InputsRest, Followed

\* Steps that touch neither the buffers nor a look.
Aside ==
  /\ UNCHANGED <<pin_xio_status, ping_pong_idx, input_timestamp_place, filled, inAt, last_idx,
                 seen, pin_evt_events, evtAt>>
  /\ level' \in [Ports -> BOOLEAN]

LEMMA AsideKeeps == InputsInv /\ Aside => InputsInv'
<1> SUFFICES ASSUME InputsInv, Aside PROVE InputsInv'
  OBVIOUS
<1>1. InputsRest
  BY DEF Aside, InputsRest, Sampled
<1>2. InputTypes'
  BY DEF Aside, InputsInv, InputTypes
<1>3. SamplesInOrder' /\ Followed'
  BY <1>1, RestSamples, RestFollowed DEF Aside, InputsInv
<1>4. LookOn'
  BY DEF Aside, InputsInv, LookOn, Inputs!Scanning
<1> QED
  BY <1>2, <1>3, <1>4 DEF InputsInv

LEMMA AsideSteps ==
  ASSUME InputTypes,
         \/ \E p \in Ports : Inputs!Flip(p)
         \/ Inputs!port_get_refresh \/ Inputs!port_refresh_untaken \/ Inputs!port_unset_refresh
  PROVE  Aside
<1>1. ASSUME NEW p \in Ports, Inputs!Flip(p) PROVE Aside
  BY <1>1 DEF InputTypes, Inputs!Flip, Inputs!samples, Inputs!marks, Aside
<1>2. CASE Inputs!port_get_refresh
  BY <1>2 DEF InputTypes, Inputs!port_get_refresh, Inputs!samples, Inputs!marks, Aside
<1>3. CASE Inputs!port_refresh_untaken
  BY <1>3 DEF InputTypes, Inputs!port_refresh_untaken, Inputs!samples, Inputs!marks, Aside
<1>4. CASE Inputs!port_unset_refresh
  BY <1>4 DEF InputTypes, Inputs!port_unset_refresh, Inputs!samples, Inputs!marks, Aside
<1> QED
  BY <1>1, <1>2, <1>3, <1>4

LEMMA PushInputs ==
  ASSUME InputsInv, NEW w \in 1 .. Waiters, NEW wait \in Inputs!Waits,
         Inputs!pin_evt_push(w, wait)
  PROVE  InputsInv'
<1>1. /\ pin_evt_events[w] = {}
      /\ pin_evt_events' = [pin_evt_events EXCEPT ![w] = {wait}]
      /\ UNCHANGED <<level, pin_xio_status, ping_pong_idx, input_timestamp_place, filled, inAt,
                     last_idx, seen, evtAt>>
  BY DEF Inputs!pin_evt_push, Inputs!samples, Inputs!marks
<1>2. InputsRest
  BY <1>1 DEF InputsRest, Sampled
<1>3. InputTypes'
  BY <1>1 DEF InputsInv, InputTypes
<1>4. SamplesInOrder' /\ Followed'
  BY <1>1, <1>2, RestSamples, RestFollowed DEF InputsInv
<1>5. LookOn'
  <2>1. \A v \in 1 .. Waiters : pin_evt_events'[v] = IF v = w THEN {wait} ELSE pin_evt_events[v]
    BY <1>1 DEF InputsInv, InputTypes
  <2>2. evtAt[1] \in 1 .. Waiters
    BY DEF InputsInv, InputTypes
  <2>3. \A v \in 1 .. Waiters : \A x, y \in pin_evt_events'[v] : x = y
    BY <2>1 DEF InputsInv, LookOn
  <2>4. Inputs!Scanning => evtAt[1] # w
    BY <1>1 DEF InputsInv, LookOn
  <2>5. Inputs!Scanning' => Inputs!Scanning
    BY <1>1 DEF Inputs!Scanning
  <2> QED
    BY <1>1, <2>1, <2>2, <2>3, <2>4, <2>5 DEF InputsInv, LookOn
<1> QED
  BY <1>3, <1>4, <1>5 DEF InputsInv

\* A sample of all ports: every other one is a sample older.
LEMMA UpdateInputs == InputsInv /\ Inputs!pin_in_update => InputsInv'
<1> SUFFICES ASSUME InputsInv, Inputs!pin_in_update PROVE InputsInv'
  OBVIOUS
<1>1. /\ inAt = "sample"
      /\ seen' = [p \in Ports |-> Inputs!Aged(seen[p])]
      /\ input_timestamp_place' = Inputs!NextPlace(input_timestamp_place)
      /\ inAt' = IF input_timestamp_place = Inputs!K - 1 THEN "refresh" ELSE "sample"
      /\ UNCHANGED <<level, ping_pong_idx, filled, last_idx, pin_evt_events, evtAt>>
  BY DEF Inputs!pin_in_update, Inputs!marks
<1>2. ASSUME NEW b \in {0, 1}, NEW i \in Inputs!Indices, NEW p \in Ports
      PROVE  /\ Age(b, i, p) \in 0 .. Inputs!Old
             /\ Age(b, i, p)' = IF b = ping_pong_idx /\ i = input_timestamp_place
                                  THEN 0 ELSE Inputs!Aged(Age(b, i, p))
  <2>1. pin_xio_status[b][i][p] \in [level : BOOLEAN, age : 0 .. Inputs!Old]
    BY DEF InputsInv, InputTypes
  <2>2. pin_xio_status'[b][i][p] =
          IF b = ping_pong_idx /\ i = input_timestamp_place
            THEN [level |-> level[p], age |-> 0]
            ELSE [pin_xio_status[b][i][p] EXCEPT !.age = Inputs!Aged(@)]
    BY DEF Inputs!pin_in_update
  <2> QED
    BY <2>1, <2>2 DEF Age
<1>3. \A a \in 0 .. Inputs!Old : Inputs!Aged(a) \in 0 .. Inputs!Old
  BY IndexFacts, SMT DEF Inputs!Aged
<1>4. InputTypes'
  <2>1. pin_xio_status' \in [{0, 1} -> [Inputs!Indices -> [Ports ->
                               [level : BOOLEAN, age : 0 .. Inputs!Old]]]]
    <3> DEFINE S(b, i, p) == IF b = ping_pong_idx /\ i = input_timestamp_place
                               THEN [level |-> level[p], age |-> 0]
                               ELSE [pin_xio_status[b][i][p] EXCEPT !.age = Inputs!Aged(@)]
    <3>1. ASSUME NEW b \in {0, 1}, NEW i \in Inputs!Indices, NEW p \in Ports
          PROVE  S(b, i, p) \in [level : BOOLEAN, age : 0 .. Inputs!Old]
      <4>1. pin_xio_status[b][i][p] \in [level : BOOLEAN, age : 0 .. Inputs!Old]
        BY DEF InputsInv, InputTypes
      <4>2. level[p] \in BOOLEAN /\ 0 \in 0 .. Inputs!Old
        BY IndexFacts, SMT DEF InputsInv, InputTypes
      <4> QED
        BY <4>1, <4>2, <1>3
    <3>2. pin_xio_status' = [b \in {0, 1} |-> [i \in Inputs!Indices |-> [p \in Ports |-> S(b, i, p)]]]
      BY DEF Inputs!pin_in_update
    <3> HIDE DEF S
    <3> QED
      BY <3>1, <3>2
  <2>2. seen' \in [Ports -> 0 .. Inputs!Old]
    BY <1>1, <1>3 DEF InputsInv, InputTypes
  <2>3. input_timestamp_place' \in Inputs!Indices
    <3>1. input_timestamp_place \in Inputs!Indices
      BY DEF InputsInv, InputTypes
    <3> QED
      BY <1>1, <3>1, IndexFacts, SMT DEF Inputs!NextPlace
  <2> QED
    BY <1>1, <2>1, <2>2, <2>3 DEF InputsInv, InputTypes
<1>5. /\ Sampled = input_timestamp_place /\ Sampled' = Sampled + 1
      /\ Sampled \in Inputs!Indices
      /\ inAt' # "sample" => input_timestamp_place' = 0
  BY <1>1, IndexFacts, SMT DEF InputsInv, InputTypes, Inputs!NextPlace, Sampled
<1>6. ping_pong_idx \in {0, 1} /\ 1 - ping_pong_idx \in {0, 1} /\ 1 - ping_pong_idx # ping_pong_idx
  BY SMT DEF InputsInv, InputTypes
<1>7. SamplesInOrder'
  <2>1. ASSUME NEW i \in Inputs!Indices, NEW p \in Ports
        PROVE  /\ i < Sampled' => Age(ping_pong_idx, i, p)' = Sampled' - 1 - i
               /\ Age(1 - ping_pong_idx, i, p)' =
                    IF filled THEN Inputs!K - 1 - i + Sampled' ELSE Inputs!Old
    <3>1. /\ i < Sampled => Age(ping_pong_idx, i, p) = Sampled - 1 - i
          /\ Age(1 - ping_pong_idx, i, p) =
               IF filled THEN Inputs!K - 1 - i + Sampled ELSE Inputs!Old
      BY DEF InputsInv, SamplesInOrder
    <3>2. /\ Age(ping_pong_idx, i, p)' = IF i = Sampled THEN 0
                                           ELSE Inputs!Aged(Age(ping_pong_idx, i, p))
          /\ Age(1 - ping_pong_idx, i, p)' = Inputs!Aged(Age(1 - ping_pong_idx, i, p))
          /\ Age(ping_pong_idx, i, p) \in 0 .. Inputs!Old
      BY <1>1, <1>2, <1>5, <1>6
    <3> DEFINE a == Age(ping_pong_idx, i, p)
               c == Age(1 - ping_pong_idx, i, p)
    <3>3. /\ i < Sampled + 1 => a' = Sampled - i
          /\ c' = IF filled THEN Inputs!K - i + Sampled ELSE Inputs!Old
      <4> HIDE DEF a, c
      <4> QED
        BY <3>1, <3>2, <1>5, IndexFacts, SMT DEF Inputs!Aged, a, c
    <3> QED
      BY <3>3, <1>5, IndexFacts, SMT
  <2> QED
    BY <1>1, <1>5, <2>1 DEF InputsInv, SamplesInOrder
<1>8. Followed'
  <2>1. ASSUME NEW p \in Ports, NEW i \in Inputs!Indices, last_idx[p] <= i
        PROVE  Age(1 - ping_pong_idx, i, p)' <= seen'[p]
    <3>1. /\ Age(1 - ping_pong_idx, i, p) <= seen[p]
          /\ Age(1 - ping_pong_idx, i, p) \in 0 .. Inputs!Old
          /\ seen[p] \in 0 .. Inputs!Old
          /\ Age(1 - ping_pong_idx, i, p)' = Inputs!Aged(Age(1 - ping_pong_idx, i, p))
          /\ seen'[p] = Inputs!Aged(seen[p])
      BY <1>1, <1>2, <1>6, <2>1 DEF InputsInv, Followed, InputTypes
    <3>2. \A a, c \in 0 .. Inputs!Old : a <= c => Inputs!Aged(a) <= Inputs!Aged(c)
      BY IndexFacts, SMT DEF Inputs!Aged
    <3> QED
      BY <3>1, <3>2
  <2> QED
    BY <2>1, <1>1 DEF Followed
<1>9. LookOn'
  BY <1>1 DEF InputsInv, LookOn, Inputs!Scanning
<1> QED
  BY <1>4, <1>7, <1>8, <1>9 DEF InputsInv

\* The swap: what was filled last is read, and younger than what was read before.
LEMMA ToggleInputs == InputsInv /\ Inputs!toggle_ping_pong => InputsInv'
<1> SUFFICES ASSUME InputsInv, Inputs!toggle_ping_pong PROVE InputsInv'
  OBVIOUS
<1>1. /\ inAt = "swap" /\ inAt' = "sample" /\ filled' = TRUE
      /\ ping_pong_idx' = 1 - ping_pong_idx
      /\ UNCHANGED <<level, pin_xio_status, input_timestamp_place, last_idx, seen,
                     pin_evt_events, evtAt>>
  BY DEF Inputs!toggle_ping_pong, Inputs!marks
<1>2. ping_pong_idx \in {0, 1} /\ ping_pong_idx' \in {0, 1} /\ 1 - ping_pong_idx' = ping_pong_idx
  BY <1>1, SMT DEF InputsInv, InputTypes
<1>3. Sampled = Inputs!K /\ Sampled' = 0 /\ input_timestamp_place' = 0
  BY <1>1 DEF Sampled, InputsInv, SamplesInOrder
<1>4. ASSUME NEW i \in Inputs!Indices, NEW p \in Ports
      PROVE  /\ Age(1 - ping_pong_idx, i, p)' = Inputs!K - 1 - i
             /\ Inputs!K - 1 - i <= Age(1 - ping_pong_idx, i, p)
  <2>1. Age(1 - ping_pong_idx, i, p)' = Age(ping_pong_idx, i, p)
    BY <1>1, <1>2 DEF Age
  <2>2. /\ i < Sampled => Age(ping_pong_idx, i, p) = Sampled - 1 - i
        /\ Age(1 - ping_pong_idx, i, p) =
             IF filled THEN Inputs!K - 1 - i + Sampled ELSE Inputs!Old
    BY DEF InputsInv, SamplesInOrder
  <2> QED
    BY <2>1, <2>2, <1>3, IndexFacts, SMT
<1>5. InputTypes'
  BY <1>1, <1>2 DEF InputsInv, InputTypes
<1>6. SamplesInOrder'
  <2>1. ASSUME NEW i \in Inputs!Indices, NEW p \in Ports
        PROVE  /\ ~(i < Sampled')
               /\ Age(1 - ping_pong_idx, i, p)' = Inputs!K - 1 - i + Sampled'
    BY <1>3, <1>4, IndexFacts, SMT
  <2> QED
    BY <1>1, <1>3, <2>1 DEF SamplesInOrder
<1>7. Followed'
  <2>1. ASSUME NEW p \in Ports, NEW i \in Inputs!Indices, last_idx[p] <= i
        PROVE  Age(1 - ping_pong_idx, i, p)' <= seen[p]
    <3>1. /\ Age(1 - ping_pong_idx, i, p) <= seen[p]
          /\ seen[p] \in Int
          /\ Age(1 - ping_pong_idx, i, p) \in Int
      <4>1. 1 - ping_pong_idx \in {0, 1}
        BY <1>2, SMT
      <4> QED
        BY <4>1, <2>1 DEF InputsInv, Followed, InputTypes, Age
    <3> QED
      BY <3>1, <1>4, IndexFacts, SMT
  <2> QED
    BY <2>1, <1>1 DEF Followed
<1>8. LookOn'
  BY <1>1 DEF InputsInv, LookOn, Inputs!Scanning
<1> QED
  BY <1>5, <1>6, <1>7, <1>8 DEF InputsInv

LEMMA SetRefreshInputs == InputsInv /\ Inputs!port_set_refresh => InputsInv'
<1> SUFFICES ASSUME InputsInv, Inputs!port_set_refresh PROVE InputsInv'
  OBVIOUS
<1>1. /\ inAt = "refresh" /\ inAt' = "swap"
      /\ UNCHANGED <<level, pin_xio_status, ping_pong_idx, input_timestamp_place, filled,
                     last_idx, seen, pin_evt_events, evtAt>>
  BY DEF Inputs!port_set_refresh, Inputs!marks
<1>2. InputsRest
  BY <1>1 DEF InputsRest, Sampled
<1>3. InputTypes'
  BY <1>1 DEF InputsInv, InputTypes
<1>4. SamplesInOrder' /\ Followed'
  BY <1>1, <1>2, RestSamples, RestFollowed DEF InputsInv
<1>5. LookOn'
  BY <1>1 DEF InputsInv, LookOn, Inputs!Scanning
<1> QED
  BY <1>3, <1>4, <1>5 DEF InputsInv

LEMMA RefreshInputs == InputsInv /\ Inputs!port_refresh => InputsInv'
<1> SUFFICES ASSUME InputsInv, Inputs!port_refresh PROVE InputsInv'
  OBVIOUS
<1>1. /\ ~Inputs!Scanning
      /\ last_idx' = [p \in Ports |-> 0] /\ seen' = [p \in Ports |-> Inputs!Old]
      /\ UNCHANGED <<level, pin_xio_status, ping_pong_idx, input_timestamp_place, filled, inAt,
                     pin_evt_events, evtAt>>
  BY DEF Inputs!port_refresh, Inputs!samples
<1>2. InputsRest
  BY <1>1 DEF InputsRest, Sampled
<1>3. InputTypes'
  <2>1. /\ last_idx' \in [Ports -> Inputs!Indices]
        /\ seen' \in [Ports -> 0 .. Inputs!Old]
    BY <1>1, IndexFacts, SMT
  <2> QED
    BY <1>1, <2>1 DEF InputsInv, InputTypes
<1>4. SamplesInOrder'
  BY <1>1, <1>2, RestSamples DEF InputsInv
<1>5. Followed'
  <2>1. ASSUME NEW p \in Ports, NEW i \in Inputs!Indices
        PROVE  Age(1 - ping_pong_idx, i, p)' <= seen'[p]
    <3>1. 1 - ping_pong_idx \in {0, 1}
      BY SMT DEF InputsInv, InputTypes
    <3>2. Age(1 - ping_pong_idx, i, p)' \in 0 .. Inputs!Old
      BY <1>1, <3>1 DEF InputsInv, InputTypes, Age
    <3> QED
      BY <1>1, <3>2, IndexFacts, SMT
  <2> QED
    BY <2>1, <1>1 DEF Followed
<1>6. LookOn'
  BY <1>1 DEF InputsInv, LookOn, Inputs!Scanning
<1> QED
  BY <1>3, <1>4, <1>5, <1>6 DEF InputsInv

\* Steps of the event task that find nothing.
LEMMA LookInputs ==
  ASSUME InputsInv, Inputs!pin_evt_pass \/ Inputs!port_look_begin \/ Inputs!port_look_on
  PROVE  InputsInv'
<1>1. UNCHANGED <<level, pin_xio_status, ping_pong_idx, input_timestamp_place, filled, inAt,
                  last_idx, seen, pin_evt_events>>
  BY DEF Inputs!pin_evt_pass, Inputs!port_look_begin, Inputs!port_look_on, Inputs!samples,
         Inputs!marks
<1>2. InputsRest
  BY <1>1 DEF InputsRest, Sampled
<1>3. SamplesInOrder' /\ Followed'
  BY <1>1, <1>2, RestSamples, RestFollowed DEF InputsInv
<1>4. /\ evtAt[1] \in 1 .. Waiters /\ evtAt[2] \in Inputs!Indices \cup {-1}
      /\ evtAt = <<evtAt[1], evtAt[2]>>
  BY DEF InputsInv, InputTypes
<1>5. Inputs!NextEvent \in (1 .. Waiters) \X {-1} /\ Inputs!NextEvent[2] = -1
  BY <1>4, IndexFacts, SMT DEF Inputs!NextEvent, Inputs!NotLooking
<1>6. CASE evtAt' = Inputs!NextEvent
  BY <1>1, <1>3, <1>5, <1>6 DEF InputsInv, InputTypes, LookOn, Inputs!Scanning, Inputs!NotLooking
<1>7. CASE Inputs!port_look_begin
  <2>1. PICK x \in pin_evt_events[evtAt[1]] : evtAt' = <<evtAt[1], last_idx[x.port]>>
    BY <1>7 DEF Inputs!port_look_begin
  <2>2. x \in Inputs!Waits /\ x.port \in Ports
    BY <1>4, <2>1 DEF InputsInv, InputTypes, Inputs!Waits
  <2>3. last_idx[x.port] \in Inputs!Indices
    BY <2>2 DEF InputsInv, InputTypes
  <2>4. InputTypes'
    BY <1>1, <1>4, <2>1, <2>3 DEF InputsInv, InputTypes
  <2>5. \A y \in pin_evt_events[evtAt[1]] : y = x
    BY <1>4, <2>1 DEF InputsInv, LookOn
  <2>6. last_idx[x.port] <= last_idx[x.port]
    BY <2>3, IndexFacts, SMT
  <2>7. LookOn'
    BY <1>1, <2>1, <2>5, <2>6 DEF InputsInv, LookOn
  <2> QED
    BY <1>3, <2>4, <2>7 DEF InputsInv
<1>8. CASE Inputs!port_look_on /\ evtAt' # Inputs!NextEvent
  <2>1. Inputs!Scanning /\ evtAt[2] # Inputs!K - 1 /\ evtAt' = <<evtAt[1], evtAt[2] + 1>>
    BY <1>8 DEF Inputs!port_look_on
  <2>2. evtAt[2] \in Inputs!Indices /\ evtAt[2] + 1 \in Inputs!Indices
    BY <1>4, <2>1, IndexFacts, SMT DEF Inputs!Scanning, Inputs!NotLooking
  <2>3. InputTypes'
    BY <1>1, <1>4, <2>1, <2>2 DEF InputsInv, InputTypes
  <2>4. LookOn'
    <3>1. ASSUME NEW x \in pin_evt_events[evtAt[1]]
          PROVE  last_idx[x.port] <= evtAt[2] + 1
      <4>1. last_idx[x.port] <= evtAt[2]
        BY <2>1 DEF InputsInv, LookOn
      <4>2. last_idx[x.port] \in Inputs!Indices
        BY <1>4 DEF InputsInv, InputTypes, Inputs!Waits
      <4> QED
        BY <4>1, <4>2, <2>2, IndexFacts, SMT
    <3> QED
      BY <1>1, <2>1, <3>1 DEF InputsInv, LookOn
  <2> QED
    BY <1>3, <2>3, <2>4 DEF InputsInv
<1> QED
  BY <1>6, <1>7, <1>8 DEF Inputs!pin_evt_pass

\* A level is found: what was found, and where the next look at the port begins.
LEMMA FoundInputs ==
  ASSUME InputsInv, Inputs!port_look_found
  PROVE  /\ InputsInv'
         /\ pin_evt_events' = [pin_evt_events EXCEPT ![evtAt[1]] = {}]
         /\ \A x \in pin_evt_events[evtAt[1]] :
              seen'[x.port] <= seen[x.port] /\ (filled => seen'[x.port] < Inputs!Old)
<1>1. PICK x \in pin_evt_events[evtAt[1]] :
        /\ last_idx' = [last_idx EXCEPT ![x.port] = evtAt[2]]
        /\ seen' = [seen EXCEPT ![x.port] = Inputs!Sample(x.port).age]
  BY DEF Inputs!port_look_found
<1>2. /\ Inputs!Scanning
      /\ pin_evt_events' = [pin_evt_events EXCEPT ![evtAt[1]] = {}]
      /\ evtAt' = Inputs!NextEvent
      /\ UNCHANGED <<level, pin_xio_status, ping_pong_idx, input_timestamp_place, filled, inAt>>
  BY DEF Inputs!port_look_found, Inputs!samples
<1>3. /\ evtAt[1] \in 1 .. Waiters /\ evtAt[2] \in Inputs!Indices
      /\ x.port \in Ports
      /\ 1 - ping_pong_idx \in {0, 1}
  <2>1. evtAt[1] \in 1 .. Waiters /\ evtAt[2] \in Inputs!Indices \cup {-1}
    BY DEF InputsInv, InputTypes
  <2>2. 1 - ping_pong_idx \in {0, 1}
    BY SMT DEF InputsInv, InputTypes
  <2> QED
    BY <1>1, <1>2, <2>1, <2>2 DEF InputsInv, InputTypes, Inputs!Waits, Inputs!Scanning,
                                 Inputs!NotLooking
<1>4. /\ Inputs!Sample(x.port).age = Age(1 - ping_pong_idx, evtAt[2], x.port)
      /\ Age(1 - ping_pong_idx, evtAt[2], x.port) \in 0 .. Inputs!Old
  BY <1>3 DEF Inputs!Sample, Inputs!ReadBuffer, Age, InputsInv, InputTypes
<1>5. /\ seen'[x.port] = Age(1 - ping_pong_idx, evtAt[2], x.port)
      /\ last_idx'[x.port] = evtAt[2]
      /\ \A p \in Ports \ {x.port} : seen'[p] = seen[p] /\ last_idx'[p] = last_idx[p]
  BY <1>1, <1>3, <1>4 DEF InputsInv, InputTypes
<1>6. \A y \in pin_evt_events[evtAt[1]] : y = x
  BY <1>1, <1>3 DEF InputsInv, LookOn
<1>7. Inputs!NextEvent \in (1 .. Waiters) \X {-1} /\ Inputs!NextEvent[2] = -1
  BY <1>3, IndexFacts, SMT DEF Inputs!NextEvent, Inputs!NotLooking
<1>8. Sampled' = Sampled /\ Sampled \in 0 .. Inputs!K
  BY <1>2, IndexFacts, SMT DEF Sampled, InputsInv, InputTypes
<1>9. \A i \in Inputs!Indices, p \in Ports :
        Age(1 - ping_pong_idx, i, p) =
          IF filled THEN Inputs!K - 1 - i + Sampled ELSE Inputs!Old
  BY DEF InputsInv, SamplesInOrder
<1>10. InputTypes'
  <2>1. last_idx' \in [Ports -> Inputs!Indices] /\ seen' \in [Ports -> 0 .. Inputs!Old]
    BY <1>1, <1>3, <1>4 DEF InputsInv, InputTypes
  <2>2. pin_evt_events' \in [1 .. Waiters -> SUBSET Inputs!Waits]
    BY <1>2 DEF InputsInv, InputTypes
  <2> QED
    BY <1>2, <1>7, <2>1, <2>2 DEF InputsInv, InputTypes
<1>11. InputsRest
  BY <1>2, <1>8 DEF InputsRest
<1>12. SamplesInOrder'
  BY <1>2, <1>11, RestSamples DEF InputsInv
<1>13. Followed'
  <2>1. ASSUME NEW p \in Ports, NEW i \in Inputs!Indices, last_idx'[p] <= i
        PROVE  Age(1 - ping_pong_idx, i, p) <= seen'[p]
    <3>1. CASE p = x.port
      BY <2>1, <3>1, <1>3, <1>5, <1>8, <1>9, IndexFacts, SMT
    <3>2. CASE p # x.port
      BY <2>1, <3>2, <1>5 DEF InputsInv, Followed
    <3> QED
      BY <3>1, <3>2
  <2>2. \A b, i, p : Age(b, i, p)' = Age(b, i, p)
    BY <1>2 DEF Age
  <2> QED
    BY <1>2, <2>1, <2>2 DEF Followed
<1>14. LookOn'
  <2>1. ~Inputs!Scanning'
    BY <1>2, <1>7 DEF Inputs!Scanning, Inputs!NotLooking
  <2>2. \A w \in 1 .. Waiters : \A y, z \in pin_evt_events'[w] : y = z
    BY <1>2, <1>3 DEF InputsInv, InputTypes, LookOn
  <2> QED
    BY <2>1, <2>2 DEF LookOn
<1>15. seen'[x.port] <= seen[x.port]
  <2>1. last_idx[x.port] <= evtAt[2]
    BY <1>1, <1>2 DEF InputsInv, LookOn
  <2> QED
    BY <2>1, <1>3, <1>5 DEF InputsInv, Followed
<1>16. filled => seen'[x.port] < Inputs!Old
  BY <1>3, <1>5, <1>8, <1>9, IndexFacts, SMT
<1> QED
  BY <1>2, <1>6, <1>10, <1>12, <1>13, <1>14, <1>15, <1>16 DEF InputsInv

LEMMA InputsStep == InputsInv /\ [Inputs!Next]_(Inputs!vars) => InputsInv'
<1> SUFFICES ASSUME InputsInv, [Inputs!Next]_(Inputs!vars) PROVE InputsInv'
  OBVIOUS
<1>1. CASE UNCHANGED Inputs!vars
  BY <1>1, AsideKeeps DEF Inputs!vars, Inputs!samples, Inputs!marks, Aside, InputsInv, InputTypes
<1>2. CASE \/ \E p \in Ports : Inputs!Flip(p)
           \/ Inputs!port_get_refresh \/ Inputs!port_refresh_untaken
           \/ Inputs!port_unset_refresh
  BY <1>2, AsideSteps, AsideKeeps DEF InputsInv
<1>3. CASE \E w \in 1 .. Waiters, wait \in Inputs!Waits : Inputs!pin_evt_push(w, wait)
  BY <1>3, PushInputs
<1>4. CASE Inputs!pin_in
  BY <1>4, UpdateInputs, SetRefreshInputs, ToggleInputs DEF Inputs!pin_in
<1>5. CASE Inputs!pin_evt
  BY <1>5, LookInputs, FoundInputs DEF Inputs!pin_evt
<1>6. CASE Inputs!port_refresh
  BY <1>6, RefreshInputs
<1> QED
  BY <1>1, <1>2, <1>3, <1>4, <1>5, <1>6 DEF Inputs!Next

LEMMA InputsInvariant == Inputs!Spec => []InputsInv
<1>1. Inputs!Init => InputsInv
  BY InitInputs
<1>2. InputsInv /\ [Inputs!Next]_(Inputs!vars) => InputsInv'
  BY InputsStep
<1> QED
  BY <1>1, <1>2, PTL DEF Inputs!Spec

\* A wait ends only when its level was found.
LEMMA EndsFound ==
  ASSUME InputsInv, [Inputs!Next]_(Inputs!vars),
         NEW w \in 1 .. Waiters, pin_evt_events[w] # {}, pin_evt_events'[w] = {}
  PROVE  Inputs!port_look_found /\ w = evtAt[1]
<1>1. pin_evt_events' # pin_evt_events
  OBVIOUS
<1>2. Inputs!port_look_found \/ \E v \in 1 .. Waiters, wait \in Inputs!Waits : Inputs!pin_evt_push(v, wait)
  BY <1>1 DEF Inputs!Next, Inputs!vars, Inputs!Flip, Inputs!pin_in, Inputs!pin_evt,
     Inputs!pin_in_update, Inputs!port_set_refresh, Inputs!toggle_ping_pong,
     Inputs!port_get_refresh, Inputs!port_refresh, Inputs!port_refresh_untaken,
     Inputs!port_unset_refresh, Inputs!pin_evt_pass, Inputs!port_look_begin,
     Inputs!port_look_on
<1>3. ASSUME NEW v \in 1 .. Waiters, NEW wait \in Inputs!Waits, Inputs!pin_evt_push(v, wait)
      PROVE  FALSE
  BY <1>3 DEF Inputs!pin_evt_push, InputsInv, InputTypes
<1>4. Inputs!port_look_found
  BY <1>2, <1>3
<1> QED
  BY <1>4 DEF Inputs!port_look_found, InputsInv, InputTypes

\* A level is found in a sample at most two buffers old, however the swap of the
\* buffers, the answer to the refresh and the look interleave.
THEOREM FreshHolds == Inputs!Spec => Fresh
<1> DEFINE A == \A w \in 1 .. Waiters : \A x \in pin_evt_events[w] :
                  pin_evt_events'[w] = {} /\ filled => seen'[x.port] < Inputs!Old
<1>1. InputsInv /\ [Inputs!Next]_(Inputs!vars) => [A]_(Inputs!vars)
  <2> SUFFICES ASSUME InputsInv, [Inputs!Next]_(Inputs!vars), NEW w \in 1 .. Waiters,
                      NEW x \in pin_evt_events[w], pin_evt_events'[w] = {}, filled
               PROVE  seen'[x.port] < Inputs!Old
    OBVIOUS
  <2>1. Inputs!port_look_found /\ w = evtAt[1]
    BY EndsFound
  <2> QED
    BY <2>1, FoundInputs
<1>2. Fresh <=> [][A]_(Inputs!vars)
  BY DEF Fresh, Inputs!Fresh
<1> HIDE DEF A
<1> QED
  BY <1>1, <1>2, InputsInvariant, PTL DEF Inputs!Spec

\* Between two refreshes the levels found at one port follow each other in time, so
\* that what comes first in a pattern is never found behind what comes later.
THEOREM ForwardHolds == Inputs!Spec => Forward
<1> DEFINE A == \A w \in 1 .. Waiters : \A x \in pin_evt_events[w] :
                  pin_evt_events'[w] = {} => seen'[x.port] <= seen[x.port]
<1>1. InputsInv /\ [Inputs!Next]_(Inputs!vars) => [A]_(Inputs!vars)
  <2> SUFFICES ASSUME InputsInv, [Inputs!Next]_(Inputs!vars), NEW w \in 1 .. Waiters,
                      NEW x \in pin_evt_events[w], pin_evt_events'[w] = {}
               PROVE  seen'[x.port] <= seen[x.port]
    OBVIOUS
  <2>1. Inputs!port_look_found /\ w = evtAt[1]
    BY EndsFound
  <2> QED
    BY <2>1, FoundInputs
<1>2. Forward <=> [][A]_(Inputs!vars)
  BY DEF Forward, Inputs!Forward
<1> HIDE DEF A
<1> QED
  BY <1>1, <1>2, InputsInvariant, PTL DEF Inputs!Spec

-----------------------------------------------------------------------------
(* Side by side.                                                           *)

\* Each behaviour the runs check is one of each of the three modules, with two of
\* them at rest, so that what was proved of a module holds of it.
THEOREM SideBySide ==
  PortsInit /\ [][PortsNext]_portVars => Log!Spec /\ Outputs!Spec /\ Inputs!Spec
<1>1. PortsInit => Log!Init /\ Outputs!Init /\ Inputs!Init
  BY DEF PortsInit
<1>2. UNCHANGED logVars => UNCHANGED Log!vars
  BY DEF logVars, Log!vars, Log!indices, Log!history
<1>3. UNCHANGED outputVars => UNCHANGED Outputs!vars
  BY DEF outputVars, Outputs!vars, Outputs!ring
<1>4. UNCHANGED inputVars => UNCHANGED Inputs!vars
  BY DEF inputVars, Inputs!vars, Inputs!samples, Inputs!marks
<1>5. ASSUME [PortsNext]_portVars
      PROVE  /\ [Log!Next]_(Log!vars)
             /\ [Outputs!Next]_(Outputs!vars)
             /\ [Inputs!Next]_(Inputs!vars)
  <2>1. CASE UNCHANGED portVars
    <3>1. UNCHANGED logVars /\ UNCHANGED outputVars /\ UNCHANGED inputVars
      BY <2>1 DEF portVars
    <3> QED
      BY <3>1, <1>2, <1>3, <1>4
  <2>2. CASE Log!Next /\ UNCHANGED <<outputVars, inputVars>>
    BY <2>2, <1>3, <1>4
  <2>3. CASE Outputs!Next /\ UNCHANGED <<logVars, inputVars>>
    BY <2>3, <1>2, <1>4
  <2>4. CASE Inputs!Next /\ UNCHANGED <<logVars, outputVars>>
    BY <2>4, <1>2, <1>3
  <2> QED
    BY <1>5, <2>1, <2>2, <2>3, <2>4 DEF PortsNext
<1> QED
  BY <1>1, <1>5, PTL DEF Log!Spec, Outputs!Spec, Inputs!Spec

=============================================================================
