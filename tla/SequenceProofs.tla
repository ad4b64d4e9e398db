---------------------------- MODULE SequenceProofs ----------------------------
(***************************************************************************)
(* Proofs about SequenceEngine: for any sequences, patterns and sizes of   *)
(* the rings, with flushes and lock timeouts at any point, a sequence that *)
(* waits has exactly one wait filed for it; before the first flush no wait *)
(* is left that nobody waits for, and, when the event task keeps its pace, *)
(* the outputs of a sequence are set in the order of its pattern.          *)
(***************************************************************************)
EXTENDS SequenceEngine, FiniteSetTheorems, WellFoundedInduction, TLAPS

-----------------------------------------------------------------------------
(* Waits and sequences. S stands for the sequences and R for one of the    *)
(* two rings of waits.                                                     *)

Waits(R) == {k \in DOMAIN R : R[k].status # "INACTIVE"}

\* The wait e was filed by the push that is in its slot, at the step it is at.
Own(S, e) == e.job = S[e.ref].job /\ e.step = S[e.ref].index

\* Waits of kind g: they come from a push so far and from a step reached, and one that
\* is its sequence's own is of the step it stands at; a sequence has one at most.
Sound(S, R, g, p) ==
  /\ \A k \in Waits(R) : R[k].signal.kind = g /\ R[k].job <= p
  /\ \A k \in Waits(R) :
       R[k].job = S[R[k].ref].job => R[k].step <= S[R[k].ref].index
  /\ \A k \in Waits(R) : Own(S, R[k]) =>
       S[R[k].ref].status \in {"PENDING", "INACTIVE"} /\ Current(S[R[k].ref]) = {R[k].signal}
  /\ \A k, l \in Waits(R) :
       R[k].ref = R[l].ref /\ Own(S, R[k]) /\ Own(S, R[l]) => k = l

\* Every wait is its sequence's own, and the sequence waits.
Met(S, R) == \A k \in Waits(R) : Own(S, R[k]) /\ S[R[k].ref].status = "PENDING"

HasOwn(S, R, i) == \E k \in Waits(R) : R[k].ref = i /\ Own(S, R[k])

\* Every sequence that waits has a wait of its own.
Awaited(S, C, I) ==
  \A i \in SeqSlots : S[i].status = "PENDING" => HasOwn(S, C, i) \/ HasOwn(S, I, i)

\* Between two flushes; a flush empties the rings one by one before the sequences.
Unflushed == execAt \in {"off", "run", "repush"}

Paired ==
  /\ Sound(pin_seq_sequences, clk_pit_events, "delay", pushes)
  /\ Sound(pin_seq_sequences, inputs, "get", pushes)
  /\ Unflushed => Awaited(pin_seq_sequences, clk_pit_events, inputs)
  /\ flushes = 0 => Met(pin_seq_sequences, clk_pit_events) /\ Met(pin_seq_sequences, inputs)

\* What is pushed again is an event; an output that waits is of a push.
Pushed ==
  /\ execAt = "repush" => event.name \in EventNames
  /\ ~Unflushed => flushes > 0
  /\ \A i \in SeqSlots : pin_seq_sequences[i].job <= pushes
  /\ \A k \in EvtSlots : outputs[k].status # "INACTIVE" => outputs[k].job \in Jobs

SeqInv == TypeOK /\ Pushed /\ (~lost => Paired)

-----------------------------------------------------------------------------
(* Waits and sequences, one change at a time.                              *)

SameBut(S, T, i) == \A j \in SeqSlots : j # i => T[j] = S[j]

Ring(R) == \A k \in DOMAIN R : R[k] \in Entries

LEMMA EntryFacts ==
  ASSUME NEW e \in Entries
  PROVE  /\ e.ref \in SeqSlots /\ e.job \in Nat /\ e.step \in Nat /\ e.signal \in Signals
         /\ e.status \in {"INACTIVE", "waiting", "over"}
BY EngineAssumption DEF Entries

\* Waits that leave a ring, or run out, leave the others as they are.
Fewer(R, Q) ==
  /\ DOMAIN Q = DOMAIN R
  /\ \A k \in DOMAIN R : Q[k].status # "INACTIVE" =>
       /\ R[k].status # "INACTIVE" /\ Q[k].ref = R[k].ref /\ Q[k].job = R[k].job
       /\ Q[k].step = R[k].step /\ Q[k].signal = R[k].signal

LEMMA FewerWaits ==
  ASSUME NEW S, NEW R, NEW Q, NEW g, NEW p, Fewer(R, Q)
  PROVE  /\ Sound(S, R, g, p) => Sound(S, Q, g, p)
         /\ Met(S, R) => Met(S, Q)
<1>1. \A k \in Waits(Q) :
        /\ k \in Waits(R) /\ Q[k].ref = R[k].ref /\ Q[k].job = R[k].job
        /\ Q[k].step = R[k].step /\ Q[k].signal = R[k].signal
  BY DEF Fewer, Waits
<1>2. \A k \in Waits(Q) : Own(S, Q[k]) = Own(S, R[k])
  BY <1>1 DEF Own
<1>3. Sound(S, R, g, p) => Sound(S, Q, g, p)
  BY <1>1, <1>2 DEF Sound
<1>4. Met(S, R) => Met(S, Q)
  BY <1>1, <1>2 DEF Met
<1> QED
  BY <1>3, <1>4

\* What holds for the other slots goes on to hold.
LEMMA OthersKeepOwn ==
  ASSUME NEW S, NEW T, NEW R, NEW i, SameBut(S, T, i), NEW j \in SeqSlots, j # i, HasOwn(S, R, j)
  PROVE  HasOwn(T, R, j)
BY DEF SameBut, HasOwn, Own

LEMMA OthersMeet ==
  ASSUME NEW S, NEW T, NEW R, NEW i, Ring(R), SameBut(S, T, i), Met(S, R),
         \A k \in Waits(R) : R[k].ref # i
  PROVE  Met(T, R)
<1>1. \A k \in Waits(R) : R[k].ref \in SeqSlots
  BY EntryFacts DEF Waits, Ring
<1> QED
  BY <1>1 DEF SameBut, Met, Own

\* A sequence steps on: no wait is its own any more.
LEMMA SlotMoves ==
  ASSUME NEW S, NEW T, NEW R, NEW g, NEW p, NEW i \in SeqSlots, Ring(R), SameBut(S, T, i),
         T[i].job = S[i].job, T[i].index = S[i].index + 1, S[i].index \in Nat
  PROVE  Sound(S, R, g, p) => Sound(T, R, g, p) /\ ~HasOwn(T, R, i)
<1>1. \A k \in Waits(R) : R[k].ref \in SeqSlots /\ R[k].step \in Nat
  BY EntryFacts DEF Waits, Ring
<1>2. \A k \in Waits(R) : R[k].ref # i => T[R[k].ref] = S[R[k].ref]
  BY <1>1 DEF SameBut
<1>3. ASSUME Sound(S, R, g, p) PROVE Sound(T, R, g, p) /\ ~HasOwn(T, R, i)
  <2>1. \A k \in Waits(R) : R[k].ref = i => ~Own(T, R[k])
    BY <1>1, <1>3 DEF Sound, Own
  <2>2. \A k \in Waits(R) : Own(T, R[k]) => R[k].ref # i /\ Own(S, R[k])
    BY <1>2, <2>1 DEF Own
  <2>3. \A k \in Waits(R) : R[k].job = T[R[k].ref].job => R[k].step <= T[R[k].ref].index
    BY <1>1, <1>2, <1>3 DEF Sound
  <2>4. \A k \in Waits(R) : Own(T, R[k]) =>
          T[R[k].ref].status \in {"PENDING", "INACTIVE"} /\ Current(T[R[k].ref]) = {R[k].signal}
    BY <1>2, <1>3, <2>2 DEF Sound
  <2> QED
    BY <1>3, <2>1, <2>2, <2>3, <2>4 DEF Sound, HasOwn
<1> QED
  BY <1>3

\* A sequence changes its status.
Marks(S, T, i, x) == /\ SameBut(S, T, i) /\ T[i].name = S[i].name /\ T[i].job = S[i].job
                     /\ T[i].index = S[i].index /\ T[i].status = x

LEMMA SlotMarks ==
  ASSUME NEW S, NEW T, NEW R, NEW g, NEW p, NEW i \in SeqSlots, Ring(R), NEW x, Marks(S, T, i, x),
         S[i].status \in {"PENDING", "INACTIVE"} => x \in {"PENDING", "INACTIVE"}
  PROVE  /\ Sound(S, R, g, p) => Sound(T, R, g, p)
         /\ S[i].status # "PENDING" /\ Met(S, R) => Met(T, R)
<1>0. /\ SameBut(S, T, i) /\ T[i].name = S[i].name /\ T[i].job = S[i].job
      /\ T[i].index = S[i].index /\ T[i].status = x
  BY DEF Marks
<1> USE <1>0
<1>1. \A k \in Waits(R) : R[k].ref \in SeqSlots
  BY EntryFacts DEF Waits, Ring
<1>2. \A k \in Waits(R) : R[k].ref # i => T[R[k].ref] = S[R[k].ref]
  BY <1>1 DEF SameBut
<1>3. \A k \in Waits(R) : /\ T[R[k].ref].job = S[R[k].ref].job
                          /\ T[R[k].ref].index = S[R[k].ref].index
                          /\ T[R[k].ref].name = S[R[k].ref].name
  BY <1>2
<1>4. \A k \in Waits(R) : Own(S, R[k]) = Own(T, R[k])
  BY <1>3 DEF Own
<1>5. \A k \in Waits(R) : Current(S[R[k].ref]) = Current(T[R[k].ref])
  BY <1>3 DEF Current
<1>6. \A k \in Waits(R) : S[R[k].ref].status \in {"PENDING", "INACTIVE"} =>
                            T[R[k].ref].status \in {"PENDING", "INACTIVE"}
  BY <1>2
<1>7. Sound(S, R, g, p) => Sound(T, R, g, p)
  BY <1>3, <1>4, <1>5, <1>6 DEF Sound
<1>8. S[i].status # "PENDING" /\ Met(S, R) => Met(T, R)
  BY <1>2, <1>4 DEF Met
<1> QED
  BY <1>7, <1>8

LEMMA MarksKeepOwn ==
  ASSUME NEW S, NEW T, NEW R, NEW i \in SeqSlots, Ring(R), NEW x, Marks(S, T, i, x),
         NEW j \in SeqSlots, HasOwn(S, R, j)
  PROVE  HasOwn(T, R, j)
<1>1. \A k \in Waits(R) : R[k].ref \in SeqSlots
  BY EntryFacts DEF Waits, Ring
<1>2. \A k \in Waits(R) : T[R[k].ref].job = S[R[k].ref].job /\ T[R[k].ref].index = S[R[k].ref].index
  BY <1>1 DEF Marks, SameBut
<1> QED
  BY <1>2 DEF HasOwn, Own

\* A push takes a slot over: the waits of the sequence before are not its own.
LEMMA SlotStarts ==
  ASSUME NEW S, NEW T, NEW R, NEW g, NEW p \in Nat, NEW i \in SeqSlots, Ring(R), SameBut(S, T, i),
         T[i].job = p + 1
  PROVE  /\ Sound(S, R, g, p) => Sound(T, R, g, p + 1)
         /\ S[i].status # "PENDING" /\ Met(S, R) => Met(T, R)
         /\ \A j \in SeqSlots : j # i /\ HasOwn(S, R, j) => HasOwn(T, R, j)
<1>1. \A k \in Waits(R) : R[k].ref \in SeqSlots /\ R[k].job \in Nat
  BY EntryFacts DEF Waits, Ring
<1>2. \A k \in Waits(R) : R[k].ref # i => T[R[k].ref] = S[R[k].ref]
  BY <1>1 DEF SameBut
<1>3. S[i].status # "PENDING" /\ Met(S, R) => Met(T, R)
  BY <1>2 DEF Met, Own
<1>4. ASSUME Sound(S, R, g, p) PROVE Sound(T, R, g, p + 1)
  <2>1. \A k \in Waits(R) : R[k].ref = i => R[k].job # T[i].job
    BY <1>1, <1>4 DEF Sound
  <2>2. \A k \in Waits(R) : Own(T, R[k]) => R[k].ref # i /\ Own(S, R[k])
    BY <1>2, <2>1 DEF Own
  <2>3. \A k \in Waits(R) : R[k].signal.kind = g /\ R[k].job <= p + 1
    BY <1>1, <1>4 DEF Sound
  <2>4. \A k \in Waits(R) : R[k].job = T[R[k].ref].job => R[k].step <= T[R[k].ref].index
    BY <1>2, <1>4, <2>1 DEF Sound
  <2> QED
    BY <1>2, <1>4, <2>2, <2>3, <2>4 DEF Sound
<1>5. \A j \in SeqSlots : j # i /\ HasOwn(S, R, j) => HasOwn(T, R, j)
  BY <1>2 DEF HasOwn, Own
<1> QED
  BY <1>3, <1>4, <1>5

\* A sequence files a wait in a slot that is free, and waits.
Files(S, R, Q, g, p, i, c) ==
  /\ Ring(R) /\ c \in DOMAIN R /\ DOMAIN Q = DOMAIN R
  /\ R[c].status = "INACTIVE" /\ Q[c].status = "waiting"
  /\ \A k \in DOMAIN R : k # c => Q[k] = R[k]
  /\ Q[c].ref = i /\ Q[c].job = S[i].job /\ Q[c].step = S[i].index
  /\ Q[c].signal.kind = g /\ Current(S[i]) = {Q[c].signal}
  /\ S[i].status = "ACTIVE" /\ S[i].job <= p /\ S[i].index \in Nat

LEMMA SlotFiles ==
  ASSUME NEW S, NEW T, NEW R, NEW Q, NEW g, NEW p \in Nat, NEW i \in SeqSlots, NEW c,
         Marks(S, T, i, "PENDING"), Files(S, R, Q, g, p, i, c)
  PROVE  /\ Sound(S, R, g, p) => Sound(T, Q, g, p)
         /\ Met(S, R) => Met(T, Q)
<1>0. /\ SameBut(S, T, i) /\ T[i].name = S[i].name /\ T[i].job = S[i].job
      /\ T[i].index = S[i].index /\ T[i].status = "PENDING"
      /\ Ring(R) /\ c \in DOMAIN R /\ DOMAIN Q = DOMAIN R
      /\ R[c].status = "INACTIVE" /\ Q[c].status = "waiting"
      /\ \A k \in DOMAIN R : k # c => Q[k] = R[k]
      /\ Q[c].ref = i /\ Q[c].job = S[i].job /\ Q[c].step = S[i].index
      /\ Q[c].signal.kind = g /\ Current(S[i]) = {Q[c].signal}
      /\ S[i].status = "ACTIVE" /\ S[i].job <= p /\ S[i].index \in Nat
  BY DEF Marks, Files
<1> USE <1>0
<1>1. \A k \in Waits(R) : R[k].ref \in SeqSlots /\ R[k].step \in Nat /\ k # c /\ Q[k] = R[k]
  BY EntryFacts DEF Waits, Ring
<1>2. c \in Waits(Q) /\ \A k \in Waits(Q) : k = c \/ k \in Waits(R)
  BY DEF Waits
<1>3. \A k \in Waits(R) : k \in Waits(Q)
  BY <1>1 DEF Waits
<1>4. \A k \in Waits(R) : R[k].ref # i => T[R[k].ref] = S[R[k].ref]
  BY <1>1 DEF SameBut
<1>5. \A k \in Waits(R) : Own(T, R[k]) = Own(S, R[k])
  BY <1>4 DEF Own
<1>6. Own(T, Q[c])
  BY DEF Own
<1>7. Current(T[i]) = {Q[c].signal}
  BY DEF Current
<1>8. ASSUME Sound(S, R, g, p) PROVE Sound(T, Q, g, p)
  <2>1. \A k \in Waits(R) : R[k].ref = i => ~Own(S, R[k])
    BY <1>8 DEF Sound
  <2>2. \A k \in Waits(Q) : Q[k].signal.kind = g /\ Q[k].job <= p
    BY <1>1, <1>2, <1>8 DEF Sound
  <2>3. \A k \in Waits(Q) : Q[k].job = T[Q[k].ref].job => Q[k].step <= T[Q[k].ref].index
    <3>1. \A k \in Waits(R) : R[k].job = T[R[k].ref].job => R[k].step <= T[R[k].ref].index
      BY <1>4, <1>8 DEF Sound
    <3> QED
      BY <1>1, <1>2, <3>1
  <2>4. \A k \in Waits(Q) : Own(T, Q[k]) =>
          T[Q[k].ref].status \in {"PENDING", "INACTIVE"} /\ Current(T[Q[k].ref]) = {Q[k].signal}
    <3>1. \A k \in Waits(R) : Own(T, R[k]) =>
            T[R[k].ref].status \in {"PENDING", "INACTIVE"} /\ Current(T[R[k].ref]) = {R[k].signal}
      BY <1>4, <1>5, <1>8, <2>1 DEF Sound
    <3> QED
      BY <1>1, <1>2, <1>7, <3>1
  <2>5. \A k, l \in Waits(Q) :
          Q[k].ref = Q[l].ref /\ Own(T, Q[k]) /\ Own(T, Q[l]) => k = l
    BY <1>1, <1>2, <1>5, <1>8, <2>1 DEF Sound
  <2> QED
    BY <2>2, <2>3, <2>4, <2>5 DEF Sound
<1>9. Met(S, R) => Met(T, Q)
  BY <1>1, <1>2, <1>4, <1>5, <1>6 DEF Met
<1> QED
  BY <1>8, <1>9

LEMMA FilesKeepOwn ==
  ASSUME NEW S, NEW T, NEW R, NEW Q, NEW g, NEW p, NEW i \in SeqSlots, NEW c,
         Marks(S, T, i, "PENDING"), Files(S, R, Q, g, p, i, c),
         NEW j \in SeqSlots, j = i \/ HasOwn(S, R, j)
  PROVE  HasOwn(T, Q, j)
<1>1. CASE j = i
  BY <1>1 DEF Marks, Files, HasOwn, Own, Waits
<1>2. CASE HasOwn(S, R, j)
  <2>1. PICK k \in Waits(R) : R[k].ref = j /\ Own(S, R[k])
    BY <1>2 DEF HasOwn
  <2>2. k \in Waits(Q) /\ Q[k] = R[k]
    BY DEF Files, Waits
  <2>3. T[j].job = S[j].job /\ T[j].index = S[j].index
    BY DEF Marks, SameBut
  <2> QED
    BY <2>1, <2>2, <2>3 DEF HasOwn, Own
<1> QED
  BY <1>1, <1>2


\* Wait k leaves ring R; the sequence in slot i steps on.
TakenOff(R, Q, k) == /\ DOMAIN Q = DOMAIN R /\ Q[k].status = "INACTIVE"
                     /\ \A l \in DOMAIN R : l # k => Q[l] = R[l]
StepsOn(S, T, i) == /\ SameBut(S, T, i) /\ T[i].name = S[i].name /\ T[i].job = S[i].job
                    /\ T[i].index = S[i].index + 1 /\ S[i].index \in Nat
                    /\ T[i].status = "ACTIVE"

\* A wait that is over is collected: the sequence in its slot steps on, or it stands at
\* something else, and then the wait is not its own. O is the other ring.
Collecting(S, T, R, Q, O, g, h, p, k) ==
  /\ Ring(R) /\ Ring(Q) /\ Ring(O) /\ g # h
  /\ k \in Waits(R) /\ R[k].ref \in SeqSlots /\ TakenOff(R, Q, k)
  /\ Sound(S, R, g, p) /\ Sound(S, O, h, p)
  /\ (T = S /\ ~Own(S, R[k])) \/ StepsOn(S, T, R[k].ref)

LEMMA Collected ==
  ASSUME NEW S, NEW T, NEW R, NEW Q, NEW O, NEW g, NEW h, NEW p, NEW k,
         Collecting(S, T, R, Q, O, g, h, p, k)
  PROVE  /\ Sound(T, Q, g, p) /\ Sound(T, O, h, p)
         /\ Met(S, R) /\ Met(S, O) => Met(T, Q) /\ Met(T, O)
         /\ \A j \in SeqSlots : T[j].status = "PENDING" =>
              /\ S[j].status = "PENDING"
              /\ HasOwn(S, R, j) => HasOwn(T, Q, j)
              /\ HasOwn(S, O, j) => HasOwn(T, O, j)
<1> DEFINE i == R[k].ref
<1>0. /\ Ring(R) /\ Ring(Q) /\ Ring(O) /\ g # h /\ k \in Waits(R) /\ i \in SeqSlots
      /\ TakenOff(R, Q, k) /\ Sound(S, R, g, p) /\ Sound(S, O, h, p)
      /\ (T = S /\ ~Own(S, R[k])) \/ StepsOn(S, T, i)
  BY DEF Collecting
<1> USE <1>0
<1> USE DEF TakenOff
<1>1. Fewer(R, Q)
  BY DEF Fewer
<1>2. Sound(S, Q, g, p) /\ (Met(S, R) => Met(S, Q))
  BY <1>1, FewerWaits
<1>3. \A l \in Waits(R) : l # k => l \in Waits(Q) /\ Q[l] = R[l]
  BY DEF Waits
<1>4. ASSUME T = S, ~Own(S, R[k])
      PROVE  /\ Sound(T, Q, g, p) /\ Sound(T, O, h, p)
             /\ Met(S, R) /\ Met(S, O) => Met(T, Q) /\ Met(T, O)
             /\ \A j \in SeqSlots : T[j].status = "PENDING" =>
                  /\ S[j].status = "PENDING"
                  /\ HasOwn(S, R, j) => HasOwn(T, Q, j)
                  /\ HasOwn(S, O, j) => HasOwn(T, O, j)
  <2>1. \A j \in SeqSlots : HasOwn(S, R, j) => HasOwn(S, Q, j)
    BY <1>3, <1>4 DEF HasOwn
  <2> QED
    BY <1>2, <1>4, <2>1
<1>5. ASSUME StepsOn(S, T, i)
      PROVE  /\ Sound(T, Q, g, p) /\ Sound(T, O, h, p)
             /\ Met(S, R) /\ Met(S, O) => Met(T, Q) /\ Met(T, O)
             /\ \A j \in SeqSlots : T[j].status = "PENDING" =>
                  /\ S[j].status = "PENDING"
                  /\ HasOwn(S, R, j) => HasOwn(T, Q, j)
                  /\ HasOwn(S, O, j) => HasOwn(T, O, j)
  <2>1. Sound(T, Q, g, p) /\ Sound(T, O, h, p)
    BY <1>2, <1>5, SlotMoves DEF StepsOn
  <2>2. ASSUME Met(S, R), Met(S, O) PROVE Met(T, Q) /\ Met(T, O)
    <3>1. \A l \in Waits(Q) : l \in Waits(R) /\ l # k /\ Q[l] = R[l]
      BY DEF Waits
    <3>2. \A l \in Waits(Q) : Q[l].ref # i
      BY <2>2, <3>1 DEF Sound, Met
    <3>3. \A l \in Waits(O) : O[l].ref # i
      <4>1. R[k].signal.kind = g /\ Current(S[i]) = {R[k].signal}
        BY <2>2 DEF Sound, Met
      <4>2. ASSUME NEW l \in Waits(O), O[l].ref = i PROVE FALSE
        <5>1. O[l].signal.kind = h /\ Current(S[i]) = {O[l].signal}
          BY <2>2, <4>2 DEF Sound, Met
        <5>2. O[l].signal = R[k].signal
          BY <4>1, <5>1
        <5> QED
          BY <4>1, <5>1, <5>2
      <4> QED
        BY <4>2
    <3> QED
      BY <1>2, <1>5, <2>2, <3>2, <3>3, OthersMeet DEF StepsOn
  <2>3. ASSUME NEW j \in SeqSlots, T[j].status = "PENDING"
        PROVE  /\ S[j].status = "PENDING"
               /\ HasOwn(S, R, j) => HasOwn(T, Q, j)
               /\ HasOwn(S, O, j) => HasOwn(T, O, j)
    <3>1. j # i /\ T[j] = S[j]
      BY <1>5, <2>3 DEF SameBut, StepsOn
    <3>2. HasOwn(S, R, j) => HasOwn(T, Q, j)
      BY <1>3, <3>1 DEF HasOwn, Own
    <3>3. HasOwn(S, O, j) => HasOwn(T, O, j)
      BY <3>1 DEF HasOwn, Own
    <3> QED
      BY <2>3, <3>1, <3>2, <3>3
  <2> QED
    BY <2>1, <2>2, <2>3
<1> QED
  BY <1>4, <1>5

-----------------------------------------------------------------------------
(* Types.                                                                  *)

LEMMA Least ==
  ASSUME NEW I \in SUBSET Nat, I # {}
  PROVE  \E x \in I : \A y \in I : x <= y
<1>1. PICK x \in I : \A y \in I : ~(<<y, x>> \in OpToRel(<, Nat))
  BY WFMin, NatLessThanWellFounded, Zenon
<1>2. \A y \in I : ~(y < x)
  BY <1>1 DEF OpToRel
<1> QED
  BY <1>2

LEMMA FirstIn ==
  ASSUME NEW I \in SUBSET Nat, I # {}
  PROVE  First(I) \in I
<1>1. \E x \in I : \A y \in I : x <= y
  BY Least
<1> QED
  BY <1>1 DEF First

LEMMA SizeFacts ==
  /\ PIN_SEQ_MAX_SEQUENCES \in Nat \ {0} /\ CLK_PIT_MAX_EVENTS \in Nat \ {0}
  /\ PIN_EVT_MAX_EVENTS \in Nat \ {0} /\ MaxPush \in Nat /\ MaxFlush \in Nat
  /\ SeqSlots \subseteq Nat /\ ClkSlots \subseteq Nat /\ EvtSlots \subseteq Nat
  /\ 0 \in SeqSlots /\ 0 \in EvtSlots
  /\ AtRest \notin SeqSlots /\ AtDelays \notin SeqSlots /\ AtInputs \notin SeqSlots
BY EngineAssumption DEF SeqSlots, ClkSlots, EvtSlots, AtRest, AtDelays, AtInputs

\* The slot an index names, and the index behind it.
LEMMA WrapIn ==
  ASSUME NEW size \in Nat \ {0}, NEW i \in 0 .. size
  PROVE  Wrap(i, size) \in 0 .. size - 1 /\ Wrap(i, size) + 1 \in 0 .. size
BY DEF Wrap

LEMMA BeyondIn ==
  ASSUME NEW i \in SeqSlots
  PROVE  Beyond(i) \in 0 .. PIN_SEQ_MAX_SEQUENCES
<1> DEFINE free == {k \in SeqSlots : k > i /\ ~Live(k)}
<1>1. CASE free = {}
  BY <1>1, SizeFacts DEF Beyond
<1>2. CASE free # {}
  <2>1. \E k \in free : \A l \in free : k <= l
    BY <1>2, SizeFacts, Least
  <2>2. Beyond(i) \in free
    BY <1>2, <2>1 DEF Beyond
  <2> QED
    BY <2>2, SizeFacts DEF SeqSlots
<1> QED
  BY <1>1, <1>2

\* Sequences that were pushed.
Sequence == [name : Names, index : Nat, job : Jobs,
             status : {"INACTIVE", "ACTIVE", "PENDING", "DONE"}]

LEMMA SequenceFacts ==
  ASSUME NEW s \in SequenceSet
  PROVE  /\ s.job \in Nat /\ s.index \in Nat
         /\ s.status \in {"INACTIVE", "ACTIVE", "PENDING", "DONE"}
         /\ s.status # "INACTIVE" \/ Current(s) # {} \/ s.job # 0 => s \in Sequence
<1>1. CASE s \in Sequence
  BY <1>1, SizeFacts DEF Sequence, Jobs
<1>2. ASSUME s = None PROVE s.job = 0 /\ s.index = 0 /\ s.status = "INACTIVE" /\ Current(s) = {}
  BY <1>2, EngineAssumption DEF None, Current
<1> QED
  BY <1>1, <1>2 DEF SequenceSet, Sequence

LEMMA SequenceMarked ==
  ASSUME NEW s \in SequenceSet, NEW x \in {"INACTIVE", "ACTIVE", "PENDING", "DONE"},
         s.status # "INACTIVE" \/ x = "INACTIVE"
  PROVE  LET t == [s EXCEPT !.status = x]
         IN  /\ t \in SequenceSet /\ t.status = x /\ t.name = s.name /\ t.job = s.job
             /\ t.index = s.index
<1>1. CASE s \in Sequence
  BY <1>1 DEF Sequence, SequenceSet
<1>2. ASSUME s = None, x = "INACTIVE" PROVE [s EXCEPT !.status = x] = None
  BY <1>2 DEF None
<1>3. s \notin Sequence => s = None
  BY DEF SequenceSet, Sequence
<1> QED
  BY <1>1, <1>2, <1>3, SequenceFacts DEF SequenceSet, None

LEMMA SequenceStepped ==
  ASSUME NEW s \in SequenceSet, Current(s) # {}
  PROVE  LET t == SteppedOn(s)
         IN  /\ t \in SequenceSet /\ t.status = "ACTIVE" /\ t.name = s.name /\ t.job = s.job
             /\ t.index = s.index + 1
<1>1. s \in Sequence
  BY SequenceFacts
<1>2. SteppedOn(s) = [s EXCEPT !.index = s.index + 1, !.status = "ACTIVE"]
  BY DEF SteppedOn
<1>3. s.index + 1 \in Nat
  BY <1>1 DEF Sequence
<1> QED
  BY <1>1, <1>2, <1>3 DEF Sequence, SequenceSet

\* The step a sequence is at, when it is at one.
LEMMA CurrentStep ==
  ASSUME NEW s, Current(s) # {}
  PROVE  /\ s.name \in Names /\ s.index \in DOMAIN Pattern[s.name]
         /\ Current(s) = {Pattern[s.name][s.index]}
         /\ Pattern[s.name][s.index] \in Signals /\ Pattern[s.name][s.index].kind \in Kinds
<1>1. s.name \in Names /\ s.index \in DOMAIN Pattern[s.name]
  BY DEF Current
<1>2. Pattern[s.name][s.index] \in Signals
  BY <1>1 DEF Signals
<1> QED
  BY <1>1, <1>2, EngineAssumption DEF Current

LEMMA EntryFiled ==
  ASSUME NEW i \in SeqSlots, NEW s \in Sequence, Current(s) # {}
  PROVE  /\ Entry(i, s) \in Entries /\ Entry(i, s).ref = i /\ Entry(i, s).job = s.job
         /\ Entry(i, s).step = s.index /\ Entry(i, s).status = "waiting"
         /\ Current(s) = {Entry(i, s).signal}
<1>1. Pattern[s.name][s.index] \in Signals /\ Current(s) = {Pattern[s.name][s.index]}
  BY CurrentStep
<1>2. s.job \in 0 .. MaxPush /\ s.index \in Nat
  BY SizeFacts DEF Sequence, Jobs
<1> QED
  BY <1>1, <1>2 DEF Entry, Entries

LEMMA RingStatus ==
  ASSUME NEW e \in Entries, NEW x \in {"INACTIVE", "over"}
  PROVE  LET f == [e EXCEPT !.status = x]
         IN  /\ f \in Entries /\ f.status = x /\ f.ref = e.ref /\ f.job = e.job
             /\ f.step = e.step /\ f.signal = e.signal
BY DEF Entries

LEMMA NoEntryIn == NoEntry \in Entries /\ NoEntry.status = "INACTIVE"
<1>1. Signals # {}
  BY EngineAssumption DEF Signals
<1>2. (CHOOSE g \in Signals : TRUE) \in Signals
  BY <1>1
<1> QED
  BY <1>2, SizeFacts DEF NoEntry, Entries


-----------------------------------------------------------------------------
(* The steps.                                                              *)

\* A step that leaves the sequences, the rings of waits and the counts alone.
LEMMA Quiet ==
  ASSUME SeqInv, UNCHANGED <<sequences, clocks, ins, pushes, flushes>>,
         ~lost' => ~lost, Unflushed' => Unflushed
  PROVE  ~lost' => Paired'
<1> SUFFICES ASSUME ~lost' PROVE Paired'
  OBVIOUS
<1>1. Paired
  BY DEF SeqInv
<1>2. /\ pin_seq_sequences' = pin_seq_sequences /\ clk_pit_events' = clk_pit_events
      /\ inputs' = inputs /\ pushes' = pushes /\ flushes' = flushes
  BY DEF sequences, clocks, ins
<1>3. Sound(pin_seq_sequences, clk_pit_events, "delay", pushes)'
  BY <1>1, <1>2 DEF Paired
<1>4. Sound(pin_seq_sequences, inputs, "get", pushes)'
  BY <1>1, <1>2 DEF Paired
<1>5. Unflushed' => Awaited(pin_seq_sequences, clk_pit_events, inputs)'
  BY <1>1, <1>2 DEF Paired
<1>6. flushes' = 0 => Met(pin_seq_sequences, clk_pit_events)' /\ Met(pin_seq_sequences, inputs)'
  BY <1>1, <1>2 DEF Paired
<1> QED
  BY <1>3, <1>4, <1>5, <1>6 DEF Paired

LEMMA TurnSteps ==
  ASSUME SeqInv, pin_seq_begin \/ pin_seq_delays_done \/ pin_seq_signals_done \/ pin_seq_pass
  PROVE  SeqInv'
<1>1. /\ UNCHANGED <<sequences, clocks, ins, outs, evtAt, execAt, event, history>>
      /\ seqAt' \in {AtRest, AtDelays, AtInputs} \cup SeqSlots
  <2>1. CASE pin_seq_begin
    BY <2>1 DEF pin_seq_begin
  <2>2. CASE pin_seq_delays_done
    BY <2>2 DEF pin_seq_delays_done
  <2>3. CASE pin_seq_signals_done
    BY <2>3, SizeFacts DEF pin_seq_signals_done
  <2>4. CASE pin_seq_pass
    BY <2>4, SizeFacts DEF pin_seq_pass, AfterSlot, SeqSlots
  <2> QED
    BY <2>1, <2>2, <2>3, <2>4
<1>2. TypeOK'
  BY <1>1 DEF SeqInv, TypeOK, sequences, clocks, ins, outs, history
<1>3. Unflushed' = Unflushed
  BY <1>1 DEF Unflushed
<1>4. Pushed'
  BY <1>1, <1>3 DEF SeqInv, Pushed, sequences, outs, history
<1> QED
  BY <1>1, <1>2, <1>3, <1>4, Quiet DEF SeqInv, history

LEMMA EngageSteps ==
  ASSUME SeqInv, task_engage \/ pin_seq_next_untaken \/ event_prepare_untaken
  PROVE  SeqInv'
<1>1. /\ UNCHANGED <<sequences, clocks, ins, outs, seqAt, evtAt, event,
                     pushes, flushes, driven, finished, flushed>>
      /\ Unflushed /\ execAt' \in {"run", "repush"}
      /\ execAt' = "repush" => event.name \in EventNames
      /\ lost' \in BOOLEAN
      /\ ~lost' => ~lost
  BY DEF task_engage, pin_seq_next_untaken, event_prepare_untaken, history, SeqInv, TypeOK, Unflushed
<1>2. TypeOK'
  BY <1>1 DEF SeqInv, TypeOK, sequences, clocks, ins, outs
<1>3. Unflushed'
  BY <1>1 DEF Unflushed
<1>4. Pushed'
  BY <1>1, <1>3 DEF SeqInv, Pushed, sequences, outs
<1> QED
  BY <1>1, <1>2, <1>3, <1>4, Quiet DEF SeqInv

\* A push, when it overwrites nothing.
LEMMA PushPairs ==
  ASSUME SeqInv, NEW n \in Names, Push(n), UNCHANGED <<clocks, ins, flushes>>,
         Unflushed' => Unflushed
  PROVE  /\ pin_seq_sequences' \in [SeqSlots -> SequenceSet]
         /\ pin_seq_sequence_idx' \in 0 .. PIN_SEQ_MAX_SEQUENCES
         /\ pushes' \in 0 .. MaxPush
         /\ lost' \in BOOLEAN
         /\ \A i \in SeqSlots : pin_seq_sequences'[i].job <= pushes'
         /\ ~lost' => Paired'
<1> DEFINE i == Wrap(pin_seq_sequence_idx, PIN_SEQ_MAX_SEQUENCES)
           s == [name |-> n, index |-> 1, status |-> "ACTIVE", job |-> pushes + 1]
<1>1. i \in SeqSlots
  BY SizeFacts, WrapIn DEF SeqInv, TypeOK, SeqSlots
<1>2. /\ pin_seq_sequences' = [pin_seq_sequences EXCEPT ![i] = s]
      /\ pin_seq_sequence_idx' = Beyond(i)
      /\ pushes' = pushes + 1 /\ pushes < MaxPush
      /\ lost' = (lost \/ Live(i))
  BY DEF Push
<1>3. pushes \in Nat /\ pushes + 1 \in Jobs /\ pushes' \in 0 .. MaxPush
  BY <1>2, SizeFacts DEF SeqInv, TypeOK, Jobs
<1>4. s \in SequenceSet
  BY <1>3 DEF SequenceSet
<1>5. pin_seq_sequences \in [SeqSlots -> SequenceSet]
  BY DEF SeqInv, TypeOK
<1>6. pin_seq_sequences' \in [SeqSlots -> SequenceSet]
  BY <1>1, <1>2, <1>4, <1>5
<1>7. pin_seq_sequence_idx' \in 0 .. PIN_SEQ_MAX_SEQUENCES
  BY <1>1, <1>2, BeyondIn
<1>8. lost' \in BOOLEAN
  BY <1>2 DEF SeqInv, TypeOK, Live
<1>9. SameBut(pin_seq_sequences, pin_seq_sequences', i) /\ pin_seq_sequences'[i] = s
  BY <1>1, <1>2, <1>5 DEF SameBut
<1>10. \A j \in SeqSlots : pin_seq_sequences'[j].job <= pushes'
  <2>1. \A j \in SeqSlots : pin_seq_sequences[j].job \in Nat /\ pin_seq_sequences[j].job <= pushes
    BY <1>5, SequenceFacts DEF SeqInv, Pushed
  <2> QED
    BY <1>2, <1>3, <1>9, <2>1 DEF SameBut
<1>11. ASSUME ~lost' PROVE Paired'
  <2>1. Paired /\ pin_seq_sequences[i].status = "INACTIVE"
    BY <1>2, <1>11 DEF SeqInv, Live
  <2>2. Ring(clk_pit_events) /\ Ring(inputs)
    BY DEF SeqInv, TypeOK, Ring
  <2>3. /\ clk_pit_events' = clk_pit_events /\ inputs' = inputs /\ flushes' = flushes
        /\ pin_seq_sequences'[i].job = pushes + 1
    BY <1>9 DEF clocks, ins
  <2>4. Sound(pin_seq_sequences', clk_pit_events', "delay", pushes')
    BY <1>1, <1>2, <1>3, <1>9, <2>1, <2>2, <2>3, SlotStarts DEF Paired
  <2>5. Sound(pin_seq_sequences', inputs', "get", pushes')
    BY <1>1, <1>2, <1>3, <1>9, <2>1, <2>2, <2>3, SlotStarts DEF Paired
  <2>6. Unflushed' => Awaited(pin_seq_sequences', clk_pit_events', inputs')
    <3>1. ASSUME Unflushed', NEW j \in SeqSlots, pin_seq_sequences'[j].status = "PENDING"
          PROVE  \/ HasOwn(pin_seq_sequences', clk_pit_events', j)
                 \/ HasOwn(pin_seq_sequences', inputs', j)
      <4>1. j # i
        BY <1>9, <3>1
      <4>2. pin_seq_sequences[j].status = "PENDING"
        BY <1>9, <3>1, <4>1 DEF SameBut
      <4>3. HasOwn(pin_seq_sequences, clk_pit_events, j) \/ HasOwn(pin_seq_sequences, inputs, j)
        BY <2>1, <3>1, <4>2 DEF Paired, Awaited
      <4> QED
        BY <1>1, <1>3, <1>9, <2>2, <2>3, <4>1, <4>3, SlotStarts
    <3> QED
      BY <3>1 DEF Awaited
  <2>7. flushes' = 0 => Met(pin_seq_sequences', clk_pit_events') /\ Met(pin_seq_sequences', inputs')
    BY <1>1, <1>3, <1>9, <2>1, <2>2, <2>3, SlotStarts DEF Paired
  <2> QED
    BY <2>4, <2>5, <2>6, <2>7 DEF Paired
<1> QED
  BY <1>2, <1>3, <1>6, <1>7, <1>8, <1>10, <1>11

LEMMA PushSteps ==
  ASSUME SeqInv,
         \/ \E n \in Names : machine_single_prepare(n) \/ execution_perform(n)
         \/ machine_single_event_prepare
  PROVE  SeqInv'
<1> DEFINE Pushes == \E n \in Names : Push(n)
<1>1. /\ UNCHANGED <<clocks, ins, outs, seqAt, evtAt, event, flushes, driven, finished, flushed>>
      /\ execAt' \in {execAt, "run"}
      /\ Unflushed' => Unflushed
      /\ ~Unflushed' => ~Unflushed
      /\ execAt' = "repush" => execAt = "repush"
      /\ Pushes \/ UNCHANGED <<sequences, pushes, lost>>
  <2>1. ASSUME NEW n \in Names, machine_single_prepare(n) \/ execution_perform(n)
        PROVE  /\ UNCHANGED <<clocks, ins, outs, seqAt, evtAt, execAt, event,
                              flushes, driven, finished, flushed>>
               /\ Pushes
    BY <2>1 DEF machine_single_prepare, execution_perform
  <2>2. ASSUME machine_single_event_prepare
        PROVE  /\ UNCHANGED <<clocks, ins, outs, seqAt, evtAt, event,
                              flushes, driven, finished, flushed>>
               /\ execAt = "repush" /\ execAt' = "run"
               /\ Pushes \/ UNCHANGED <<sequences, pushes, lost>>
    <3>1. event.name \in Names
      BY <2>2, EngineAssumption DEF machine_single_event_prepare, SeqInv, Pushed
    <3> QED
      BY <2>2, <3>1 DEF machine_single_event_prepare
  <2> QED
    BY <2>1, <2>2 DEF Unflushed
<1>2. CASE UNCHANGED <<sequences, pushes, lost>>
  <2>1. TypeOK'
    BY <1>1, <1>2 DEF SeqInv, TypeOK, sequences, clocks, ins, outs
  <2>2. Pushed'
    BY <1>1, <1>2 DEF SeqInv, Pushed, sequences, outs
  <2> QED
    BY <1>1, <1>2, <2>1, <2>2, Quiet DEF SeqInv
<1>3. CASE Pushes
  <2>1. /\ pin_seq_sequences' \in [SeqSlots -> SequenceSet]
        /\ pin_seq_sequence_idx' \in 0 .. PIN_SEQ_MAX_SEQUENCES
        /\ pushes' \in 0 .. MaxPush
        /\ lost' \in BOOLEAN
        /\ \A i \in SeqSlots : pin_seq_sequences'[i].job <= pushes'
        /\ ~lost' => Paired'
    BY <1>1, <1>3, PushPairs
  <2>2. TypeOK'
    BY <1>1, <2>1 DEF SeqInv, TypeOK, clocks, ins, outs
  <2>3. Pushed'
    BY <1>1, <2>1 DEF SeqInv, Pushed, outs
  <2> QED
    BY <2>1, <2>2, <2>3 DEF SeqInv
<1> QED
  BY <1>1, <1>2, <1>3

LEMMA SlotSteps ==
  ASSUME NEW S \in [SeqSlots -> SequenceSet], NEW i \in SeqSlots, Current(S[i]) # {}, NEW T,
         T = [S EXCEPT ![i] = SteppedOn(S[i])]
  PROVE  T \in [SeqSlots -> SequenceSet] /\ StepsOn(S, T, i)
<1>1. /\ SteppedOn(S[i]) \in SequenceSet /\ SteppedOn(S[i]).status = "ACTIVE"
      /\ SteppedOn(S[i]).name = S[i].name /\ SteppedOn(S[i]).job = S[i].job /\ SteppedOn(S[i]).index = S[i].index + 1
  BY SequenceStepped
<1>2. S[i].index \in Nat
  BY SequenceFacts
<1> QED
  BY <1>1, <1>2 DEF SameBut, StepsOn

LEMMA OverIn ==
  ASSUME NEW slots \in SUBSET Nat, NEW R \in [slots -> Entries], Over(R) # {}
  PROVE  First(Over(R)) \in slots /\ R[First(Over(R))].status = "over"
<1>1. Over(R) \in SUBSET Nat
  BY DEF Over
<1>2. First(Over(R)) \in Over(R)
  BY <1>1, FirstIn
<1> QED
  BY <1>2 DEF Over

LEMMA DelayTaken ==
  ASSUME SeqInv, pin_seq_delay
  PROVE  \E k \in Waits(clk_pit_events) :
           /\ clk_pit_events[k].ref \in SeqSlots /\ clk_pit_events' \in [ClkSlots -> Entries]
           /\ TakenOff(clk_pit_events, clk_pit_events', k)
           /\ pin_seq_sequences' \in [SeqSlots -> SequenceSet]
           /\ \A j \in SeqSlots : pin_seq_sequences'[j].job = pin_seq_sequences[j].job
           /\ \/ /\ pin_seq_sequences' = pin_seq_sequences
                 /\ ~(\E g \in Current(pin_seq_sequences[clk_pit_events[k].ref]) : g.kind = "delay")
              \/ StepsOn(pin_seq_sequences, pin_seq_sequences', clk_pit_events[k].ref)
<1> DEFINE k == First(Over(clk_pit_events))
           r == clk_pit_events[k].ref
           fits == \E g \in Current(pin_seq_sequences[r]) : g.kind = "delay"
<1>1. k \in ClkSlots /\ clk_pit_events[k].status = "over"
  BY SizeFacts, OverIn DEF SeqInv, TypeOK, pin_seq_delay
<1>2. /\ pin_seq_sequences \in [SeqSlots -> SequenceSet] /\ clk_pit_events \in [ClkSlots -> Entries]
      /\ inputs \in [EvtSlots -> Entries]
  BY DEF SeqInv, TypeOK
<1>3. /\ clk_pit_events' \in [ClkSlots -> Entries] /\ TakenOff(clk_pit_events, clk_pit_events', k)
      /\ k \in Waits(clk_pit_events) /\ r \in SeqSlots
  <2>1. clk_pit_events' = [clk_pit_events EXCEPT ![k] = [clk_pit_events[k] EXCEPT !.status = "INACTIVE"]]
    BY DEF pin_seq_delay
  <2>2. clk_pit_events[k] \in Entries
    BY <1>1, <1>2
  <2>3. /\ [clk_pit_events[k] EXCEPT !.status = "INACTIVE"] \in Entries
        /\ [clk_pit_events[k] EXCEPT !.status = "INACTIVE"].status = "INACTIVE"
    BY <2>2, RingStatus
  <2>4. k \in Waits(clk_pit_events) /\ r \in SeqSlots
    BY <1>1, <1>2, <2>2, EntryFacts DEF Waits
  <2> QED
    BY <1>1, <1>2, <2>1, <2>3, <2>4 DEF TakenOff
<1>4. /\ fits => /\ pin_seq_sequences' =
                        [pin_seq_sequences EXCEPT ![r] = SteppedOn(pin_seq_sequences[r])]
                 /\ Current(pin_seq_sequences[r]) # {}
      /\ ~fits => pin_seq_sequences' = pin_seq_sequences
  <2>1. pin_seq_sequences' = [pin_seq_sequences EXCEPT ![r] =
          IF fits THEN SteppedOn(pin_seq_sequences[r]) ELSE pin_seq_sequences[r]]
    BY <1>2, <1>3 DEF pin_seq_delay
  <2> QED
    BY <1>2, <1>3, <2>1
<1>5. /\ pin_seq_sequences' \in [SeqSlots -> SequenceSet]
      /\ \/ pin_seq_sequences' = pin_seq_sequences /\ ~fits
         \/ StepsOn(pin_seq_sequences, pin_seq_sequences', r)
      /\ \A j \in SeqSlots : pin_seq_sequences'[j].job = pin_seq_sequences[j].job
  <2>1. CASE ~fits
    BY <1>2, <1>4, <2>1
  <2>2. CASE fits
    <3>1. /\ pin_seq_sequences' \in [SeqSlots -> SequenceSet]
          /\ StepsOn(pin_seq_sequences, pin_seq_sequences', r)
      BY <1>2, <1>3, <1>4, <2>2, SlotSteps
    <3> QED
      BY <3>1 DEF StepsOn, SameBut
  <2> QED
    BY <2>1, <2>2
<1> QED
  BY <1>3, <1>5

LEMMA DelayCollected ==
  ASSUME SeqInv, pin_seq_delay
  PROVE  SeqInv'
<1>1. PICK k \in Waits(clk_pit_events) :
        /\ clk_pit_events[k].ref \in SeqSlots /\ clk_pit_events' \in [ClkSlots -> Entries]
        /\ TakenOff(clk_pit_events, clk_pit_events', k)
        /\ pin_seq_sequences' \in [SeqSlots -> SequenceSet]
        /\ \A j \in SeqSlots : pin_seq_sequences'[j].job = pin_seq_sequences[j].job
        /\ \/ /\ pin_seq_sequences' = pin_seq_sequences
              /\ ~(\E g \in Current(pin_seq_sequences[clk_pit_events[k].ref]) : g.kind = "delay")
           \/ StepsOn(pin_seq_sequences, pin_seq_sequences', clk_pit_events[k].ref)
  BY DelayTaken
<1>2. /\ pin_seq_sequences \in [SeqSlots -> SequenceSet] /\ clk_pit_events \in [ClkSlots -> Entries]
      /\ inputs \in [EvtSlots -> Entries]
  BY DEF SeqInv, TypeOK
<1>3. UNCHANGED <<pin_seq_sequence_idx, clk_pit_event_idx, ins, outs, seqAt, evtAt,
                  execAt, event, history>>
  BY DEF pin_seq_delay
<1>4. TypeOK'
  BY <1>1, <1>3 DEF SeqInv, TypeOK, ins, outs, history
<1>5. Pushed'
  BY <1>1, <1>3 DEF SeqInv, Pushed, Unflushed, outs, history
<1>6. ASSUME ~lost' PROVE Paired'
  <2>1. Paired /\ inputs' = inputs /\ pushes' = pushes /\ flushes' = flushes /\ execAt' = execAt
    BY <1>3, <1>6 DEF SeqInv, ins, history
  <2>2. Ring(clk_pit_events) /\ Ring(clk_pit_events') /\ Ring(inputs)
    BY <1>1, <1>2 DEF Ring
  <2>3. pin_seq_sequences' = pin_seq_sequences => ~Own(pin_seq_sequences, clk_pit_events[k])
    <3>1. Own(pin_seq_sequences, clk_pit_events[k]) =>
            /\ clk_pit_events[k].signal.kind = "delay"
            /\ Current(pin_seq_sequences[clk_pit_events[k].ref]) = {clk_pit_events[k].signal}
      BY <2>1 DEF Paired, Sound
    <3> QED
      BY <1>1, <3>1 DEF StepsOn
  <2>4. Collecting(pin_seq_sequences, pin_seq_sequences', clk_pit_events, clk_pit_events', inputs, "delay", "get", pushes, k)
    BY <1>1, <2>1, <2>2, <2>3 DEF Collecting, Paired
  <2>5. /\ Sound(pin_seq_sequences', clk_pit_events', "delay", pushes)
        /\ Sound(pin_seq_sequences', inputs, "get", pushes)
        /\ Met(pin_seq_sequences, clk_pit_events) /\ Met(pin_seq_sequences, inputs)
             => Met(pin_seq_sequences', clk_pit_events') /\ Met(pin_seq_sequences', inputs)
        /\ \A j \in SeqSlots : pin_seq_sequences'[j].status = "PENDING" =>
             /\ pin_seq_sequences[j].status = "PENDING"
             /\ HasOwn(pin_seq_sequences, clk_pit_events, j)
                  => HasOwn(pin_seq_sequences', clk_pit_events', j)
             /\ HasOwn(pin_seq_sequences, inputs, j) => HasOwn(pin_seq_sequences', inputs, j)
    BY <2>4, Collected
  <2>6. Unflushed' => Awaited(pin_seq_sequences, clk_pit_events, inputs)'
    BY <2>1, <2>5 DEF Paired, Awaited, Unflushed
  <2>7. flushes' = 0 => Met(pin_seq_sequences, clk_pit_events)' /\ Met(pin_seq_sequences, inputs)'
    BY <2>1, <2>5 DEF Paired
  <2> QED
    BY <2>1, <2>5, <2>6, <2>7 DEF Paired
<1> QED
  BY <1>4, <1>5, <1>6 DEF SeqInv

LEMMA SignalTaken ==
  ASSUME SeqInv, pin_seq_signal
  PROVE  \E k \in Waits(inputs) :
           /\ inputs[k].ref \in SeqSlots /\ inputs' \in [EvtSlots -> Entries]
           /\ TakenOff(inputs, inputs', k)
           /\ pin_seq_sequences' \in [SeqSlots -> SequenceSet]
           /\ \A j \in SeqSlots : pin_seq_sequences'[j].job = pin_seq_sequences[j].job
           /\ \/ /\ pin_seq_sequences' = pin_seq_sequences
                 /\ ~(\E g \in Current(pin_seq_sequences[inputs[k].ref]) :
                      /\ g.kind # "delay"
                      /\ g.port = inputs[k].signal.port \/ g.level = inputs[k].signal.level)
              \/ StepsOn(pin_seq_sequences, pin_seq_sequences', inputs[k].ref)
<1> DEFINE k == First(Over(inputs))
           r == inputs[k].ref
           fits == \E g \in Current(pin_seq_sequences[r]) :
                     /\ g.kind # "delay"
                     /\ g.port = inputs[k].signal.port \/ g.level = inputs[k].signal.level
<1>1. k \in EvtSlots /\ inputs[k].status = "over"
  BY SizeFacts, OverIn DEF SeqInv, TypeOK, pin_seq_signal
<1>2. /\ pin_seq_sequences \in [SeqSlots -> SequenceSet] /\ clk_pit_events \in [ClkSlots -> Entries]
      /\ inputs \in [EvtSlots -> Entries]
  BY DEF SeqInv, TypeOK
<1>3. /\ inputs' \in [EvtSlots -> Entries] /\ TakenOff(inputs, inputs', k)
      /\ k \in Waits(inputs) /\ r \in SeqSlots
  <2>1. inputs' = [inputs EXCEPT ![k] = [inputs[k] EXCEPT !.status = "INACTIVE"]]
    BY DEF pin_seq_signal
  <2>2. inputs[k] \in Entries
    BY <1>1, <1>2
  <2>3. /\ [inputs[k] EXCEPT !.status = "INACTIVE"] \in Entries
        /\ [inputs[k] EXCEPT !.status = "INACTIVE"].status = "INACTIVE"
    BY <2>2, RingStatus
  <2>4. k \in Waits(inputs) /\ r \in SeqSlots
    BY <1>1, <1>2, <2>2, EntryFacts DEF Waits
  <2> QED
    BY <1>1, <1>2, <2>1, <2>3, <2>4 DEF TakenOff
<1>4. /\ fits => /\ pin_seq_sequences' =
                        [pin_seq_sequences EXCEPT ![r] = SteppedOn(pin_seq_sequences[r])]
                 /\ Current(pin_seq_sequences[r]) # {}
      /\ ~fits => pin_seq_sequences' = pin_seq_sequences
  <2>1. pin_seq_sequences' = [pin_seq_sequences EXCEPT ![r] =
          IF fits THEN SteppedOn(pin_seq_sequences[r]) ELSE pin_seq_sequences[r]]
    BY <1>2, <1>3 DEF pin_seq_signal
  <2> QED
    BY <1>2, <1>3, <2>1
<1>5. /\ pin_seq_sequences' \in [SeqSlots -> SequenceSet]
      /\ \/ pin_seq_sequences' = pin_seq_sequences /\ ~fits
         \/ StepsOn(pin_seq_sequences, pin_seq_sequences', r)
      /\ \A j \in SeqSlots : pin_seq_sequences'[j].job = pin_seq_sequences[j].job
  <2>1. CASE ~fits
    BY <1>2, <1>4, <2>1
  <2>2. CASE fits
    <3>1. /\ pin_seq_sequences' \in [SeqSlots -> SequenceSet]
          /\ StepsOn(pin_seq_sequences, pin_seq_sequences', r)
      BY <1>2, <1>3, <1>4, <2>2, SlotSteps
    <3> QED
      BY <3>1 DEF StepsOn, SameBut
  <2> QED
    BY <2>1, <2>2
<1> QED
  BY <1>3, <1>5

LEMMA SignalCollected ==
  ASSUME SeqInv, pin_seq_signal
  PROVE  SeqInv'
<1>1. PICK k \in Waits(inputs) :
        /\ inputs[k].ref \in SeqSlots /\ inputs' \in [EvtSlots -> Entries]
        /\ TakenOff(inputs, inputs', k)
        /\ pin_seq_sequences' \in [SeqSlots -> SequenceSet]
        /\ \A j \in SeqSlots : pin_seq_sequences'[j].job = pin_seq_sequences[j].job
        /\ \/ /\ pin_seq_sequences' = pin_seq_sequences
              /\ ~(\E g \in Current(pin_seq_sequences[inputs[k].ref]) :
                   /\ g.kind # "delay"
                   /\ g.port = inputs[k].signal.port \/ g.level = inputs[k].signal.level)
           \/ StepsOn(pin_seq_sequences, pin_seq_sequences', inputs[k].ref)
  BY SignalTaken
<1>2. /\ pin_seq_sequences \in [SeqSlots -> SequenceSet] /\ clk_pit_events \in [ClkSlots -> Entries]
      /\ inputs \in [EvtSlots -> Entries]
  BY DEF SeqInv, TypeOK
<1>3. UNCHANGED <<pin_seq_sequence_idx, inputIdx, clocks, outs, seqAt, evtAt,
                  execAt, event, history>>
  BY DEF pin_seq_signal
<1>4. TypeOK'
  BY <1>1, <1>3 DEF SeqInv, TypeOK, clocks, outs, history
<1>5. Pushed'
  BY <1>1, <1>3 DEF SeqInv, Pushed, Unflushed, outs, history
<1>6. ASSUME ~lost' PROVE Paired'
  <2>1. Paired /\ clk_pit_events' = clk_pit_events /\ pushes' = pushes /\ flushes' = flushes /\ execAt' = execAt
    BY <1>3, <1>6 DEF SeqInv, clocks, history
  <2>2. Ring(inputs) /\ Ring(inputs') /\ Ring(clk_pit_events)
    BY <1>1, <1>2 DEF Ring
  <2>3. pin_seq_sequences' = pin_seq_sequences => ~Own(pin_seq_sequences, inputs[k])
    <3>1. Own(pin_seq_sequences, inputs[k]) =>
            /\ inputs[k].signal.kind = "get"
            /\ Current(pin_seq_sequences[inputs[k].ref]) = {inputs[k].signal}
      BY <2>1 DEF Paired, Sound
    <3> QED
      BY <1>1, <3>1 DEF StepsOn
  <2>4. Collecting(pin_seq_sequences, pin_seq_sequences', inputs, inputs', clk_pit_events, "get", "delay", pushes, k)
    BY <1>1, <2>1, <2>2, <2>3 DEF Collecting, Paired
  <2>5. /\ Sound(pin_seq_sequences', inputs', "get", pushes)
        /\ Sound(pin_seq_sequences', clk_pit_events, "delay", pushes)
        /\ Met(pin_seq_sequences, inputs) /\ Met(pin_seq_sequences, clk_pit_events)
             => Met(pin_seq_sequences', inputs') /\ Met(pin_seq_sequences', clk_pit_events)
        /\ \A j \in SeqSlots : pin_seq_sequences'[j].status = "PENDING" =>
             /\ pin_seq_sequences[j].status = "PENDING"
             /\ HasOwn(pin_seq_sequences, inputs, j) => HasOwn(pin_seq_sequences', inputs', j)
             /\ HasOwn(pin_seq_sequences, clk_pit_events, j)
                  => HasOwn(pin_seq_sequences', clk_pit_events, j)
    BY <2>4, Collected
  <2>6. Unflushed' => Awaited(pin_seq_sequences, clk_pit_events, inputs)'
    BY <2>1, <2>5 DEF Paired, Awaited, Unflushed
  <2>7. flushes' = 0 => Met(pin_seq_sequences, clk_pit_events)' /\ Met(pin_seq_sequences, inputs)'
    BY <2>1, <2>5 DEF Paired
  <2> QED
    BY <2>1, <2>5, <2>6, <2>7 DEF Paired
<1> QED
  BY <1>4, <1>5, <1>6 DEF SeqInv

LEMMA SlotMarked ==
  ASSUME NEW S \in [SeqSlots -> SequenceSet], NEW i \in SeqSlots, S[i].status # "INACTIVE",
         NEW x \in {"INACTIVE", "ACTIVE", "PENDING", "DONE"}, NEW T,
         T = [S EXCEPT ![i] = [S[i] EXCEPT !.status = x]]
  PROVE  T \in [SeqSlots -> SequenceSet] /\ Marks(S, T, i, x)
<1> DEFINE t == [S[i] EXCEPT !.status = x]
<1>1. /\ t \in SequenceSet /\ t.status = x /\ t.name = S[i].name /\ t.job = S[i].job
      /\ t.index = S[i].index
  BY SequenceMarked
<1> HIDE DEF t
<1>2. T = [S EXCEPT ![i] = t]
  BY DEF t
<1>3. T \in [SeqSlots -> SequenceSet] /\ T[i] = t
  BY <1>1, <1>2
<1>4. SameBut(S, T, i)
  BY <1>2 DEF SameBut
<1> QED
  BY <1>1, <1>3, <1>4 DEF Marks

\* What every branch of pin_seq_event has in common.
LEMMA EventFacts ==
  ASSUME SeqInv, pin_seq_event
  PROVE  /\ seqAt \in SeqSlots /\ pin_seq_sequences[seqAt] \in Sequence
         /\ pin_seq_sequences[seqAt].status = "ACTIVE"
         /\ pin_seq_sequences[seqAt].job \in Jobs /\ pin_seq_sequences[seqAt].job <= pushes
         /\ pin_seq_sequences[seqAt].index \in Nat
         /\ seqAt' \in {AtRest, AtDelays, AtInputs} \cup SeqSlots
         /\ UNCHANGED <<pin_seq_sequence_idx, evtAt, execAt, event,
                        pushes, flushes, driven, finished, flushed>>
         /\ Unflushed' = Unflushed
         /\ Ring(clk_pit_events) /\ Ring(inputs)
         /\ pin_seq_sequences \in [SeqSlots -> SequenceSet]
<1>1. seqAt \in SeqSlots /\ pin_seq_sequences[seqAt].status = "ACTIVE"
  BY DEF pin_seq_event
<1>2. pin_seq_sequences \in [SeqSlots -> SequenceSet] /\ Ring(clk_pit_events) /\ Ring(inputs)
  BY DEF SeqInv, TypeOK, Ring
<1>3. pin_seq_sequences[seqAt] \in Sequence
  BY <1>1, <1>2, SequenceFacts
<1>4. /\ pin_seq_sequences[seqAt].job \in Jobs /\ pin_seq_sequences[seqAt].index \in Nat
      /\ pin_seq_sequences[seqAt].job <= pushes
  BY <1>1, <1>3 DEF Sequence, SeqInv, Pushed
<1>5. seqAt' \in {AtRest, AtDelays, AtInputs} \cup SeqSlots
  BY <1>1, SizeFacts DEF pin_seq_event, AfterSlot, SeqSlots
<1>6. UNCHANGED <<pin_seq_sequence_idx, evtAt, execAt, event,
                  pushes, flushes, driven, finished, flushed>>
  BY DEF pin_seq_event
<1>7. Unflushed' = Unflushed
  BY <1>6 DEF Unflushed
<1> QED
  BY <1>1, <1>2, <1>3, <1>4, <1>5, <1>6, <1>7

\* A sequence is marked, and no ring is touched.
LEMMA MarkKeeps ==
  ASSUME SeqInv, NEW i \in SeqSlots, NEW x \in {"INACTIVE", "DONE"},
         pin_seq_sequences[i].status \in {"ACTIVE", "DONE"},
         pin_seq_sequences' \in [SeqSlots -> SequenceSet],
         Marks(pin_seq_sequences, pin_seq_sequences', i, x),
         UNCHANGED <<clocks, ins, pushes, flushes, lost>>, Unflushed' => Unflushed
  PROVE  ~lost' => Paired'
<1> SUFFICES ASSUME ~lost' PROVE Paired'
  OBVIOUS
<1>1. Paired
  BY DEF SeqInv
<1>2. Ring(clk_pit_events) /\ Ring(inputs)
  BY DEF SeqInv, TypeOK, Ring
<1>3. clk_pit_events' = clk_pit_events /\ inputs' = inputs /\ pushes' = pushes /\ flushes' = flushes
  BY DEF clocks, ins
<1>4. Sound(pin_seq_sequences', clk_pit_events', "delay", pushes')
  BY <1>1, <1>2, <1>3, SlotMarks DEF Paired
<1>5. Sound(pin_seq_sequences', inputs', "get", pushes')
  BY <1>1, <1>2, <1>3, SlotMarks DEF Paired
<1>6. Unflushed' => Awaited(pin_seq_sequences', clk_pit_events', inputs')
  <2>1. ASSUME Unflushed', NEW j \in SeqSlots, pin_seq_sequences'[j].status = "PENDING"
        PROVE  \/ HasOwn(pin_seq_sequences', clk_pit_events', j)
               \/ HasOwn(pin_seq_sequences', inputs', j)
    <3>1. pin_seq_sequences[j].status = "PENDING"
      BY <2>1 DEF Marks, SameBut
    <3>2. HasOwn(pin_seq_sequences, clk_pit_events, j) \/ HasOwn(pin_seq_sequences, inputs, j)
      BY <1>1, <2>1, <3>1 DEF Paired, Awaited
    <3> QED
      BY <1>2, <1>3, <3>2, MarksKeepOwn
  <2> QED
    BY <2>1 DEF Awaited
<1>7. flushes' = 0 => Met(pin_seq_sequences', clk_pit_events') /\ Met(pin_seq_sequences', inputs')
  BY <1>1, <1>2, <1>3, SlotMarks DEF Paired
<1> QED
  BY <1>4, <1>5, <1>6, <1>7 DEF Paired

LEMMA EventEnds ==
  ASSUME SeqInv, pin_seq_event, UNCHANGED <<clocks, ins, outs, lost>>,
         pin_seq_sequences' = [pin_seq_sequences EXCEPT ![seqAt].status = "DONE"]
  PROVE  SeqInv'
<1>1. pin_seq_sequences' \in [SeqSlots -> SequenceSet]
      /\ Marks(pin_seq_sequences, pin_seq_sequences', seqAt, "DONE")
  BY EventFacts, SlotMarked
<1>2. TypeOK'
  BY <1>1, EventFacts DEF SeqInv, TypeOK, clocks, ins, outs
<1>3. Pushed'
  BY <1>1, EventFacts DEF SeqInv, Pushed, Marks, SameBut, outs
<1>4. UNCHANGED <<clocks, ins, pushes, flushes, lost>> /\ (Unflushed' => Unflushed)
      /\ seqAt \in SeqSlots /\ pin_seq_sequences[seqAt].status \in {"ACTIVE", "DONE"}
  BY EventFacts
<1>5. ~lost' => Paired'
  BY <1>1, <1>4, MarkKeeps
<1> QED
  BY <1>2, <1>3, <1>5 DEF SeqInv

LEMMA EventDelays ==
  ASSUME SeqInv, pin_seq_event, UNCHANGED <<ins, outs>>,
         {g.kind : g \in Current(pin_seq_sequences[seqAt])} = {"delay"},
         pin_seq_sequences' = [pin_seq_sequences EXCEPT ![seqAt].status = "PENDING"],
         NEW c, c = Wrap(clk_pit_event_idx, CLK_PIT_MAX_EVENTS),
         clk_pit_events' = [clk_pit_events EXCEPT ![c] = Entry(seqAt, pin_seq_sequences[seqAt])],
         clk_pit_event_idx' = c + 1, lost' = (lost \/ clk_pit_events[c].status # "INACTIVE")
  PROVE  SeqInv'
<1> DEFINE s == pin_seq_sequences[seqAt]
<1>1. pin_seq_sequences' \in [SeqSlots -> SequenceSet]
      /\ Marks(pin_seq_sequences, pin_seq_sequences', seqAt, "PENDING")
  BY EventFacts, SlotMarked
<1>2. c \in ClkSlots /\ clk_pit_event_idx' \in 0 .. CLK_PIT_MAX_EVENTS
  BY SizeFacts, WrapIn DEF SeqInv, TypeOK, ClkSlots
<1>3. Current(s) # {}
  OBVIOUS
<1>4. /\ Entry(seqAt, s) \in Entries /\ Entry(seqAt, s).ref = seqAt /\ Entry(seqAt, s).job = s.job
      /\ Entry(seqAt, s).step = s.index /\ Entry(seqAt, s).status = "waiting"
      /\ Current(s) = {Entry(seqAt, s).signal}
  BY <1>3, EventFacts, EntryFiled
<1>5. Entry(seqAt, s).signal.kind = "delay"
  BY <1>4
<1>6. clk_pit_events \in [ClkSlots -> Entries] /\ inputs' = inputs
  BY DEF SeqInv, TypeOK, clocks, ins
<1>7. /\ clk_pit_events' \in [ClkSlots -> Entries] /\ clk_pit_events'[c] = Entry(seqAt, s)
      /\ DOMAIN clk_pit_events' = DOMAIN clk_pit_events
      /\ \A k \in DOMAIN clk_pit_events : k # c => clk_pit_events'[k] = clk_pit_events[k]
  BY <1>2, <1>4, <1>6
<1>8. TypeOK'
  <2>1. lost' \in BOOLEAN
    BY DEF SeqInv, TypeOK
  <2> QED
    BY <1>1, <1>2, <1>7, <2>1, EventFacts DEF SeqInv, TypeOK, clocks, ins, outs
<1>9. Pushed'
  BY <1>1, EventFacts DEF SeqInv, Pushed, Marks, SameBut, outs
<1>10. ASSUME ~lost' PROVE Paired'
  <2>1. Paired /\ clk_pit_events[c].status = "INACTIVE"
    BY <1>10 DEF SeqInv
  <2>2. pushes \in Nat /\ pushes' = pushes /\ flushes' = flushes
    BY EventFacts, SizeFacts DEF SeqInv, TypeOK
  <2>3. Files(pin_seq_sequences, clk_pit_events, clk_pit_events', "delay", pushes, seqAt, c)
    BY <1>2, <1>4, <1>5, <1>6, <1>7, <2>1, EventFacts DEF Files
  <2>4. Sound(pin_seq_sequences', clk_pit_events', "delay", pushes')
    BY <1>1, <2>1, <2>2, <2>3, EventFacts, SlotFiles DEF Paired
  <2>5. Sound(pin_seq_sequences', inputs', "get", pushes')
    BY <1>1, <1>6, <2>1, <2>2, EventFacts, SlotMarks DEF Paired
  <2>6. Unflushed' => Awaited(pin_seq_sequences', clk_pit_events', inputs')
    <3>1. ASSUME Unflushed', NEW j \in SeqSlots, pin_seq_sequences'[j].status = "PENDING"
          PROVE  HasOwn(pin_seq_sequences', clk_pit_events', j) \/ HasOwn(pin_seq_sequences', inputs', j)
      <4>1. CASE j = seqAt
        BY <1>1, <2>3, <4>1, EventFacts, FilesKeepOwn
      <4>2. CASE j # seqAt
        <5>1. pin_seq_sequences[j].status = "PENDING"
          BY <1>1, <3>1, <4>2 DEF Marks, SameBut
        <5>2. HasOwn(pin_seq_sequences, clk_pit_events, j) \/ HasOwn(pin_seq_sequences, inputs, j)
          BY <2>1, <3>1, <5>1, EventFacts DEF Paired, Awaited
        <5>3. HasOwn(pin_seq_sequences, clk_pit_events, j) => HasOwn(pin_seq_sequences', clk_pit_events', j)
          BY <1>1, <2>3, EventFacts, FilesKeepOwn
        <5>4. HasOwn(pin_seq_sequences, inputs, j) => HasOwn(pin_seq_sequences', inputs', j)
          BY <1>1, <1>6, EventFacts, MarksKeepOwn
        <5> QED
          BY <5>2, <5>3, <5>4
      <4> QED
        BY <4>1, <4>2
    <3> QED
      BY <3>1 DEF Awaited
  <2>7. ASSUME flushes' = 0
        PROVE  Met(pin_seq_sequences', clk_pit_events') /\ Met(pin_seq_sequences', inputs')
    <3>1. Met(pin_seq_sequences, clk_pit_events) /\ Met(pin_seq_sequences, inputs)
      BY <2>1, <2>2, <2>7 DEF Paired
    <3>2. Met(pin_seq_sequences', clk_pit_events')
      BY <1>1, <2>2, <2>3, <3>1, EventFacts, SlotFiles
    <3>3. Met(pin_seq_sequences', inputs')
      BY <1>1, <1>6, <3>1, EventFacts, SlotMarks
    <3> QED
      BY <3>2, <3>3
  <2> QED
    BY <2>4, <2>5, <2>6, <2>7 DEF Paired
<1> QED
  BY <1>8, <1>9, <1>10 DEF SeqInv

LEMMA EventGets ==
  ASSUME SeqInv, pin_seq_event, UNCHANGED <<clocks, outs>>,
         {g.kind : g \in Current(pin_seq_sequences[seqAt])} = {"get"},
         pin_seq_sequences' = [pin_seq_sequences EXCEPT ![seqAt].status = "PENDING"],
         NEW c, c = Wrap(inputIdx, PIN_EVT_MAX_EVENTS),
         inputs' = [inputs EXCEPT ![c] = Entry(seqAt, pin_seq_sequences[seqAt])],
         inputIdx' = c + 1, lost' = (lost \/ inputs[c].status # "INACTIVE")
  PROVE  SeqInv'
<1> DEFINE s == pin_seq_sequences[seqAt]
<1>1. pin_seq_sequences' \in [SeqSlots -> SequenceSet]
      /\ Marks(pin_seq_sequences, pin_seq_sequences', seqAt, "PENDING")
  BY EventFacts, SlotMarked
<1>2. c \in EvtSlots /\ inputIdx' \in 0 .. PIN_EVT_MAX_EVENTS
  BY SizeFacts, WrapIn DEF SeqInv, TypeOK, EvtSlots
<1>3. Current(s) # {}
  OBVIOUS
<1>4. /\ Entry(seqAt, s) \in Entries /\ Entry(seqAt, s).ref = seqAt /\ Entry(seqAt, s).job = s.job
      /\ Entry(seqAt, s).step = s.index /\ Entry(seqAt, s).status = "waiting"
      /\ Current(s) = {Entry(seqAt, s).signal}
  BY <1>3, EventFacts, EntryFiled
<1>5. Entry(seqAt, s).signal.kind = "get"
  BY <1>4
<1>6. inputs \in [EvtSlots -> Entries] /\ clk_pit_events' = clk_pit_events
  BY DEF SeqInv, TypeOK, clocks, ins
<1>7. /\ inputs' \in [EvtSlots -> Entries] /\ inputs'[c] = Entry(seqAt, s)
      /\ DOMAIN inputs' = DOMAIN inputs
      /\ \A k \in DOMAIN inputs : k # c => inputs'[k] = inputs[k]
  BY <1>2, <1>4, <1>6
<1>8. TypeOK'
  <2>1. lost' \in BOOLEAN
    BY DEF SeqInv, TypeOK
  <2> QED
    BY <1>1, <1>2, <1>7, <2>1, EventFacts DEF SeqInv, TypeOK, clocks, ins, outs
<1>9. Pushed'
  BY <1>1, EventFacts DEF SeqInv, Pushed, Marks, SameBut, outs
<1>10. ASSUME ~lost' PROVE Paired'
  <2>1. Paired /\ inputs[c].status = "INACTIVE"
    BY <1>10 DEF SeqInv
  <2>2. pushes \in Nat /\ pushes' = pushes /\ flushes' = flushes
    BY EventFacts, SizeFacts DEF SeqInv, TypeOK
  <2>3. Files(pin_seq_sequences, inputs, inputs', "get", pushes, seqAt, c)
    BY <1>2, <1>4, <1>5, <1>6, <1>7, <2>1, EventFacts DEF Files
  <2>4. Sound(pin_seq_sequences', inputs', "get", pushes')
    BY <1>1, <2>1, <2>2, <2>3, EventFacts, SlotFiles DEF Paired
  <2>5. Sound(pin_seq_sequences', clk_pit_events', "delay", pushes')
    BY <1>1, <1>6, <2>1, <2>2, EventFacts, SlotMarks DEF Paired
  <2>6. Unflushed' => Awaited(pin_seq_sequences', clk_pit_events', inputs')
    <3>1. ASSUME Unflushed', NEW j \in SeqSlots, pin_seq_sequences'[j].status = "PENDING"
          PROVE  HasOwn(pin_seq_sequences', inputs', j) \/ HasOwn(pin_seq_sequences', clk_pit_events', j)
      <4>1. CASE j = seqAt
        BY <1>1, <2>3, <4>1, EventFacts, FilesKeepOwn
      <4>2. CASE j # seqAt
        <5>1. pin_seq_sequences[j].status = "PENDING"
          BY <1>1, <3>1, <4>2 DEF Marks, SameBut
        <5>2. HasOwn(pin_seq_sequences, inputs, j) \/ HasOwn(pin_seq_sequences, clk_pit_events, j)
          BY <2>1, <3>1, <5>1, EventFacts DEF Paired, Awaited
        <5>3. HasOwn(pin_seq_sequences, inputs, j) => HasOwn(pin_seq_sequences', inputs', j)
          BY <1>1, <2>3, EventFacts, FilesKeepOwn
        <5>4. HasOwn(pin_seq_sequences, clk_pit_events, j) => HasOwn(pin_seq_sequences', clk_pit_events', j)
          BY <1>1, <1>6, EventFacts, MarksKeepOwn
        <5> QED
          BY <5>2, <5>3, <5>4
      <4> QED
        BY <4>1, <4>2
    <3> QED
      BY <3>1 DEF Awaited
  <2>7. ASSUME flushes' = 0
        PROVE  Met(pin_seq_sequences', clk_pit_events') /\ Met(pin_seq_sequences', inputs')
    <3>1. Met(pin_seq_sequences, inputs) /\ Met(pin_seq_sequences, clk_pit_events)
      BY <2>1, <2>2, <2>7 DEF Paired
    <3>2. Met(pin_seq_sequences', inputs')
      BY <1>1, <2>2, <2>3, <3>1, EventFacts, SlotFiles
    <3>3. Met(pin_seq_sequences', clk_pit_events')
      BY <1>1, <1>6, <3>1, EventFacts, SlotMarks
    <3> QED
      BY <3>2, <3>3
  <2> QED
    BY <2>4, <2>5, <2>6, <2>7 DEF Paired
<1> QED
  BY <1>8, <1>9, <1>10 DEF SeqInv

LEMMA EventSets ==
  ASSUME SeqInv, pin_seq_event, UNCHANGED <<clocks, ins>>,
         {g.kind : g \in Current(pin_seq_sequences[seqAt])} = {"set"},
         pin_seq_sequences' = [pin_seq_sequences EXCEPT ![seqAt].index = @ + 1],
         NEW o, o = Wrap(outputIdx, PIN_EVT_MAX_EVENTS),
         outputs' = [outputs EXCEPT ![o] = Entry(seqAt, pin_seq_sequences[seqAt])],
         outputIdx' = o + 1, lost' = (lost \/ outputs[o].status # "INACTIVE")
  PROVE  SeqInv'
<1> DEFINE s == pin_seq_sequences[seqAt]
           t == [s EXCEPT !.index = s.index + 1]
           T == pin_seq_sequences'
<1>1. /\ t \in SequenceSet /\ t.status = "ACTIVE" /\ t.job = s.job /\ t.index = s.index + 1
  <2>1. s \in Sequence /\ s.status = "ACTIVE" /\ s.index + 1 \in Nat
    BY EventFacts
  <2> QED
    BY <2>1 DEF Sequence, SequenceSet
<1>2. pin_seq_sequences' = [pin_seq_sequences EXCEPT ![seqAt] = t]
  OBVIOUS
<1> HIDE DEF t
<1>3. /\ T \in [SeqSlots -> SequenceSet] /\ T[seqAt] = t
      /\ SameBut(pin_seq_sequences, T, seqAt)
  BY <1>1, <1>2, EventFacts DEF SameBut
<1>4. o \in EvtSlots /\ outputIdx' \in 0 .. PIN_EVT_MAX_EVENTS
  BY SizeFacts, WrapIn DEF SeqInv, TypeOK, EvtSlots
<1>5. Entry(seqAt, s) \in Entries /\ Entry(seqAt, s).job \in Jobs
  <2>1. Current(s) # {}
    OBVIOUS
  <2> QED
    BY <2>1, EventFacts, EntryFiled
<1>6. outputs' \in [EvtSlots -> Entries]
      /\ \A k \in EvtSlots : outputs'[k].status # "INACTIVE" => outputs'[k].job \in Jobs
  BY <1>4, <1>5 DEF SeqInv, TypeOK, Pushed
<1>7. TypeOK'
  <2>1. lost' \in BOOLEAN
    BY DEF SeqInv, TypeOK
  <2> QED
    BY <1>3, <1>4, <1>6, <2>1, EventFacts DEF SeqInv, TypeOK, clocks, ins
<1>8. Pushed'
  BY <1>1, <1>3, <1>6, EventFacts DEF SeqInv, Pushed, SameBut
<1>9. ASSUME ~lost' PROVE Paired'
  <2>1. Paired /\ clk_pit_events' = clk_pit_events /\ inputs' = inputs
    BY <1>9 DEF SeqInv, clocks, ins
  <2>2. pushes' = pushes /\ flushes' = flushes /\ (Unflushed' => Unflushed)
    BY EventFacts
  <2>3. /\ T[seqAt].job = s.job /\ T[seqAt].index = s.index + 1 /\ s.index \in Nat
        /\ seqAt \in SeqSlots /\ s.status = "ACTIVE" /\ T[seqAt].status = "ACTIVE"
    BY <1>1, <1>3, EventFacts
  <2>4. Sound(T, clk_pit_events', "delay", pushes')
    BY <1>3, <2>1, <2>2, <2>3, EventFacts, SlotMoves DEF Paired
  <2>5. Sound(T, inputs', "get", pushes')
    BY <1>3, <2>1, <2>2, <2>3, EventFacts, SlotMoves DEF Paired
  <2>6. Unflushed' => Awaited(T, clk_pit_events', inputs')
    <3>1. ASSUME Unflushed', NEW j \in SeqSlots, T[j].status = "PENDING"
          PROVE  HasOwn(T, clk_pit_events', j) \/ HasOwn(T, inputs', j)
      <4>1. j # seqAt /\ pin_seq_sequences[j].status = "PENDING"
        BY <1>3, <2>3, <3>1 DEF SameBut
      <4>2. HasOwn(pin_seq_sequences, clk_pit_events, j) \/ HasOwn(pin_seq_sequences, inputs, j)
        BY <2>1, <2>2, <3>1, <4>1 DEF Paired, Awaited
      <4> QED
        BY <1>3, <2>1, <4>1, <4>2, OthersKeepOwn
    <3> QED
      BY <3>1 DEF Awaited
  <2>7. ASSUME flushes' = 0 PROVE Met(T, clk_pit_events') /\ Met(T, inputs')
    <3>1. Met(pin_seq_sequences, clk_pit_events) /\ Met(pin_seq_sequences, inputs)
      BY <2>1, <2>2, <2>7 DEF Paired
    <3>2. /\ \A k \in Waits(clk_pit_events) : clk_pit_events[k].ref # seqAt
          /\ \A k \in Waits(inputs) : inputs[k].ref # seqAt
      BY <2>3, <3>1 DEF Met
    <3>3. Met(T, clk_pit_events)
      BY <1>3, <3>1, <3>2, EventFacts, OthersMeet
    <3>4. Met(T, inputs)
      BY <1>3, <3>1, <3>2, EventFacts, OthersMeet
    <3> QED
      BY <2>1, <3>3, <3>4
  <2> QED
    BY <2>4, <2>5, <2>6, <2>7 DEF Paired
<1> QED
  BY <1>7, <1>8, <1>9 DEF SeqInv

LEMMA EventSteps ==
  ASSUME SeqInv, pin_seq_event
  PROVE  SeqInv'
<1> DEFINE kinds == {g.kind : g \in Current(pin_seq_sequences[seqAt])}
           c == Wrap(clk_pit_event_idx, CLK_PIT_MAX_EVENTS)
           i == Wrap(inputIdx, PIN_EVT_MAX_EVENTS)
           o == Wrap(outputIdx, PIN_EVT_MAX_EVENTS)
<1>1. CASE /\ kinds = {}
           /\ pin_seq_sequences' = [pin_seq_sequences EXCEPT ![seqAt].status = "DONE"]
           /\ UNCHANGED <<clocks, ins, outs, lost>>
  BY <1>1, EventEnds
<1>2. CASE /\ kinds = {"delay"}
           /\ pin_seq_sequences' = [pin_seq_sequences EXCEPT ![seqAt].status = "PENDING"]
           /\ clk_pit_events' = [clk_pit_events EXCEPT ![c] = Entry(seqAt, pin_seq_sequences[seqAt])]
           /\ clk_pit_event_idx' = c + 1
           /\ lost' = (lost \/ clk_pit_events[c].status # "INACTIVE")
           /\ UNCHANGED <<ins, outs>>
  BY <1>2, EventDelays
<1>3. CASE /\ kinds = {"get"}
           /\ pin_seq_sequences' = [pin_seq_sequences EXCEPT ![seqAt].status = "PENDING"]
           /\ inputs' = [inputs EXCEPT ![i] = Entry(seqAt, pin_seq_sequences[seqAt])]
           /\ inputIdx' = i + 1
           /\ lost' = (lost \/ inputs[i].status # "INACTIVE")
           /\ UNCHANGED <<clocks, outs>>
  BY <1>3, EventGets
<1>4. CASE /\ kinds = {"set"}
           /\ pin_seq_sequences' = [pin_seq_sequences EXCEPT ![seqAt].index = @ + 1]
           /\ outputs' = [outputs EXCEPT ![o] = Entry(seqAt, pin_seq_sequences[seqAt])]
           /\ outputIdx' = o + 1
           /\ lost' = (lost \/ outputs[o].status # "INACTIVE")
           /\ UNCHANGED <<clocks, ins>>
  BY <1>4, EventSets
<1> QED
  BY <1>1, <1>2, <1>3, <1>4 DEF pin_seq_event

LEMMA DoneFirst ==
  ASSUME pin_seq_next
  PROVE  First(Done) \in SeqSlots /\ pin_seq_sequences[First(Done)].status = "DONE"
<1>1. Done \in SUBSET Nat /\ Done # {}
  BY SizeFacts DEF Done, pin_seq_next
<1>2. First(Done) \in Done
  BY <1>1, FirstIn
<1> QED
  BY <1>2 DEF Done

LEMMA NextSteps ==
  ASSUME SeqInv, pin_seq_next
  PROVE  SeqInv'
<1> DEFINE x == First(Done)
<1>1. x \in SeqSlots /\ pin_seq_sequences[x].status = "DONE"
  BY DoneFirst
<1>2. pin_seq_sequences \in [SeqSlots -> SequenceSet]
  BY DEF SeqInv, TypeOK
<1>3. /\ event' = pin_seq_sequences[x]
      /\ pin_seq_sequences' = [pin_seq_sequences EXCEPT ![x].status = "INACTIVE"]
      /\ finished' = finished \cup {event'.job}
      /\ execAt = "run" /\ execAt' \in {"run", "repush"}
      /\ execAt' = "repush" => event'.name \in EventNames
      /\ UNCHANGED <<pin_seq_sequence_idx, clocks, ins, outs, seqAt, evtAt,
                     pushes, flushes, driven, flushed, lost>>
  BY DEF pin_seq_next
<1> HIDE DEF x
<1>4. event' \in Sequence
  BY <1>1, <1>2, <1>3, SequenceFacts
<1>5. event' \in SequenceSet /\ event'.job \in Jobs
  BY <1>4 DEF Sequence, SequenceSet
<1>6. /\ pin_seq_sequences' \in [SeqSlots -> SequenceSet]
      /\ Marks(pin_seq_sequences, pin_seq_sequences', x, "INACTIVE")
  BY <1>1, <1>2, <1>3, SlotMarked
<1>7. finished' \subseteq Jobs
  BY <1>3, <1>5 DEF SeqInv, TypeOK
<1>8. TypeOK'
  BY <1>3, <1>5, <1>6, <1>7 DEF SeqInv, TypeOK, clocks, ins, outs
<1>9. Unflushed /\ Unflushed'
  BY <1>3 DEF Unflushed
<1>10. Pushed'
  BY <1>1, <1>3, <1>6, <1>9 DEF SeqInv, Pushed, Marks, SameBut, outs
<1>11. /\ UNCHANGED <<clocks, ins, pushes, flushes, lost>>
       /\ pin_seq_sequences[x].status \in {"ACTIVE", "DONE"}
  BY <1>1, <1>3
<1>12. ~lost' => Paired'
  BY <1>1, <1>6, <1>9, <1>11, MarkKeeps
<1> QED
  BY <1>8, <1>10, <1>12 DEF SeqInv

\* The rings of waits change, and no sequence does.
LEMMA RingsKeep ==
  ASSUME SeqInv, UNCHANGED <<sequences, pushes, lost>>, flushes' = 0 => flushes = 0,
         Fewer(clk_pit_events, clk_pit_events'), Fewer(inputs, inputs'),
         Unflushed' => /\ Unflushed
                       /\ \A k \in Waits(clk_pit_events) : k \in Waits(clk_pit_events')
                       /\ \A k \in Waits(inputs) : k \in Waits(inputs')
  PROVE  ~lost' => Paired'
<1> SUFFICES ASSUME ~lost' PROVE Paired'
  OBVIOUS
<1>1. Paired
  BY DEF SeqInv
<1>2. pin_seq_sequences' = pin_seq_sequences /\ pushes' = pushes
  BY DEF sequences
<1>3. Sound(pin_seq_sequences', clk_pit_events', "delay", pushes')
  BY <1>1, <1>2, FewerWaits DEF Paired
<1>4. Sound(pin_seq_sequences', inputs', "get", pushes')
  BY <1>1, <1>2, FewerWaits DEF Paired
<1>5. Unflushed' => Awaited(pin_seq_sequences', clk_pit_events', inputs')
  <2>1. ASSUME Unflushed', NEW j \in SeqSlots, pin_seq_sequences'[j].status = "PENDING"
        PROVE  \/ HasOwn(pin_seq_sequences', clk_pit_events', j)
               \/ HasOwn(pin_seq_sequences', inputs', j)
    <3>1. HasOwn(pin_seq_sequences, clk_pit_events, j) \/ HasOwn(pin_seq_sequences, inputs, j)
      BY <1>1, <1>2, <2>1 DEF Paired, Awaited
    <3>2. HasOwn(pin_seq_sequences, clk_pit_events, j) => HasOwn(pin_seq_sequences', clk_pit_events', j)
      BY <1>2, <2>1 DEF HasOwn, Own, Fewer, Waits
    <3>3. HasOwn(pin_seq_sequences, inputs, j) => HasOwn(pin_seq_sequences', inputs', j)
      BY <1>2, <2>1 DEF HasOwn, Own, Fewer, Waits
    <3> QED
      BY <3>1, <3>2, <3>3
  <2> QED
    BY <2>1 DEF Awaited
<1>6. flushes' = 0 => Met(pin_seq_sequences', clk_pit_events') /\ Met(pin_seq_sequences', inputs')
  <2>1. flushes' = 0 => Met(pin_seq_sequences, clk_pit_events) /\ Met(pin_seq_sequences, inputs)
    BY <1>1 DEF Paired
  <2> QED
    BY <1>2, <2>1, FewerWaits
<1> QED
  BY <1>3, <1>4, <1>5, <1>6 DEF Paired

\* The status of a wait or an output changes.
EntryMarks(R, Q, i, x) == Q = [R EXCEPT ![i].status = x]

LEMMA EntryMarked ==
  ASSUME NEW slots, NEW R \in [slots -> Entries], NEW i \in slots, NEW x \in {"INACTIVE", "over"},
         NEW Q, EntryMarks(R, Q, i, x)
  PROVE  /\ Q \in [slots -> Entries] /\ Q[i].status = x /\ Q[i].job = R[i].job
         /\ \A k \in slots : k # i => Q[k] = R[k]
         /\ R[i].status # "INACTIVE" => Fewer(R, Q)
<1> DEFINE f == [R[i] EXCEPT !.status = x]
<1>1. /\ f \in Entries /\ f.status = x /\ f.ref = R[i].ref /\ f.job = R[i].job
      /\ f.step = R[i].step /\ f.signal = R[i].signal
  BY RingStatus
<1> HIDE DEF f
<1>2. Q = [R EXCEPT ![i] = f]
  BY DEF f, EntryMarks
<1>3. Q \in [slots -> Entries] /\ Q[i] = f /\ \A k \in slots : k # i => Q[k] = R[k]
  BY <1>1, <1>2
<1> QED
  BY <1>1, <1>3 DEF Fewer

LEMMA UpdateSteps ==
  ASSUME SeqInv,
         (\E i \in ClkSlots : clk_pit_update(i)) \/ (\E i \in EvtSlots : pin_evt_seen(i))
  PROVE  SeqInv'
<1>1. ASSUME NEW i \in ClkSlots, clk_pit_update(i) PROVE SeqInv'
  <2>1. /\ EntryMarks(clk_pit_events, clk_pit_events', i, "over")
        /\ clk_pit_events[i].status = "waiting"
        /\ UNCHANGED <<sequences, clk_pit_event_idx, ins, outs, seqAt, evtAt, execAt, event, history>>
    BY <1>1 DEF clk_pit_update, EntryMarks
  <2>2. clk_pit_events \in [ClkSlots -> Entries]
    BY DEF SeqInv, TypeOK
  <2>3. /\ clk_pit_events' \in [ClkSlots -> Entries] /\ clk_pit_events'[i].status = "over"
        /\ \A k \in ClkSlots : k # i => clk_pit_events'[k] = clk_pit_events[k]
        /\ Fewer(clk_pit_events, clk_pit_events')
    BY <2>1, <2>2, EntryMarked
  <2>4. TypeOK'
    BY <2>1, <2>3 DEF SeqInv, TypeOK, sequences, ins, outs, history
  <2>5. Pushed'
    BY <2>1 DEF SeqInv, Pushed, Unflushed, sequences, outs, history
  <2>6. Fewer(inputs, inputs') /\ inputs' = inputs
    BY <2>1 DEF Fewer, ins
  <2>7. /\ UNCHANGED <<sequences, pushes, lost>> /\ flushes' = flushes
        /\ Unflushed' = Unflushed
    BY <2>1 DEF history, Unflushed
  <2>8. \A k \in Waits(clk_pit_events) : k \in Waits(clk_pit_events')
    BY <2>2, <2>3 DEF Waits
  <2>9. ~lost' => Paired'
    BY <2>3, <2>6, <2>7, <2>8, RingsKeep
  <2> QED
    BY <2>4, <2>5, <2>9 DEF SeqInv
<1>2. ASSUME NEW i \in EvtSlots, pin_evt_seen(i) PROVE SeqInv'
  <2>1. /\ EntryMarks(inputs, inputs', i, "over")
        /\ inputs[i].status = "waiting"
        /\ UNCHANGED <<sequences, clocks, inputIdx, outs, seqAt, evtAt, execAt, event, history>>
    BY <1>2 DEF pin_evt_seen, EntryMarks
  <2>2. inputs \in [EvtSlots -> Entries]
    BY DEF SeqInv, TypeOK
  <2>3. /\ inputs' \in [EvtSlots -> Entries] /\ inputs'[i].status = "over"
        /\ \A k \in EvtSlots : k # i => inputs'[k] = inputs[k]
        /\ Fewer(inputs, inputs')
    BY <2>1, <2>2, EntryMarked
  <2>4. TypeOK'
    BY <2>1, <2>3 DEF SeqInv, TypeOK, sequences, clocks, outs, history
  <2>5. Pushed'
    BY <2>1 DEF SeqInv, Pushed, Unflushed, sequences, outs, history
  <2>6. Fewer(clk_pit_events, clk_pit_events') /\ clk_pit_events' = clk_pit_events
    BY <2>1 DEF Fewer, clocks
  <2>7. /\ UNCHANGED <<sequences, pushes, lost>> /\ flushes' = flushes
        /\ Unflushed' = Unflushed
    BY <2>1 DEF history, Unflushed
  <2>8. \A k \in Waits(inputs) : k \in Waits(inputs')
    BY <2>2, <2>3 DEF Waits
  <2>9. ~lost' => Paired'
    BY <2>3, <2>6, <2>7, <2>8, RingsKeep
  <2> QED
    BY <2>4, <2>5, <2>9 DEF SeqInv
<1> QED
  BY <1>1, <1>2

LEMMA SetSteps ==
  ASSUME SeqInv, pin_evt_set
  PROVE  SeqInv'
<1>1. /\ evtAt' = (evtAt + 1) % PIN_EVT_MAX_EVENTS
      /\ UNCHANGED <<sequences, clocks, ins, outputIdx, seqAt, execAt, event,
                     pushes, flushes, finished, flushed, lost>>
  BY DEF pin_evt_set
<1>2. evtAt' \in EvtSlots
  BY <1>1, SizeFacts DEF SeqInv, TypeOK, EvtSlots
<1>3. evtAt \in EvtSlots /\ outputs \in [EvtSlots -> Entries] /\ driven \in [Jobs -> Seq(Nat)]
  BY DEF SeqInv, TypeOK
<1>4. /\ outputs' \in [EvtSlots -> Entries] /\ driven' \in [Jobs -> Seq(Nat)]
      /\ \A k \in EvtSlots : outputs'[k].status # "INACTIVE" => outputs'[k].job \in Jobs
  <2>1. CASE outputs[evtAt].status = "waiting"
    <3>1. /\ EntryMarks(outputs, outputs', evtAt, "INACTIVE")
          /\ driven' = [driven EXCEPT ![outputs[evtAt].job] = Append(@, outputs[evtAt].step)]
      BY <2>1 DEF pin_evt_set, EntryMarks
    <3>2. /\ outputs' \in [EvtSlots -> Entries] /\ outputs'[evtAt].status = "INACTIVE"
          /\ \A k \in EvtSlots : k # evtAt => outputs'[k] = outputs[k]
      BY <1>3, <3>1, EntryMarked
    <3>3. outputs[evtAt].job \in Jobs /\ outputs[evtAt].step \in Nat
      BY <1>3, <2>1, EntryFacts DEF SeqInv, Pushed
    <3>4. Append(driven[outputs[evtAt].job], outputs[evtAt].step) \in Seq(Nat)
      BY <1>3, <3>3
    <3>5. driven' \in [Jobs -> Seq(Nat)]
      BY <1>3, <3>1, <3>3, <3>4
    <3>6. \A k \in EvtSlots : outputs'[k].status # "INACTIVE" => outputs'[k].job \in Jobs
      BY <3>2 DEF SeqInv, Pushed
    <3> QED
      BY <3>2, <3>5, <3>6
  <2>2. CASE outputs[evtAt].status # "waiting"
    <3>1. UNCHANGED <<outputs, driven>>
      BY <2>2 DEF pin_evt_set
    <3> QED
      BY <1>3, <3>1 DEF SeqInv, Pushed
  <2> QED
    BY <2>1, <2>2
<1>5. TypeOK'
  BY <1>1, <1>2, <1>4 DEF SeqInv, TypeOK, sequences, clocks, ins
<1>6. Pushed'
  BY <1>1, <1>4 DEF SeqInv, Pushed, Unflushed, sequences
<1>7. UNCHANGED <<sequences, clocks, ins, pushes, flushes>> /\ Unflushed' = Unflushed /\ lost' = lost
  BY <1>1 DEF Unflushed
<1>8. ~lost' => Paired'
  BY <1>7, Quiet
<1> QED
  BY <1>5, <1>6, <1>8 DEF SeqInv

\* A ring is emptied.
Emptied(R, Q, slots) == Q = [i \in slots |-> [R[i] EXCEPT !.status = "INACTIVE"]]

LEMMA EntriesEmptied ==
  ASSUME NEW slots, NEW R \in [slots -> Entries], NEW Q, Emptied(R, Q, slots)
  PROVE  Q \in [slots -> Entries] /\ (\A i \in slots : Q[i].status = "INACTIVE") /\ Fewer(R, Q)
<1>1. \A i \in slots : R[i] \in Entries /\ Q[i] = [R[i] EXCEPT !.status = "INACTIVE"]
  BY DEF Emptied
<1>2. ASSUME NEW i \in slots PROVE Q[i] \in Entries /\ Q[i].status = "INACTIVE"
  <2> DEFINE f == [R[i] EXCEPT !.status = "INACTIVE"]
  <2>1. f \in Entries /\ f.status = "INACTIVE"
    BY <1>1, RingStatus
  <2>2. Q[i] = f
    BY <1>1
  <2> HIDE DEF f
  <2> QED
    BY <2>1, <2>2
<1>3. Q \in [slots -> Entries]
  BY <1>2 DEF Emptied
<1>4. Fewer(R, Q)
  BY <1>2, <1>3 DEF Fewer
<1> QED
  BY <1>2, <1>3, <1>4

LEMMA EvtFlushSteps ==
  ASSUME SeqInv, pin_evt_flush
  PROVE  SeqInv'
<1>1. /\ flushes < MaxFlush /\ flushes' = flushes + 1
      /\ execAt' = "evtFlushed" /\ inputIdx' = 0 /\ outputIdx' = 0
      /\ UNCHANGED <<sequences, clocks, seqAt, evtAt, event, pushes, driven, finished,
                     flushed, lost>>
  BY DEF pin_evt_flush
<1>2. inputs \in [EvtSlots -> Entries] /\ outputs \in [EvtSlots -> Entries]
  BY DEF SeqInv, TypeOK
<1>3. Emptied(inputs, inputs', EvtSlots)
  BY DEF pin_evt_flush, Emptied
<1>4. inputs' \in [EvtSlots -> Entries] /\ Fewer(inputs, inputs')
  BY <1>2, <1>3, EntriesEmptied
<1>5. Emptied(outputs, outputs', EvtSlots)
  BY DEF pin_evt_flush, Emptied
<1>6. outputs' \in [EvtSlots -> Entries] /\ \A k \in EvtSlots : outputs'[k].status = "INACTIVE"
  BY <1>2, <1>5, EntriesEmptied
<1>7. flushes' \in 0 .. MaxFlush /\ flushes' > 0 /\ 0 \in 0 .. PIN_EVT_MAX_EVENTS
  BY <1>1, SizeFacts DEF SeqInv, TypeOK
<1>8. TypeOK'
  BY <1>1, <1>4, <1>6, <1>7 DEF SeqInv, TypeOK, sequences, clocks
<1>9. Pushed'
  BY <1>1, <1>6, <1>7 DEF SeqInv, Pushed, sequences
<1>10. Fewer(clk_pit_events, clk_pit_events')
  BY <1>1 DEF Fewer, clocks
<1>11. UNCHANGED <<sequences, pushes, lost>> /\ ~Unflushed'
  BY <1>1 DEF Unflushed
<1>12. ~lost' => Paired'
  BY <1>4, <1>7, <1>10, <1>11, RingsKeep
<1> QED
  BY <1>8, <1>9, <1>12 DEF SeqInv

LEMMA ClkFlushSteps ==
  ASSUME SeqInv, clk_pit_flush
  PROVE  SeqInv'
<1>1. /\ execAt = "evtFlushed" /\ execAt' = "clkFlushed" /\ clk_pit_event_idx' = 0
      /\ UNCHANGED <<sequences, ins, outs, seqAt, evtAt, event, history>>
  BY DEF clk_pit_flush
<1>2. Emptied(clk_pit_events, clk_pit_events', ClkSlots)
  BY DEF clk_pit_flush, Emptied
<1>3. clk_pit_events' \in [ClkSlots -> Entries] /\ Fewer(clk_pit_events, clk_pit_events')
  BY <1>2, EntriesEmptied DEF SeqInv, TypeOK
<1>4. 0 \in 0 .. CLK_PIT_MAX_EVENTS
  BY SizeFacts
<1>5. TypeOK'
  BY <1>1, <1>3, <1>4 DEF SeqInv, TypeOK, sequences, ins, outs, history
<1>6. Pushed'
  BY <1>1 DEF SeqInv, Pushed, Unflushed, sequences, outs, history
<1>7. Fewer(inputs, inputs')
  BY <1>1 DEF Fewer, ins
<1>8. UNCHANGED <<sequences, pushes, lost>> /\ flushes' = flushes /\ ~Unflushed'
  BY <1>1 DEF Unflushed, history
<1>9. ~lost' => Paired'
  BY <1>3, <1>7, <1>8, RingsKeep
<1> QED
  BY <1>5, <1>6, <1>9 DEF SeqInv

LEMMA AllMarked ==
  ASSUME NEW S, NEW T, NEW R, NEW g, NEW p, Ring(R), Sound(S, R, g, p),
         \A i \in SeqSlots : /\ T[i].name = S[i].name /\ T[i].job = S[i].job
                             /\ T[i].index = S[i].index /\ T[i].status = "INACTIVE"
  PROVE  Sound(T, R, g, p)
<1>1. \A k \in Waits(R) : R[k].ref \in SeqSlots
  BY EntryFacts DEF Waits, Ring
<1>2. \A k \in Waits(R) : /\ Own(T, R[k]) = Own(S, R[k])
                          /\ Current(T[R[k].ref]) = Current(S[R[k].ref])
                          /\ T[R[k].ref].job = S[R[k].ref].job
                          /\ T[R[k].ref].index = S[R[k].ref].index
                          /\ T[R[k].ref].status = "INACTIVE"
  BY <1>1 DEF Own, Current
<1> QED
  BY <1>2 DEF Sound

LEMMA SeqFlushSteps ==
  ASSUME SeqInv, pin_seq_flush
  PROVE  SeqInv'
<1>1. /\ execAt = "clkFlushed" /\ execAt' = "off" /\ pin_seq_sequence_idx' = 0
      /\ flushed' = pushes
      /\ UNCHANGED <<clocks, ins, outs, seqAt, evtAt, event, pushes, flushes, driven,
                     finished, lost>>
  BY DEF pin_seq_flush
<1>2. pin_seq_sequences \in [SeqSlots -> SequenceSet]
  BY DEF SeqInv, TypeOK
<1>3. pin_seq_sequences' = [i \in SeqSlots |-> [pin_seq_sequences[i] EXCEPT !.status = "INACTIVE"]]
  BY DEF pin_seq_flush
<1>4. ASSUME NEW i \in SeqSlots
      PROVE  /\ pin_seq_sequences'[i] \in SequenceSet
             /\ pin_seq_sequences'[i].name = pin_seq_sequences[i].name
             /\ pin_seq_sequences'[i].job = pin_seq_sequences[i].job
             /\ pin_seq_sequences'[i].index = pin_seq_sequences[i].index
             /\ pin_seq_sequences'[i].status = "INACTIVE"
  <2> DEFINE s == pin_seq_sequences[i]
             t == [s EXCEPT !.status = "INACTIVE"]
  <2>1. s \in SequenceSet
    BY <1>2
  <2>2. /\ t \in SequenceSet /\ t.status = "INACTIVE" /\ t.name = s.name /\ t.job = s.job
        /\ t.index = s.index
    BY <2>1, SequenceMarked
  <2>3. pin_seq_sequences'[i] = t
    BY <1>3
  <2> HIDE DEF t
  <2> QED
    BY <2>2, <2>3
<1>5. pin_seq_sequences' \in [SeqSlots -> SequenceSet]
  BY <1>3, <1>4
<1>6. 0 \in 0 .. PIN_SEQ_MAX_SEQUENCES /\ pushes \in 0 .. MaxPush /\ flushes \in Nat
  BY SizeFacts DEF SeqInv, TypeOK
<1>7. TypeOK'
  BY <1>1, <1>5, <1>6 DEF SeqInv, TypeOK, clocks, ins, outs
<1>8. ~Unflushed /\ Unflushed'
  BY <1>1 DEF Unflushed
<1>9. Pushed'
  BY <1>1, <1>4, <1>8 DEF SeqInv, Pushed, outs
<1>10. ASSUME ~lost' PROVE Paired'
  <2>1. Paired
    BY <1>1, <1>10 DEF SeqInv
  <2>2. Ring(clk_pit_events) /\ Ring(inputs)
    BY DEF SeqInv, TypeOK, Ring
  <2>3. clk_pit_events' = clk_pit_events /\ inputs' = inputs /\ pushes' = pushes /\ flushes' = flushes
    BY <1>1 DEF clocks, ins
  <2>4. Sound(pin_seq_sequences', clk_pit_events', "delay", pushes')
    BY <1>4, <2>1, <2>2, <2>3, AllMarked DEF Paired
  <2>5. Sound(pin_seq_sequences', inputs', "get", pushes')
    BY <1>4, <2>1, <2>2, <2>3, AllMarked DEF Paired
  <2>6. Awaited(pin_seq_sequences', clk_pit_events', inputs')
    BY <1>4 DEF Awaited
  <2>7. flushes' # 0
    BY <1>6, <1>8, <2>3 DEF SeqInv, Pushed
  <2> QED
    BY <2>4, <2>5, <2>6, <2>7 DEF Paired
<1> QED
  BY <1>7, <1>9, <1>10 DEF SeqInv

-----------------------------------------------------------------------------
(* The invariant, and what it says.                                        *)

LEMMA InitInv == Init => SeqInv
<1> SUFFICES ASSUME Init PROVE SeqInv
  OBVIOUS
<1>1. None \in SequenceSet /\ None.job = 0 /\ None.status = "INACTIVE"
  BY DEF SequenceSet, None
<1>2. /\ pin_seq_sequences \in [SeqSlots -> SequenceSet]
      /\ clk_pit_events \in [ClkSlots -> Entries] /\ inputs \in [EvtSlots -> Entries]
      /\ outputs \in [EvtSlots -> Entries]
  BY <1>1, NoEntryIn DEF Init
<1>3. driven \in [Jobs -> Seq(Nat)]
  BY DEF Init
<1>4. TypeOK
  <2>1. /\ 0 \in 0 .. PIN_SEQ_MAX_SEQUENCES /\ 0 \in 0 .. CLK_PIT_MAX_EVENTS
        /\ 0 \in 0 .. PIN_EVT_MAX_EVENTS /\ 0 \in EvtSlots
        /\ 0 \in 0 .. MaxPush /\ 0 \in 0 .. MaxFlush
    BY SizeFacts
  <2>2. /\ pin_seq_sequence_idx = 0 /\ clk_pit_event_idx = 0 /\ inputIdx = 0 /\ outputIdx = 0
        /\ seqAt = AtRest /\ evtAt = 0 /\ execAt = "off" /\ event = None
        /\ pushes = 0 /\ flushes = 0 /\ finished = {} /\ flushed = 0 /\ lost = FALSE
    BY DEF Init
  <2> QED
    BY <1>1, <1>2, <1>3, <2>1, <2>2 DEF TypeOK
<1>5. Unflushed
  BY DEF Init, Unflushed
<1>6. Pushed
  BY <1>1, <1>5, NoEntryIn DEF Init, Pushed
<1>7. Waits(clk_pit_events) = {} /\ Waits(inputs) = {}
  BY NoEntryIn DEF Init, Waits
<1>8. \A i \in SeqSlots : pin_seq_sequences[i].status = "INACTIVE"
  BY <1>1 DEF Init
<1>9. Paired
  BY <1>7, <1>8 DEF Paired, Sound, Met, Awaited
<1> QED
  BY <1>4, <1>6, <1>9 DEF SeqInv

LEMMA StepInv == SeqInv /\ [Next]_vars => SeqInv'
<1> SUFFICES ASSUME SeqInv, [Next]_vars PROVE SeqInv'
  OBVIOUS
<1>1. CASE \E n \in Names : machine_single_prepare(n) \/ execution_perform(n)
  BY <1>1, PushSteps
<1>2. CASE pin_seq_update
  BY <1>2, TurnSteps, DelayCollected, SignalCollected, EventSteps DEF pin_seq_update
<1>3. CASE execution_update
  BY <1>3, NextSteps, EngageSteps, PushSteps DEF execution_update
<1>4. CASE queues_flush
  BY <1>4, EvtFlushSteps, ClkFlushSteps, SeqFlushSteps, EngageSteps DEF queues_flush
<1>5. CASE \E i \in ClkSlots : clk_pit_update(i)
  BY <1>5, UpdateSteps
<1>6. CASE \E i \in EvtSlots : pin_evt_seen(i)
  BY <1>6, UpdateSteps
<1>7. CASE pin_evt_set
  BY <1>7, SetSteps
<1>8. CASE UNCHANGED vars
  <2>1. UNCHANGED <<sequences, clocks, ins, outs, seqAt, evtAt, execAt, event, history>>
    BY <1>8 DEF vars
  <2>2. TypeOK'
    BY <2>1 DEF SeqInv, TypeOK, sequences, clocks, ins, outs, history
  <2>3. Pushed'
    BY <2>1 DEF SeqInv, Pushed, Unflushed, sequences, outs, history
  <2>4. /\ UNCHANGED <<sequences, clocks, ins, pushes, flushes>> /\ lost' = lost
        /\ Unflushed' = Unflushed
    BY <2>1 DEF history, Unflushed
  <2>5. ~lost' => Paired'
    BY <2>4, Quiet
  <2> QED
    BY <2>2, <2>3, <2>5 DEF SeqInv
<1> QED
  BY <1>1, <1>2, <1>3, <1>4, <1>5, <1>6, <1>7, <1>8 DEF Next

\* Whatever is pushed, seen, timed out or flushed, the waits that belong to a sequence
\* are of the step it stands at, one for each sequence that waits (pin_seq.c, clk_pit.c,
\* pin_evt.c), as long as nothing live was overwritten.
THEOREM SequencesPaired == Spec => []SeqInv
<1>1. Init => SeqInv
  BY InitInv
<1>2. SeqInv /\ [Next]_vars => SeqInv'
  BY StepInv
<1> QED
  BY <1>1, <1>2, PTL DEF Spec

\* The variables keep their types: a ring index and a slot stay within their ring, and
\* what is pushed again is a sequence (pin_seq.c, pin_evt.c, clk_pit.c, execution.c).
THEOREM TypeCorrect == Spec => []TypeOK
<1>1. SeqInv => TypeOK
  BY DEF SeqInv
<1> QED
  BY <1>1, SequencesPaired, PTL

\* Until the first flush no wait is left that nobody waits for: a wait finds the push
\* that filed it, at the step that filed it (pin_seq_delay, pin_seq_signal).
THEOREM NoStrayWaitHolds == Spec => []NoStrayWait
<1>1. SeqInv => NoStrayWait
  <2> SUFFICES ASSUME SeqInv, ~lost, flushes = 0, NEW ring \in {clk_pit_events, inputs},
                      NEW k \in DOMAIN ring, ring[k].status # "INACTIVE"
               PROVE  /\ pin_seq_sequences[ring[k].ref].status = "PENDING"
                      /\ pin_seq_sequences[ring[k].ref].job = ring[k].job
                      /\ pin_seq_sequences[ring[k].ref].index = ring[k].step
    BY DEF NoStrayWait
  <2>1. Met(pin_seq_sequences, ring)
    BY DEF SeqInv, Paired
  <2> QED
    BY <2>1 DEF Met, Own, Waits
<1> QED
  BY <1>1, SequencesPaired, PTL

\* A wait counts once in one ring, and then not at all in the other.
OwnWaits(S, R, i) == {k \in Waits(R) : R[k].ref = i /\ Own(S, R[k])}

LEMMA OneInAll ==
  ASSUME NEW S, NEW R, NEW Q, NEW g, NEW h, g # h, NEW p, NEW i,
         Sound(S, R, g, p), Sound(S, Q, h, p), HasOwn(S, R, i)
  PROVE  Cardinality(OwnWaits(S, R, i)) = 1 /\ Cardinality(OwnWaits(S, Q, i)) = 0
<1>1. PICK k \in Waits(R) : R[k].ref = i /\ Own(S, R[k])
  BY DEF HasOwn
<1>2. \A l \in Waits(R) : R[l].ref = i /\ Own(S, R[l]) => l = k
  BY <1>1 DEF Sound
<1>3. OwnWaits(S, R, i) = {k}
  BY <1>1, <1>2 DEF OwnWaits
<1>4. R[k].signal.kind = g /\ Current(S[i]) = {R[k].signal}
  BY <1>1 DEF Sound
<1>5. ASSUME NEW l \in Waits(Q), Q[l].ref = i, Own(S, Q[l]) PROVE FALSE
  <2>1. Q[l].signal.kind = h /\ Current(S[i]) = {Q[l].signal}
    BY <1>5 DEF Sound
  <2>2. Q[l].signal = R[k].signal
    BY <1>4, <2>1
  <2> QED
    BY <1>4, <2>1, <2>2
<1>6. OwnWaits(S, Q, i) = {}
  BY <1>5 DEF OwnWaits
<1>7. Cardinality({k}) = 1
  BY FS_Singleton
<1>8. Cardinality({}) = 0
  BY FS_EmptySet
<1> QED
  BY <1>3, <1>6, <1>7, <1>8

\* A sequence that waits has exactly one wait filed for it, of its own push and step:
\* it is neither left waiting for nothing nor woken twice (pin_seq_event files it,
\* clk_pit_update and pin_evt_update complete it, pin_seq_delay and pin_seq_signal
\* collect it), while the rings are not lapped and no flush is under way.
THEOREM OneWaitHolds == Spec => []OneWaitEach
<1>1. SeqInv => OneWaitEach
  <2> SUFFICES ASSUME SeqInv, execAt \in {"run", "repush"}, ~lost,
                      NEW i \in SeqSlots, pin_seq_sequences[i].status = "PENDING"
               PROVE  Outstanding(i) = 1
    BY DEF OneWaitEach
  <2> DEFINE c == OwnWaits(pin_seq_sequences, clk_pit_events, i)
             e == OwnWaits(pin_seq_sequences, inputs, i)
  <2>1. DOMAIN clk_pit_events = ClkSlots /\ DOMAIN inputs = EvtSlots
    BY DEF SeqInv, TypeOK
  <2>2. Outstanding(i) = Cardinality(c) + Cardinality(e)
    <3>1. c = {k \in ClkSlots : /\ clk_pit_events[k].status # "INACTIVE"
                                /\ clk_pit_events[k].ref = i
                                /\ clk_pit_events[k].job = pin_seq_sequences[i].job
                                /\ clk_pit_events[k].step = pin_seq_sequences[i].index}
      BY <2>1 DEF OwnWaits, Own, Waits
    <3>2. e = {k \in EvtSlots : /\ inputs[k].status # "INACTIVE" /\ inputs[k].ref = i
                                /\ inputs[k].job = pin_seq_sequences[i].job
                                /\ inputs[k].step = pin_seq_sequences[i].index}
      BY <2>1 DEF OwnWaits, Own, Waits
    <3> QED
      BY <3>1, <3>2 DEF Outstanding
  <2>3. /\ Sound(pin_seq_sequences, clk_pit_events, "delay", pushes)
        /\ Sound(pin_seq_sequences, inputs, "get", pushes)
        /\ \/ HasOwn(pin_seq_sequences, clk_pit_events, i)
           \/ HasOwn(pin_seq_sequences, inputs, i)
    BY DEF SeqInv, Paired, Unflushed, Awaited
  <2>4. CASE HasOwn(pin_seq_sequences, clk_pit_events, i)
    <3>1. Cardinality(c) = 1 /\ Cardinality(e) = 0
      BY <2>3, <2>4, OneInAll
    <3> QED
      BY <2>2, <3>1
  <2>5. CASE HasOwn(pin_seq_sequences, inputs, i)
    <3>1. Cardinality(e) = 1 /\ Cardinality(c) = 0
      BY <2>3, <2>5, OneInAll
    <3> QED
      BY <2>2, <3>1
  <2> QED
    BY <2>3, <2>4, <2>5
<1> QED
  BY <1>1, SequencesPaired, PTL


-----------------------------------------------------------------------------

-----------------------------------------------------------------------------
(* Outputs, in the order of the pattern. S stands for the sequences, O for *)
(* the outputs, D for the steps driven and f for the jobs finished.        *)

\* An output that waits is the step its sequence went past last, in this turn.
Filed(S, O, a) ==
  /\ \A k \in Waits(O) :
       /\ O[k].status = "waiting"
       /\ S[O[k].ref].status = "ACTIVE" /\ S[O[k].ref].job = O[k].job
       /\ O[k].step + 1 = S[O[k].ref].index /\ O[k].step \in Sets(S[O[k].ref].name)
       /\ a = AtRest \/ (a \in SeqSlots /\ O[k].ref < a)
  /\ \A k, l \in Waits(O) : O[k].ref = O[l].ref => k = l

\* Every push has a slot of its own.
Distinct(S) ==
  \A i, l \in SeqSlots : S[i].job \in Jobs /\ S[i].job = S[l].job => i = l

\* What the sequence in slot i went past is driven or waits to be, behind all that is.
Passed(S, O, D, f, i) ==
  LET s == S[i]
      d == D[s.job]
  IN  s.job \in Jobs =>
        /\ s.index \in Nat \ {0}
        /\ Turns(d) /\ Driven(d) \subseteq Sets(s.name)
        /\ \A x \in Driven(d) : x < s.index
        /\ \A x \in Sets(s.name) : x < s.index =>
             x \in Driven(d) \/ \E k \in Waits(O) : O[k].ref = i /\ O[k].step = x
        /\ \A k \in Waits(O) : O[k].ref = i => \A x \in Driven(d) : x < O[k].step
        /\ s.status = "DONE" \/ s.job \in f => s.index \notin DOMAIN Pattern[s.name]
        /\ s.job \in f => s.status = "INACTIVE"

InOrder ==
  /\ Filed(pin_seq_sequences, outputs, seqAt)
  /\ Distinct(pin_seq_sequences)
  /\ \A j \in Jobs : j > pushes => driven[j] = <<>> /\ j \notin finished
  /\ \A i \in SeqSlots : Passed(pin_seq_sequences, outputs, driven, finished, i)

OrderInv == Prompt /\ ~lost /\ flushes = 0 => InOrder

\* Slot i and its outputs are as they were.
SameAt(S, T, O, Q, D, E, f, h, i) ==
  /\ T[i] = S[i] /\ E[S[i].job] = D[S[i].job] /\ (S[i].job \in h => S[i].job \in f)
  /\ \A k \in Waits(Q) : Q[k].ref = i => k \in Waits(O) /\ O[k].ref = i /\ O[k].step = Q[k].step
  /\ \A k \in Waits(O) : O[k].ref = i => k \in Waits(Q) /\ Q[k].ref = i /\ O[k].step = Q[k].step

LEMMA PassedStill ==
  ASSUME NEW S, NEW T, NEW O, NEW Q, NEW D, NEW E, NEW f, NEW h, NEW i,
         SameAt(S, T, O, Q, D, E, f, h, i), Passed(S, O, D, f, i)
  PROVE  Passed(T, Q, E, h, i)
<1>1. /\ T[i] = S[i] /\ E[S[i].job] = D[S[i].job] /\ (S[i].job \in h => S[i].job \in f)
      /\ \A k \in Waits(Q) : Q[k].ref = i => k \in Waits(O) /\ O[k].ref = i /\ O[k].step = Q[k].step
      /\ \A k \in Waits(O) : O[k].ref = i => k \in Waits(Q) /\ Q[k].ref = i /\ O[k].step = Q[k].step
  BY DEF SameAt
<1> SUFFICES ASSUME T[i].job \in Jobs
             PROVE  Passed(T, Q, E, h, i)
  BY DEF Passed
<1> DEFINE s == S[i]
           d == D[s.job]
<1>2. /\ s.index \in Nat \ {0}
      /\ Turns(d) /\ Driven(d) \subseteq Sets(s.name)
      /\ \A x \in Driven(d) : x < s.index
      /\ \A x \in Sets(s.name) : x < s.index =>
           x \in Driven(d) \/ \E k \in Waits(O) : O[k].ref = i /\ O[k].step = x
      /\ \A k \in Waits(O) : O[k].ref = i => \A x \in Driven(d) : x < O[k].step
      /\ s.status = "DONE" \/ s.job \in f => s.index \notin DOMAIN Pattern[s.name]
      /\ s.job \in f => s.status = "INACTIVE"
  BY <1>1 DEF Passed
<1>3. T[i] = s /\ E[T[i].job] = d
  BY <1>1
<1>4. \A x \in Sets(s.name) : x < s.index =>
        x \in Driven(d) \/ \E k \in Waits(Q) : Q[k].ref = i /\ Q[k].step = x
  BY <1>1, <1>2
<1>5. \A k \in Waits(Q) : Q[k].ref = i => \A x \in Driven(d) : x < Q[k].step
  BY <1>1, <1>2
<1> HIDE DEF s, d
<1> QED
  BY <1>1, <1>2, <1>3, <1>4, <1>5 DEF Passed, s

\* A step appended is behind all before it.
LEMMA AppendTurns ==
  ASSUME NEW d \in Seq(Nat), NEW x \in Nat, Turns(d), \A y \in Driven(d) : y < x
  PROVE  Turns(Append(d, x)) /\ Driven(Append(d, x)) = Driven(d) \cup {x}
<1> DEFINE e == Append(d, x)
<1>1. /\ DOMAIN d = 1 .. Len(d) /\ DOMAIN e = 1 .. Len(d) + 1 /\ Len(d) \in Nat
      /\ e[Len(d) + 1] = x /\ \A k \in DOMAIN d : e[k] = d[k] /\ k \in DOMAIN e
  OBVIOUS
<1> HIDE DEF e
<1>2. \A k \in DOMAIN e : k \in DOMAIN d \/ k = Len(d) + 1
  BY <1>1
<1>3. \A k \in DOMAIN d : d[k] \in Driven(d) /\ d[k] < x
  BY DEF Driven
<1>4. Turns(e)
  <2> SUFFICES ASSUME NEW k \in DOMAIN e, NEW l \in DOMAIN e, k < l PROVE e[k] < e[l]
    BY DEF Turns
  <2>1. k \in DOMAIN d
    BY <1>1
  <2>2. CASE l \in DOMAIN d
    BY <1>1, <2>1, <2>2 DEF Turns
  <2>3. CASE l = Len(d) + 1
    BY <1>1, <1>3, <2>1, <2>3
  <2> QED
    BY <1>2, <2>2, <2>3
<1>5. Driven(e) = Driven(d) \cup {x}
  <2>1. \A k \in DOMAIN e : e[k] \in Driven(d) \cup {x}
    BY <1>1, <1>2, <1>3
  <2>2. \A k \in DOMAIN d : d[k] \in Driven(e)
    BY <1>1 DEF Driven
  <2>3. x \in Driven(e)
    BY <1>1 DEF Driven
  <2> QED
    BY <2>1, <2>2, <2>3 DEF Driven
<1> QED
  BY <1>4, <1>5 DEF e

\* The task goes on in its turn, and nothing else changes.
LEMMA OrderTurns ==
  ASSUME InOrder, UNCHANGED <<pin_seq_sequences, outputs, pushes, driven, finished>>,
         \A k \in Waits(outputs) :
           seqAt' = AtRest \/ (seqAt' \in SeqSlots /\ outputs[k].ref < seqAt')
  PROVE  InOrder'
<1>1. Filed(pin_seq_sequences', outputs', seqAt')
  BY DEF InOrder, Filed
<1>2. Distinct(pin_seq_sequences')
  BY DEF InOrder
<1>3. \A j \in Jobs : j > pushes' => driven'[j] = <<>> /\ j \notin finished'
  BY DEF InOrder
<1>4. \A i \in SeqSlots : Passed(pin_seq_sequences', outputs', driven', finished', i)
  BY DEF InOrder
<1> QED
  BY <1>1, <1>2, <1>3, <1>4 DEF InOrder

\* A sequence that has no output waiting changes, but for its name and its push.
LEMMA OrderSlot ==
  ASSUME SeqInv, InOrder, NEW i \in SeqSlots,
         SameBut(pin_seq_sequences, pin_seq_sequences', i),
         pin_seq_sequences'[i].job = pin_seq_sequences[i].job,
         \A k \in Waits(outputs) : outputs[k].ref # i,
         UNCHANGED <<outputs, pushes, driven>>,
         \A j \in finished' : j \in finished \/ (j \in Jobs /\ j = pin_seq_sequences[i].job),
         \A k \in Waits(outputs) :
           seqAt' = AtRest \/ (seqAt' \in SeqSlots /\ outputs[k].ref < seqAt'),
         Passed(pin_seq_sequences', outputs, driven, finished', i)
  PROVE  InOrder'
<1>0. /\ Filed(pin_seq_sequences, outputs, seqAt) /\ Distinct(pin_seq_sequences)
      /\ \A j \in Jobs : j > pushes => driven[j] = <<>> /\ j \notin finished
      /\ \A j \in SeqSlots : Passed(pin_seq_sequences, outputs, driven, finished, j)
  BY DEF InOrder
<1>1. \A k \in Waits(outputs) :
        outputs[k].ref \in SeqSlots /\ pin_seq_sequences'[outputs[k].ref] = pin_seq_sequences[outputs[k].ref]
  BY EntryFacts DEF SeqInv, TypeOK, Waits, SameBut
<1>2. Filed(pin_seq_sequences', outputs', seqAt')
  BY <1>0, <1>1 DEF Filed
<1>3. Distinct(pin_seq_sequences')
  BY <1>0 DEF Distinct, SameBut
<1>4. \A j \in Jobs : j > pushes' => driven'[j] = <<>> /\ j \notin finished'
  <2>1. pin_seq_sequences[i].job <= pushes
    BY DEF SeqInv, Pushed
  <2>2. pushes \in Nat /\ Jobs \subseteq Nat
    BY SizeFacts DEF SeqInv, TypeOK, Jobs
  <2> QED
    BY <1>0, <2>1, <2>2
<1>5. ASSUME NEW j \in SeqSlots
      PROVE  Passed(pin_seq_sequences', outputs', driven', finished', j)
  <2>1. CASE j = i
    BY <2>1
  <2>2. CASE j # i
    <3>1. pin_seq_sequences'[j] = pin_seq_sequences[j]
      BY <2>2 DEF SameBut
    <3>2. pin_seq_sequences[j].job \in finished' => pin_seq_sequences[j].job \in finished
      BY <1>0, <2>2 DEF Distinct
    <3>3. SameAt(pin_seq_sequences, pin_seq_sequences', outputs, outputs', driven, driven',
                 finished, finished', j)
      BY <3>1, <3>2 DEF SameAt
    <3> QED
      BY <1>0, <3>3, PassedStill
  <2> QED
    BY <2>1, <2>2
<1> QED
  BY <1>2, <1>3, <1>4, <1>5 DEF InOrder

\* Its status changes: it waits, is done behind its last step, or is absorbed.
LEMMA OrderMarks ==
  ASSUME SeqInv, InOrder, NEW i \in SeqSlots, NEW x \in {"PENDING", "DONE", "INACTIVE"},
         Marks(pin_seq_sequences, pin_seq_sequences', i, x),
         pin_seq_sequences[i].status \in {"ACTIVE", "DONE"},
         \A k \in Waits(outputs) : outputs[k].ref # i,
         UNCHANGED <<outputs, pushes, driven>>,
         finished' = finished \/ (x = "INACTIVE" /\ finished' = finished \cup {pin_seq_sequences[i].job}),
         x = "DONE" \/ (x = "INACTIVE" /\ pin_seq_sequences[i].status = "DONE") \/ x = "PENDING",
         x = "DONE" => pin_seq_sequences[i].index \notin DOMAIN Pattern[pin_seq_sequences[i].name],
         \A k \in Waits(outputs) :
           seqAt' = AtRest \/ (seqAt' \in SeqSlots /\ outputs[k].ref < seqAt')
  PROVE  InOrder'
<1> DEFINE s == pin_seq_sequences[i]
           t == pin_seq_sequences'[i]
           d == driven[s.job]
<1>1. /\ SameBut(pin_seq_sequences, pin_seq_sequences', i) /\ t.name = s.name /\ t.job = s.job
      /\ t.index = s.index /\ t.status = x
  BY DEF Marks
<1>2. s.job \in Jobs
  <2>1. s \in SequenceSet
    BY DEF SeqInv, TypeOK
  <2>2. s \in Sequence
    BY <2>1, SequenceFacts
  <2> QED
    BY <2>2 DEF Sequence
<1>3. /\ s.index \in Nat \ {0}
      /\ Turns(d) /\ Driven(d) \subseteq Sets(s.name)
      /\ \A y \in Driven(d) : y < s.index
      /\ \A y \in Sets(s.name) : y < s.index =>
           y \in Driven(d) \/ \E k \in Waits(outputs) : outputs[k].ref = i /\ outputs[k].step = y
      /\ \A k \in Waits(outputs) : outputs[k].ref = i => \A y \in Driven(d) : y < outputs[k].step
      /\ s.status = "DONE" \/ s.job \in finished => s.index \notin DOMAIN Pattern[s.name]
      /\ s.job \in finished => s.status = "INACTIVE"
  BY <1>2 DEF InOrder, Passed
<1>4. t.status = "DONE" \/ t.job \in finished' => t.index \notin DOMAIN Pattern[t.name]
  BY <1>1, <1>3
<1>5. t.job \in finished' => t.status = "INACTIVE"
  BY <1>1, <1>3
<1>6. Passed(pin_seq_sequences', outputs, driven, finished', i)
  <2> HIDE DEF s, t, d
  <2>1. pin_seq_sequences'[i] = t /\ driven[t.job] = d
    BY <1>1 DEF t, d, s
  <2> QED
    BY <1>1, <1>3, <1>4, <1>5, <2>1 DEF Passed
<1>7. \A j \in finished' : j \in finished \/ (j \in Jobs /\ j = s.job)
  BY <1>2
<1> QED
  BY <1>1, <1>6, <1>7, OrderSlot

\* It steps on behind a wait.
LEMMA OrderSteps ==
  ASSUME SeqInv, InOrder, NEW i \in SeqSlots,
         StepsOn(pin_seq_sequences, pin_seq_sequences', i),
         pin_seq_sequences[i].status = "PENDING",
         pin_seq_sequences[i].index \notin Sets(pin_seq_sequences[i].name),
         Waits(outputs) = {}, UNCHANGED <<outputs, pushes, driven, finished>>
  PROVE  InOrder'
<1> DEFINE s == pin_seq_sequences[i]
           t == pin_seq_sequences'[i]
           d == driven[s.job]
<1>1. /\ SameBut(pin_seq_sequences, pin_seq_sequences', i) /\ t.name = s.name /\ t.job = s.job
      /\ t.index = s.index + 1 /\ t.status = "ACTIVE"
  BY DEF StepsOn
<1>2. s.job \in Jobs /\ s.name \in Names
  <2>1. s \in SequenceSet
    BY DEF SeqInv, TypeOK
  <2>2. s \in Sequence
    BY <2>1, SequenceFacts
  <2> QED
    BY <2>2 DEF Sequence
<1>3. /\ s.index \in Nat \ {0}
      /\ Turns(d) /\ Driven(d) \subseteq Sets(s.name)
      /\ \A y \in Driven(d) : y < s.index
      /\ \A y \in Sets(s.name) : y < s.index => y \in Driven(d)
      /\ s.job \notin finished
  BY <1>2 DEF InOrder, Passed
<1>4. Sets(s.name) \subseteq Nat
  BY <1>2, EngineAssumption DEF Sets
<1>5. \A y \in Sets(s.name) : y < s.index + 1 => y \in Driven(d)
  BY <1>3, <1>4
<1>6. \A y \in Driven(d) : y < s.index + 1
  BY <1>3, <1>4
<1>7. Passed(pin_seq_sequences', outputs, driven, finished', i)
  <2> HIDE DEF s, t, d
  <2>1. pin_seq_sequences'[i] = t /\ driven[t.job] = d
    BY <1>1 DEF t, d, s
  <2>2. t.index \in Nat \ {0} /\ t.status # "DONE" /\ t.job \notin finished'
    BY <1>1, <1>3
  <2> QED
    BY <1>1, <1>3, <1>5, <1>6, <2>1, <2>2 DEF Passed
<1> QED
  BY <1>1, <1>7, OrderSlot

LEMMA AfterSlotIn ==
  ASSUME NEW i \in SeqSlots
  PROVE  /\ AfterSlot(i) = AtRest \/ (AfterSlot(i) \in SeqSlots /\ AfterSlot(i) = i + 1)
         /\ i \in Nat
BY SizeFacts DEF AfterSlot, SeqSlots

\* A sequence sets a port: the output is filed, and it steps on.
LEMMA OrderFiles ==
  ASSUME SeqInv, InOrder, pin_seq_event, ~lost',
         {g.kind : g \in Current(pin_seq_sequences[seqAt])} = {"set"},
         pin_seq_sequences' = [pin_seq_sequences EXCEPT ![seqAt].index = @ + 1],
         NEW o, o = Wrap(outputIdx, PIN_EVT_MAX_EVENTS),
         outputs' = [outputs EXCEPT ![o] = Entry(seqAt, pin_seq_sequences[seqAt])],
         lost' = (lost \/ outputs[o].status # "INACTIVE")
  PROVE  InOrder'
<1> DEFINE i == seqAt
           s == pin_seq_sequences[i]
           t == pin_seq_sequences'[i]
           d == driven[s.job]
<1>1. /\ i \in SeqSlots /\ s \in Sequence /\ s.status = "ACTIVE" /\ s.job \in Jobs
      /\ s.job <= pushes /\ s.index \in Nat /\ seqAt' = AfterSlot(i)
      /\ UNCHANGED <<pushes, driven, finished>>
      /\ pin_seq_sequences \in [SeqSlots -> SequenceSet]
  BY EventFacts DEF pin_seq_event
<1>2. /\ t = [s EXCEPT !.index = s.index + 1] /\ SameBut(pin_seq_sequences, pin_seq_sequences', i)
  BY <1>1 DEF SameBut
<1>3. /\ t.name = s.name /\ t.job = s.job /\ t.index = s.index + 1 /\ t.status = "ACTIVE"
  BY <1>1, <1>2 DEF Sequence
<1>4. /\ o \in EvtSlots /\ outputs[o].status = "INACTIVE" /\ outputs \in [EvtSlots -> Entries]
  BY SizeFacts, WrapIn DEF SeqInv, TypeOK, EvtSlots
<1>5. Current(s) # {}
  OBVIOUS
<1>6. /\ Entry(i, s).ref = i /\ Entry(i, s).job = s.job /\ Entry(i, s).step = s.index
      /\ Entry(i, s).status = "waiting" /\ Current(s) = {Entry(i, s).signal}
  BY <1>1, <1>5, EntryFiled
<1>7. s.index \in Sets(s.name) /\ s.name \in Names
  <2>1. s.name \in Names /\ s.index \in DOMAIN Pattern[s.name]
        /\ Current(s) = {Pattern[s.name][s.index]}
    BY <1>5, CurrentStep
  <2>2. Pattern[s.name][s.index].kind = "set"
    BY <2>1
  <2> QED
    BY <2>1, <2>2 DEF Sets
<1>8. /\ outputs'[o] = Entry(i, s) /\ DOMAIN outputs' = DOMAIN outputs
      /\ \A k \in DOMAIN outputs : k # o => outputs'[k] = outputs[k]
  BY <1>4
<1> HIDE DEF i, s, t, d
<1>9. /\ Filed(pin_seq_sequences, outputs, i) /\ Distinct(pin_seq_sequences)
      /\ \A j \in Jobs : j > pushes => driven[j] = <<>> /\ j \notin finished
      /\ \A j \in SeqSlots : Passed(pin_seq_sequences, outputs, driven, finished, j)
  BY DEF InOrder, i
<1>10. i # AtRest
  BY <1>1, SizeFacts
<1>11. /\ o \notin Waits(outputs) /\ o \in Waits(outputs')
       /\ \A k \in Waits(outputs) : k \in Waits(outputs') /\ outputs'[k] = outputs[k]
       /\ \A k \in Waits(outputs') : k = o \/ k \in Waits(outputs)
  BY <1>4, <1>6, <1>8 DEF Waits
<1>12. \A k \in Waits(outputs) : outputs[k].ref # i /\ outputs[k].ref < i /\ outputs[k].ref \in SeqSlots
  <2>1. \A k \in Waits(outputs) : outputs[k].ref \in SeqSlots
    BY <1>4, EntryFacts DEF Waits
  <2> QED
    BY <1>1, <1>9, <1>10, <2>1, SizeFacts DEF Filed
<1>13. Filed(pin_seq_sequences', outputs', seqAt')
  <2>1. seqAt' = AtRest \/ (seqAt' \in SeqSlots /\ seqAt' = i + 1)
    BY <1>1, AfterSlotIn
  <2>2. ASSUME NEW k \in Waits(outputs)
        PROVE  /\ outputs'[k].status = "waiting"
               /\ pin_seq_sequences'[outputs'[k].ref].status = "ACTIVE"
               /\ pin_seq_sequences'[outputs'[k].ref].job = outputs'[k].job
               /\ outputs'[k].step + 1 = pin_seq_sequences'[outputs'[k].ref].index
               /\ outputs'[k].step \in Sets(pin_seq_sequences'[outputs'[k].ref].name)
               /\ seqAt' = AtRest \/ (seqAt' \in SeqSlots /\ outputs'[k].ref < seqAt')
    <3>1. outputs'[k] = outputs[k] /\ pin_seq_sequences'[outputs[k].ref] = pin_seq_sequences[outputs[k].ref]
      BY <1>2, <1>11, <1>12 DEF SameBut
    <3>2. outputs[k].ref < i + 1
      BY <1>1, <1>12, SizeFacts
    <3>3. /\ outputs[k].status = "waiting" /\ pin_seq_sequences[outputs[k].ref].status = "ACTIVE"
          /\ pin_seq_sequences[outputs[k].ref].job = outputs[k].job
          /\ outputs[k].step + 1 = pin_seq_sequences[outputs[k].ref].index
          /\ outputs[k].step \in Sets(pin_seq_sequences[outputs[k].ref].name)
      BY <1>9 DEF Filed
    <3>4. seqAt' = AtRest \/ (seqAt' \in SeqSlots /\ outputs'[k].ref < seqAt')
      BY <2>1, <3>1, <3>2
    <3> QED
      BY <3>1, <3>3, <3>4
  <2>3. /\ outputs'[o].status = "waiting" /\ outputs'[o].ref = i /\ pin_seq_sequences'[i] = t
        /\ outputs'[o].job = t.job /\ outputs'[o].step = s.index
    BY <1>3, <1>6, <1>8 DEF t
  <2>4. i < i + 1
    BY <1>1, SizeFacts
  <2>5. ASSUME NEW k \in Waits(outputs'), NEW l \in Waits(outputs'), outputs'[k].ref = outputs'[l].ref
        PROVE  k = l
    <3>1. \A m \in Waits(outputs) : outputs'[m].ref # i /\ outputs'[m].ref = outputs[m].ref
      BY <1>11, <1>12
    <3>2. CASE k = o \/ l = o
      BY <1>11, <2>3, <2>5, <3>1, <3>2
    <3>3. CASE k \in Waits(outputs) /\ l \in Waits(outputs)
      <4>1. outputs[k].ref = outputs[l].ref
        BY <2>5, <3>1, <3>3
      <4> QED
        BY <1>9, <3>3, <4>1 DEF Filed
    <3> QED
      BY <1>11, <3>2, <3>3
  <2>6. /\ outputs'[o].status = "waiting"
        /\ pin_seq_sequences'[outputs'[o].ref].status = "ACTIVE"
        /\ pin_seq_sequences'[outputs'[o].ref].job = outputs'[o].job
        /\ outputs'[o].step + 1 = pin_seq_sequences'[outputs'[o].ref].index
        /\ outputs'[o].step \in Sets(pin_seq_sequences'[outputs'[o].ref].name)
        /\ seqAt' = AtRest \/ (seqAt' \in SeqSlots /\ outputs'[o].ref < seqAt')
    BY <1>3, <1>7, <2>1, <2>3, <2>4
  <2>7. \A k \in Waits(outputs') :
          /\ outputs'[k].status = "waiting"
          /\ pin_seq_sequences'[outputs'[k].ref].status = "ACTIVE"
          /\ pin_seq_sequences'[outputs'[k].ref].job = outputs'[k].job
          /\ outputs'[k].step + 1 = pin_seq_sequences'[outputs'[k].ref].index
          /\ outputs'[k].step \in Sets(pin_seq_sequences'[outputs'[k].ref].name)
          /\ seqAt' = AtRest \/ (seqAt' \in SeqSlots /\ outputs'[k].ref < seqAt')
    BY <1>11, <2>2, <2>6
  <2> QED
    BY <2>5, <2>7 DEF Filed
<1>14. Distinct(pin_seq_sequences')
  BY <1>2, <1>3, <1>9 DEF Distinct, SameBut, s, t
<1>15. Passed(pin_seq_sequences', outputs', driven', finished', i)
  <2>1. /\ s.index \in Nat \ {0}
        /\ Turns(d) /\ Driven(d) \subseteq Sets(s.name)
        /\ \A y \in Driven(d) : y < s.index
        /\ \A y \in Sets(s.name) : y < s.index => y \in Driven(d)
        /\ s.job \notin finished
    BY <1>1, <1>9, <1>12 DEF Passed, s, d
  <2>2. Sets(s.name) \subseteq Nat
    BY <1>7, EngineAssumption DEF Sets
  <2>3. outputs'[o].ref = i /\ outputs'[o].step = s.index
    BY <1>6, <1>8
  <2>4. \A y \in Sets(s.name) : y < t.index =>
          y \in Driven(d) \/ \E k \in Waits(outputs') : outputs'[k].ref = i /\ outputs'[k].step = y
    <3>1. \A y \in Sets(s.name) : y < t.index => y < s.index \/ y = s.index
      BY <1>3, <2>1, <2>2
    <3> QED
      BY <1>11, <2>1, <2>3, <3>1
  <2>5. \A k \in Waits(outputs') : outputs'[k].ref = i => \A y \in Driven(d) : y < outputs'[k].step
    BY <1>11, <1>12, <2>1, <2>3
  <2>6. \A y \in Driven(d) : y < t.index
    BY <1>3, <2>1, <2>2
  <2>7. pin_seq_sequences'[i] = t /\ driven'[t.job] = d /\ finished' = finished
    BY <1>1, <1>3 DEF t, d, s
  <2>8. t.index \in Nat \ {0} /\ t.status # "DONE"
    BY <1>3, <2>1
  <2>9. /\ t.index \in Nat \ {0}
        /\ Turns(d) /\ Driven(d) \subseteq Sets(t.name)
        /\ \A y \in Sets(t.name) : y < t.index =>
             y \in Driven(d) \/ \E k \in Waits(outputs') : outputs'[k].ref = i /\ outputs'[k].step = y
        /\ t.status = "DONE" \/ t.job \in finished' => t.index \notin DOMAIN Pattern[t.name]
        /\ t.job \in finished' => t.status = "INACTIVE"
    <3>1. t.index \in Nat \ {0} /\ Turns(d) /\ Driven(d) \subseteq Sets(t.name)
      BY <1>3, <2>1, <2>8
    <3>2. t.status # "DONE" /\ t.job \notin finished'
      BY <1>3, <2>1, <2>7, <2>8
    <3>3. \A y \in Sets(t.name) : y < t.index =>
            y \in Driven(d) \/ \E k \in Waits(outputs') : outputs'[k].ref = i /\ outputs'[k].step = y
      BY <1>3, <2>4
    <3> QED
      BY <3>1, <3>2, <3>3
  <2> QED
    BY <2>5, <2>6, <2>7, <2>9 DEF Passed
<1>16. ASSUME NEW j \in SeqSlots, j # i
       PROVE  Passed(pin_seq_sequences', outputs', driven', finished', j)
  <2>1. pin_seq_sequences'[j] = pin_seq_sequences[j]
    BY <1>2, <1>16 DEF SameBut
  <2>2. outputs'[o].ref = i
    BY <1>6, <1>8
  <2>3. SameAt(pin_seq_sequences, pin_seq_sequences', outputs, outputs', driven, driven',
               finished, finished', j)
    BY <1>1, <1>11, <1>16, <2>1, <2>2 DEF SameAt
  <2> QED
    BY <1>9, <2>3, PassedStill
<1>17. \A j \in Jobs : j > pushes' => driven'[j] = <<>> /\ j \notin finished'
  BY <1>1, <1>9
<1> QED
  BY <1>13, <1>14, <1>15, <1>16, <1>17 DEF InOrder

\* A push takes a free slot over, and nothing of it is driven yet.
LEMMA OrderStarts ==
  ASSUME SeqInv, InOrder, NEW n \in Names, Push(n), ~lost',
         UNCHANGED <<outputs, driven, finished, seqAt>>
  PROVE  InOrder'
<1> DEFINE i == Wrap(pin_seq_sequence_idx, PIN_SEQ_MAX_SEQUENCES)
           s == [name |-> n, index |-> 1, status |-> "ACTIVE", job |-> pushes + 1]
<1>1. i \in SeqSlots
  BY SizeFacts, WrapIn DEF SeqInv, TypeOK, SeqSlots
<1>2. /\ pin_seq_sequences' = [pin_seq_sequences EXCEPT ![i] = s]
      /\ pushes' = pushes + 1 /\ pushes < MaxPush
      /\ pin_seq_sequences[i].status = "INACTIVE"
  BY DEF Push, Live
<1>3. pushes \in Nat /\ pushes + 1 \in Jobs /\ Jobs \subseteq Nat
  BY <1>2, SizeFacts DEF SeqInv, TypeOK, Jobs
<1>4. pin_seq_sequences \in [SeqSlots -> SequenceSet] /\ outputs \in [EvtSlots -> Entries]
  BY DEF SeqInv, TypeOK
<1>5. SameBut(pin_seq_sequences, pin_seq_sequences', i) /\ pin_seq_sequences'[i] = s
  BY <1>1, <1>2, <1>4 DEF SameBut
<1>6. s.name = n /\ s.index = 1 /\ s.status = "ACTIVE" /\ s.job = pushes + 1
  OBVIOUS
<1> HIDE DEF i, s
<1>7. /\ Filed(pin_seq_sequences, outputs, seqAt) /\ Distinct(pin_seq_sequences)
      /\ \A j \in Jobs : j > pushes => driven[j] = <<>> /\ j \notin finished
      /\ \A j \in SeqSlots : Passed(pin_seq_sequences, outputs, driven, finished, j)
  BY DEF InOrder
<1>8. \A k \in Waits(outputs) : /\ outputs[k].ref \in SeqSlots /\ outputs[k].ref # i
                                /\ pin_seq_sequences'[outputs[k].ref] = pin_seq_sequences[outputs[k].ref]
  <2>1. \A k \in Waits(outputs) : outputs[k].ref \in SeqSlots
    BY <1>4, EntryFacts DEF Waits
  <2>2. \A k \in Waits(outputs) : outputs[k].ref # i
    BY <1>2, <1>7 DEF Filed
  <2> QED
    BY <1>5, <2>1, <2>2 DEF SameBut
<1>9. Filed(pin_seq_sequences', outputs', seqAt')
  BY <1>7, <1>8 DEF Filed
<1>10. \A j \in SeqSlots : pin_seq_sequences[j].job \in Nat /\ pin_seq_sequences[j].job <= pushes
  BY <1>4, SequenceFacts DEF SeqInv, Pushed
<1>11. Distinct(pin_seq_sequences')
  <2>1. \A j \in SeqSlots : j # i => pin_seq_sequences'[j].job # s.job
    BY <1>3, <1>5, <1>6, <1>10 DEF SameBut
  <2>2. \A j \in SeqSlots : j # i => pin_seq_sequences'[j] = pin_seq_sequences[j]
    BY <1>5 DEF SameBut
  <2> QED
    BY <1>5, <1>7, <2>1, <2>2 DEF Distinct
<1>12. \A j \in Jobs : j > pushes' => driven'[j] = <<>> /\ j \notin finished'
  BY <1>2, <1>3, <1>7
<1>13. Passed(pin_seq_sequences', outputs', driven', finished', i)
  <2>1. driven'[s.job] = <<>> /\ s.job \notin finished'
    BY <1>3, <1>6, <1>7
  <2>2. Turns(<<>>) /\ Driven(<<>>) = {}
    BY DEF Turns, Driven
  <2>3. \A y \in Sets(s.name) : ~(y < s.index)
    BY <1>6, EngineAssumption DEF Sets
  <2>4. s.index \in Nat \ {0} /\ s.status # "DONE"
    BY <1>6
  <2> QED
    BY <1>5, <2>1, <2>2, <2>3, <2>4 DEF Passed
<1>14. ASSUME NEW j \in SeqSlots, j # i
       PROVE  Passed(pin_seq_sequences', outputs', driven', finished', j)
  <2>1. pin_seq_sequences'[j] = pin_seq_sequences[j]
    BY <1>5, <1>14 DEF SameBut
  <2>2. SameAt(pin_seq_sequences, pin_seq_sequences', outputs, outputs', driven, driven',
               finished, finished', j)
    BY <2>1 DEF SameAt
  <2> QED
    BY <1>7, <2>2, PassedStill
<1> QED
  BY <1>9, <1>11, <1>12, <1>13, <1>14 DEF InOrder

\* The output that waits is set: the next step of its sequence is driven.
LEMMA OrderDrives ==
  ASSUME SeqInv, InOrder, pin_evt_set, outputs[evtAt].status = "waiting"
  PROVE  InOrder'
<1> DEFINE e == outputs[evtAt]
           i == e.ref
           s == pin_seq_sequences[i]
           d == driven[s.job]
<1>1. /\ EntryMarks(outputs, outputs', evtAt, "INACTIVE")
      /\ driven' = [driven EXCEPT ![e.job] = Append(driven[e.job], e.step)]
      /\ UNCHANGED <<pin_seq_sequences, seqAt, pushes, finished>>
  BY DEF pin_evt_set, EntryMarks, sequences
<1>2. /\ evtAt \in EvtSlots /\ outputs \in [EvtSlots -> Entries] /\ driven \in [Jobs -> Seq(Nat)]
      /\ pin_seq_sequences \in [SeqSlots -> SequenceSet]
  BY DEF SeqInv, TypeOK
<1>3. /\ outputs' \in [EvtSlots -> Entries] /\ outputs'[evtAt].status = "INACTIVE"
      /\ \A k \in EvtSlots : k # evtAt => outputs'[k] = outputs[k]
  BY <1>1, <1>2, EntryMarked
<1>4. /\ Filed(pin_seq_sequences, outputs, seqAt) /\ Distinct(pin_seq_sequences)
      /\ \A j \in Jobs : j > pushes => driven[j] = <<>> /\ j \notin finished
      /\ \A j \in SeqSlots : Passed(pin_seq_sequences, outputs, driven, finished, j)
  BY DEF InOrder
<1>5. /\ evtAt \in Waits(outputs) /\ \A k \in Waits(outputs') : k \in Waits(outputs) /\ k # evtAt
      /\ \A k \in Waits(outputs) : k # evtAt => k \in Waits(outputs')
      /\ \A k \in Waits(outputs') : outputs'[k] = outputs[k]
  BY <1>2, <1>3 DEF Waits
<1>6. i \in SeqSlots /\ e.job \in Jobs /\ e.step \in Nat
  BY <1>2, <1>5, EntryFacts DEF SeqInv, Pushed, Waits
<1>7. s.job = e.job /\ e.step + 1 = s.index /\ e.step \in Sets(s.name) /\ s.status = "ACTIVE"
  BY <1>4, <1>5 DEF Filed
<1>8. /\ s.index \in Nat \ {0}
      /\ Turns(d) /\ Driven(d) \subseteq Sets(s.name)
      /\ \A y \in Driven(d) : y < s.index
      /\ \A y \in Sets(s.name) : y < s.index =>
           y \in Driven(d) \/ \E k \in Waits(outputs) : outputs[k].ref = i /\ outputs[k].step = y
      /\ \A k \in Waits(outputs) : outputs[k].ref = i => \A y \in Driven(d) : y < outputs[k].step
      /\ s.job \notin finished
  BY <1>4, <1>6, <1>7 DEF Passed
<1>9. d \in Seq(Nat)
  BY <1>2, <1>6, <1>7
<1>10. \A y \in Driven(d) : y < e.step
  BY <1>5, <1>8
<1>11. Turns(Append(d, e.step)) /\ Driven(Append(d, e.step)) = Driven(d) \cup {e.step}
  BY <1>6, <1>8, <1>9, <1>10, AppendTurns
<1>12. driven'[s.job] = Append(d, e.step)
  BY <1>1, <1>2, <1>6, <1>7
<1>13. \A k \in Waits(outputs') : outputs'[k].ref # i
  BY <1>4, <1>5 DEF Filed
<1> HIDE DEF e, i, s, d
<1>14. Filed(pin_seq_sequences', outputs', seqAt')
  <2>1. ASSUME NEW k \in Waits(outputs')
        PROVE  /\ outputs'[k].status = "waiting"
               /\ pin_seq_sequences'[outputs'[k].ref].status = "ACTIVE"
               /\ pin_seq_sequences'[outputs'[k].ref].job = outputs'[k].job
               /\ outputs'[k].step + 1 = pin_seq_sequences'[outputs'[k].ref].index
               /\ outputs'[k].step \in Sets(pin_seq_sequences'[outputs'[k].ref].name)
               /\ seqAt' = AtRest \/ (seqAt' \in SeqSlots /\ outputs'[k].ref < seqAt')
    <3>1. k \in Waits(outputs) /\ outputs'[k] = outputs[k]
      BY <1>5
    <3> QED
      BY <1>1, <1>4, <3>1 DEF Filed
  <2>2. \A k, l \in Waits(outputs') : outputs'[k].ref = outputs'[l].ref => k = l
    BY <1>4, <1>5 DEF Filed
  <2> QED
    BY <2>1, <2>2 DEF Filed
<1>15. Passed(pin_seq_sequences', outputs', driven', finished', i)
  <2>1. pin_seq_sequences'[i] = s /\ finished' = finished
    BY <1>1 DEF s
  <2> DEFINE c == driven'[s.job]
  <2>2. Turns(c) /\ Driven(c) = Driven(d) \cup {e.step}
    BY <1>11, <1>12
  <2>3. Driven(c) \subseteq Sets(s.name)
    BY <1>7, <1>8, <2>2
  <2>4. \A y \in Driven(c) : y < s.index
    BY <1>6, <1>7, <1>8, <2>2
  <2>5. \A y \in Sets(s.name) : y < s.index => y \in Driven(c)
    <3>1. \A k \in Waits(outputs) : outputs[k].ref = i => outputs[k].step = e.step
      BY <1>4, <1>5 DEF Filed, i, e
    <3> QED
      BY <1>8, <2>2, <3>1
  <2>6. s.status # "DONE" /\ s.job \notin finished'
    BY <1>7, <1>8, <2>1
  <2> HIDE DEF c
  <2>7. driven'[s.job] = c
    BY DEF c
  <2> QED
    BY <1>8, <1>13, <2>1, <2>2, <2>3, <2>4, <2>5, <2>6, <2>7 DEF Passed
<1>16. ASSUME NEW j \in SeqSlots, j # i
       PROVE  Passed(pin_seq_sequences', outputs', driven', finished', j)
  <2>1. CASE pin_seq_sequences[j].job \in Jobs
    <3>1. pin_seq_sequences[j].job # e.job
      BY <1>4, <1>6, <1>7, <1>16, <2>1 DEF Distinct, s
    <3>2. driven'[pin_seq_sequences[j].job] = driven[pin_seq_sequences[j].job]
      BY <1>1, <1>2, <2>1, <3>1
    <3>3. /\ \A k \in Waits(outputs') : outputs'[k].ref = j =>
               k \in Waits(outputs) /\ outputs[k].ref = j /\ outputs[k].step = outputs'[k].step
          /\ \A k \in Waits(outputs) : outputs[k].ref = j =>
               k \in Waits(outputs') /\ outputs'[k].ref = j /\ outputs[k].step = outputs'[k].step
      BY <1>5, <1>16 DEF i, e
    <3>4. SameAt(pin_seq_sequences, pin_seq_sequences', outputs, outputs', driven, driven',
                 finished, finished', j)
      BY <1>1, <3>2, <3>3 DEF SameAt
    <3> QED
      BY <1>4, <3>4, PassedStill
  <2>2. CASE pin_seq_sequences[j].job \notin Jobs
    BY <1>1, <2>2 DEF Passed
  <2> QED
    BY <2>1, <2>2
<1>17. \A j \in Jobs : j > pushes' => driven'[j] = <<>> /\ j \notin finished'
  <2>1. e.job <= pushes
    BY <1>6, <1>7 DEF SeqInv, Pushed, s
  <2>2. pushes \in Nat /\ Jobs \subseteq Nat
    BY SizeFacts DEF SeqInv, TypeOK, Jobs
  <2>3. \A j \in Jobs : j > pushes => j # e.job
    BY <1>6, <2>1, <2>2
  <2>4. \A j \in Jobs : j # e.job => driven'[j] = driven[j]
    BY <1>1, <1>2
  <2> QED
    BY <1>1, <1>4, <2>3, <2>4
<1>18. Distinct(pin_seq_sequences')
  BY <1>1, <1>4
<1> QED
  BY <1>14, <1>15, <1>16, <1>17, <1>18 DEF InOrder

\* Before the first flush a step goes on from an order that holds.
Before == Prompt /\ ~lost' /\ flushes' = 0 /\ InOrder

\* A collected wait is its sequence's own: the sequence steps on, and not past an output.
LEMMA OrderCollects ==
  ASSUME SeqInv, Before, ~lost, flushes = 0, pin_seq_delay \/ pin_seq_signal
  PROVE  InOrder'
<1>1. /\ seqAt \in {AtDelays, AtInputs} /\ seqAt' = seqAt
      /\ UNCHANGED <<outputs, pushes, driven, finished>>
  BY DEF pin_seq_delay, pin_seq_signal, outs, history
<1>2. Waits(outputs) = {}
  BY <1>1, SizeFacts DEF Before, InOrder, Filed, AtRest, AtDelays, AtInputs
<1>3. /\ Met(pin_seq_sequences, clk_pit_events) /\ Met(pin_seq_sequences, inputs)
      /\ Sound(pin_seq_sequences, clk_pit_events, "delay", pushes)
      /\ Sound(pin_seq_sequences, inputs, "get", pushes)
  BY DEF SeqInv, Paired
<1>4. ASSUME pin_seq_sequences' = pin_seq_sequences PROVE InOrder'
  BY <1>1, <1>2, <1>4, OrderTurns DEF Before
<1>5. ASSUME NEW R, NEW g \in {"delay", "get"}, Sound(pin_seq_sequences, R, g, pushes),
             Met(pin_seq_sequences, R), NEW k \in Waits(R), R[k].ref \in SeqSlots,
             StepsOn(pin_seq_sequences, pin_seq_sequences', R[k].ref)
      PROVE  InOrder'
  <2> DEFINE i == R[k].ref
             s == pin_seq_sequences[i]
  <2>1. s.status = "PENDING" /\ Current(s) = {R[k].signal} /\ R[k].signal.kind = g
    BY <1>5 DEF Met, Sound
  <2>2. Current(s) = {Pattern[s.name][s.index]}
    BY <2>1, CurrentStep
  <2>3. Pattern[s.name][s.index] = R[k].signal
    BY <2>1, <2>2
  <2>4. s.index \notin Sets(s.name)
    BY <2>1, <2>3 DEF Sets
  <2> QED
    BY <1>1, <1>2, <1>5, <2>1, <2>4, OrderSteps DEF Before
<1>6. CASE pin_seq_delay
  <2>1. PICK k \in Waits(clk_pit_events) :
          /\ clk_pit_events[k].ref \in SeqSlots
          /\ \/ pin_seq_sequences' = pin_seq_sequences
             \/ StepsOn(pin_seq_sequences, pin_seq_sequences', clk_pit_events[k].ref)
    BY <1>6, DelayTaken
  <2> QED
    BY <1>3, <1>4, <1>5, <2>1
<1>7. CASE pin_seq_signal
  <2>1. PICK k \in Waits(inputs) :
          /\ inputs[k].ref \in SeqSlots
          /\ \/ pin_seq_sequences' = pin_seq_sequences
             \/ StepsOn(pin_seq_sequences, pin_seq_sequences', inputs[k].ref)
    BY <1>7, SignalTaken
  <2> QED
    BY <1>3, <1>4, <1>5, <2>1
<1> QED
  BY <1>6, <1>7

LEMMA OrderEvents ==
  ASSUME SeqInv, Before, pin_seq_event
  PROVE  InOrder'
<1> DEFINE s == pin_seq_sequences[seqAt]
           kinds == {g.kind : g \in Current(s)}
           o == Wrap(outputIdx, PIN_EVT_MAX_EVENTS)
<1>1. /\ seqAt \in SeqSlots /\ s \in Sequence /\ s.status = "ACTIVE"
      /\ UNCHANGED <<pushes, driven, finished>> /\ seqAt' = AfterSlot(seqAt)
      /\ pin_seq_sequences \in [SeqSlots -> SequenceSet]
  BY EventFacts DEF pin_seq_event
<1>2. seqAt' = AtRest \/ (seqAt' \in SeqSlots /\ seqAt' = seqAt + 1)
  BY <1>1, AfterSlotIn
<1>3. seqAt # AtRest
  BY <1>1, SizeFacts
<1>4. \A k \in Waits(outputs) : outputs[k].ref \in SeqSlots /\ outputs[k].ref < seqAt
  <2>1. \A k \in Waits(outputs) : outputs[k].ref \in SeqSlots
    BY EntryFacts DEF Waits, SeqInv, TypeOK
  <2> QED
    BY <1>3, <2>1 DEF Before, InOrder, Filed
<1>5. \A k \in Waits(outputs) :
        /\ outputs[k].ref # seqAt
        /\ seqAt' = AtRest \/ (seqAt' \in SeqSlots /\ outputs[k].ref < seqAt')
  <2>1. seqAt \in Nat
    BY <1>1, SizeFacts
  <2>2. \A k \in Waits(outputs) : outputs[k].ref \in Nat
    BY <1>4, SizeFacts
  <2>3. \A k \in Waits(outputs) : outputs[k].ref # seqAt /\ outputs[k].ref < seqAt + 1
    BY <1>4, <2>1, <2>2
  <2> QED
    BY <1>2, <2>3
<1>6. ASSUME NEW x \in {"PENDING", "DONE"}, UNCHANGED outs,
             Marks(pin_seq_sequences, pin_seq_sequences', seqAt, x),
             x = "DONE" => s.index \notin DOMAIN Pattern[s.name]
      PROVE  InOrder'
  <2>1. outputs' = outputs
    BY <1>6 DEF outs
  <2> QED
    BY <1>1, <1>5, <1>6, <2>1, OrderMarks DEF Before
<1>7. CASE /\ kinds = {"set"}
           /\ pin_seq_sequences' = [pin_seq_sequences EXCEPT ![seqAt].index = @ + 1]
           /\ outputs' = [outputs EXCEPT ![o] = Entry(seqAt, s)]
           /\ lost' = (lost \/ outputs[o].status # "INACTIVE")
  BY <1>7, OrderFiles DEF Before
<1>8. CASE /\ kinds = {} /\ UNCHANGED outs
           /\ pin_seq_sequences' = [pin_seq_sequences EXCEPT ![seqAt].status = "DONE"]
  <2>1. Current(s) = {}
    BY <1>8
  <2>2. s.index \notin DOMAIN Pattern[s.name]
    BY <1>1, <2>1 DEF Current, Sequence
  <2>3. Marks(pin_seq_sequences, pin_seq_sequences', seqAt, "DONE")
    BY <1>1, <1>8, SlotMarked
  <2> QED
    BY <1>6, <1>8, <2>2, <2>3
<1>9. CASE /\ UNCHANGED outs
           /\ pin_seq_sequences' = [pin_seq_sequences EXCEPT ![seqAt].status = "PENDING"]
  <2>1. Marks(pin_seq_sequences, pin_seq_sequences', seqAt, "PENDING")
    BY <1>1, <1>9, SlotMarked
  <2> QED
    BY <1>6, <1>9, <2>1
<1> QED
  BY <1>7, <1>8, <1>9 DEF pin_seq_event

LEMMA OrderAbsorbs ==
  ASSUME SeqInv, Before, pin_seq_next
  PROVE  InOrder'
<1> DEFINE x == First(Done)
<1>1. x \in SeqSlots /\ pin_seq_sequences[x].status = "DONE"
  BY DoneFirst
<1>2. /\ seqAt' = AtRest /\ UNCHANGED <<outputs, pushes, driven>>
      /\ pin_seq_sequences' = [pin_seq_sequences EXCEPT ![x].status = "INACTIVE"]
      /\ finished' = finished \cup {pin_seq_sequences[x].job}
  BY DEF pin_seq_next, outs
<1> HIDE DEF x
<1>3. Marks(pin_seq_sequences, pin_seq_sequences', x, "INACTIVE")
  BY <1>1, <1>2, SlotMarked DEF SeqInv, TypeOK
<1>4. \A k \in Waits(outputs) : outputs[k].ref # x
  BY <1>1 DEF Before, InOrder, Filed
<1> QED
  BY <1>1, <1>2, <1>3, <1>4, OrderMarks DEF Before

LEMMA NothingBack ==
  ASSUME SeqInv, [Next]_vars
  PROVE  (~lost' => ~lost) /\ (flushes' = 0 => flushes = 0)
<1>0. flushes \in Nat
  BY SizeFacts DEF SeqInv, TypeOK
<1>1. CASE \E n \in Names : machine_single_prepare(n) \/ execution_perform(n)
  BY <1>1 DEF machine_single_prepare, execution_perform, Push
<1>2. CASE pin_seq_update
  <2>1. CASE pin_seq_event
    <3>1. flushes' = flushes
      BY <2>1 DEF pin_seq_event
    <3> DEFINE c == Wrap(clk_pit_event_idx, CLK_PIT_MAX_EVENTS)
               i == Wrap(inputIdx, PIN_EVT_MAX_EVENTS)
               o == Wrap(outputIdx, PIN_EVT_MAX_EVENTS)
    <3>2. \/ lost' = lost
          \/ lost' = (lost \/ clk_pit_events[c].status # "INACTIVE")
          \/ lost' = (lost \/ inputs[i].status # "INACTIVE")
          \/ lost' = (lost \/ outputs[o].status # "INACTIVE")
      BY <2>1 DEF pin_seq_event
    <3> HIDE DEF c, i, o
    <3>3. ~lost' => ~lost
      BY <3>2, Zenon
    <3> QED
      BY <3>1, <3>3
  <2>2. CASE pin_seq_update /\ ~pin_seq_event
    <3>1. history' = history
      BY <2>2 DEF pin_seq_update, pin_seq_begin, pin_seq_delay, pin_seq_delays_done,
                  pin_seq_signal, pin_seq_signals_done, pin_seq_pass
    <3> QED
      BY <3>1 DEF history
  <2> QED
    BY <1>2, <2>1, <2>2
<1>3. CASE execution_update
  <2>1. CASE pin_seq_next \/ pin_seq_next_untaken
    <3>1. lost' = lost /\ flushes' = flushes
      BY <2>1 DEF pin_seq_next, pin_seq_next_untaken, history
    <3> QED
      BY <3>1
  <2>2. CASE machine_single_event_prepare
    <3>1. flushes' = flushes
      BY <2>2 DEF machine_single_event_prepare
    <3>2. CASE pushes < MaxPush
      BY <2>2, <3>1, <3>2 DEF machine_single_event_prepare, Push
    <3>3. CASE ~(pushes < MaxPush)
      BY <2>2, <3>1, <3>3 DEF machine_single_event_prepare
    <3> QED
      BY <3>2, <3>3
  <2>3. CASE event_prepare_untaken
    BY <2>3 DEF event_prepare_untaken
  <2> QED
    BY <1>3, <2>1, <2>2, <2>3 DEF execution_update
<1>4. CASE queues_flush
  <2>1. CASE pin_evt_flush
    <3>1. lost' = lost /\ flushes' = flushes + 1
      BY <2>1 DEF pin_evt_flush
    <3> QED
      BY <1>0, <3>1
  <2>2. CASE clk_pit_flush \/ task_engage
    BY <2>2 DEF clk_pit_flush, task_engage, history
  <2>3. CASE pin_seq_flush
    BY <2>3 DEF pin_seq_flush
  <2> QED
    BY <1>4, <2>1, <2>2, <2>3 DEF queues_flush
<1>5. CASE (\E i \in ClkSlots : clk_pit_update(i)) \/ (\E i \in EvtSlots : pin_evt_seen(i))
  <2>1. lost' = lost /\ flushes' = flushes
    BY <1>5 DEF clk_pit_update, pin_evt_seen, history
  <2> QED
    BY <2>1
<1>6. CASE pin_evt_set
  BY <1>6 DEF pin_evt_set
<1>7. CASE UNCHANGED vars
  BY <1>7 DEF vars, history
<1> QED
  BY <1>1, <1>2, <1>3, <1>4, <1>5, <1>6, <1>7 DEF Next

LEMMA OrderStep == SeqInv /\ OrderInv /\ [Next]_vars => OrderInv'
<1> SUFFICES ASSUME SeqInv, OrderInv, [Next]_vars, Prompt, ~lost', flushes' = 0
             PROVE  InOrder'
  BY DEF OrderInv
<1>1. ~lost /\ flushes = 0 /\ Before /\ InOrder
  <2>1. ~lost /\ flushes = 0
    BY NothingBack
  <2> QED
    BY <2>1 DEF OrderInv, Before
<1>2. Filed(pin_seq_sequences, outputs, seqAt)
  BY <1>1 DEF InOrder
<1> DEFINE Still == UNCHANGED <<pin_seq_sequences, outputs, pushes, driven, finished>>
<1>3. ASSUME Still, seqAt' = seqAt PROVE InOrder'
  BY <1>1, <1>2, <1>3, OrderTurns DEF Filed
<1>4. ASSUME Still, Waits(outputs) = {} PROVE InOrder'
  BY <1>1, <1>4, OrderTurns
<1>5. ASSUME NEW n \in Names, Push(n), UNCHANGED <<outputs, driven, finished, seqAt>>
      PROVE  InOrder'
  BY <1>1, <1>5, OrderStarts
<1>6. CASE \E n \in Names : machine_single_prepare(n) \/ execution_perform(n)
  BY <1>5, <1>6 DEF machine_single_prepare, execution_perform, outs
<1>7. CASE pin_seq_begin
  <2>1. Waits(outputs) = {}
    BY <1>7 DEF pin_seq_begin, Idle, Waits
  <2>2. Still
    BY <1>7 DEF pin_seq_begin, sequences, outs, history
  <2> QED
    BY <1>4, <2>1, <2>2
<1>8. CASE pin_seq_delays_done \/ pin_seq_signals_done
  <2>1. seqAt \in {AtDelays, AtInputs}
    BY <1>8 DEF pin_seq_delays_done, pin_seq_signals_done
  <2>2. Waits(outputs) = {}
    BY <1>2, <2>1, SizeFacts DEF Filed, AtRest, AtDelays, AtInputs
  <2>3. Still
    BY <1>8 DEF pin_seq_delays_done, pin_seq_signals_done, sequences, outs, history
  <2> QED
    BY <1>4, <2>2, <2>3
<1>9. CASE pin_seq_pass
  <2>1. seqAt \in SeqSlots /\ seqAt' = AfterSlot(seqAt) /\ Still
    BY <1>9 DEF pin_seq_pass, sequences, outs, history
  <2>2. seqAt' = AtRest \/ (seqAt' \in SeqSlots /\ seqAt' = seqAt + 1)
    BY <2>1, AfterSlotIn
  <2>3. \A k \in Waits(outputs) : outputs[k].ref \in SeqSlots
    BY EntryFacts DEF Waits, SeqInv, TypeOK
  <2>4. SeqSlots \subseteq Nat /\ seqAt \in Nat
    BY <2>1 DEF SeqSlots
  <2>5. seqAt # AtRest
    BY <2>4 DEF AtRest
  <2>6. ASSUME NEW k \in Waits(outputs) PROVE outputs[k].ref < seqAt + 1
    <3> DEFINE r == outputs[k].ref
    <3>1. r < seqAt
      BY <1>2, <2>5 DEF Filed
    <3>2. r \in Nat
      BY <2>3, <2>4
    <3> HIDE DEF r
    <3>3. r < seqAt + 1
      BY <2>4, <3>1, <3>2
    <3> QED
      BY <3>3 DEF r
  <2> QED
    BY <1>1, <2>1, <2>2, <2>6, OrderTurns
<1>10. CASE pin_seq_delay \/ pin_seq_signal
  BY <1>1, <1>10, OrderCollects
<1>11. CASE pin_seq_event
  BY <1>1, <1>11, OrderEvents
<1>12. CASE pin_seq_next
  BY <1>1, <1>12, OrderAbsorbs
<1>13. CASE pin_seq_next_untaken
  BY <1>3, <1>13 DEF pin_seq_next_untaken, sequences, outs, history
<1>14. CASE machine_single_event_prepare
  <2>1. event.name \in Names
    BY <1>14, EngineAssumption DEF machine_single_event_prepare, SeqInv, Pushed
  <2>2. UNCHANGED <<outputs, driven, finished, seqAt>>
    BY <1>14 DEF machine_single_event_prepare, outs
  <2>3. CASE Push(event.name)
    BY <1>5, <2>1, <2>2, <2>3
  <2>4. CASE UNCHANGED <<sequences, pushes, lost>>
    BY <1>3, <2>2, <2>4 DEF sequences
  <2> QED
    BY <1>14, <2>3, <2>4 DEF machine_single_event_prepare
<1>15. CASE event_prepare_untaken
  BY <1>15 DEF event_prepare_untaken
<1>16. CASE queues_flush
  <2>1. CASE pin_evt_flush
    BY <1>1, <2>1 DEF pin_evt_flush
  <2>2. CASE clk_pit_flush \/ pin_seq_flush
    BY <1>1, <2>2 DEF clk_pit_flush, pin_seq_flush, SeqInv, Pushed, Unflushed
  <2>3. CASE task_engage
    BY <1>3, <2>3 DEF task_engage, sequences, outs, history
  <2> QED
    BY <1>16, <2>1, <2>2, <2>3 DEF queues_flush
<1>17. CASE (\E i \in ClkSlots : clk_pit_update(i)) \/ (\E i \in EvtSlots : pin_evt_seen(i))
  BY <1>3, <1>17 DEF clk_pit_update, pin_evt_seen, sequences, outs, history
<1>18. CASE pin_evt_set
  <2>1. CASE outputs[evtAt].status = "waiting"
    BY <1>1, <1>18, <2>1, OrderDrives
  <2>2. CASE outputs[evtAt].status # "waiting"
    BY <1>3, <1>18, <2>2 DEF pin_evt_set, sequences
  <2> QED
    BY <2>1, <2>2
<1>19. CASE UNCHANGED vars
  BY <1>3, <1>19 DEF vars, sequences, outs, history
<1> QED
  BY <1>6, <1>7, <1>8, <1>9, <1>10, <1>11, <1>12, <1>13, <1>14, <1>15, <1>16, <1>17, <1>18, <1>19
     DEF Next, pin_seq_update, execution_update

LEMMA OrderInit == Init => OrderInv
<1> SUFFICES ASSUME Init PROVE InOrder
  BY DEF OrderInv
<1>1. Waits(outputs) = {}
  BY NoEntryIn DEF Init, Waits
<1>2. \A i \in SeqSlots : pin_seq_sequences[i].job = 0
  BY DEF Init, None
<1>3. 0 \notin Jobs
  BY SizeFacts DEF Jobs
<1>4. Filed(pin_seq_sequences, outputs, seqAt)
  BY <1>1 DEF Filed
<1>5. Distinct(pin_seq_sequences)
  BY <1>2, <1>3 DEF Distinct
<1>6. \A i \in SeqSlots : Passed(pin_seq_sequences, outputs, driven, finished, i)
  BY <1>2, <1>3 DEF Passed
<1>7. \A j \in Jobs : j > pushes => driven[j] = <<>> /\ j \notin finished
  BY DEF Init
<1> QED
  BY <1>4, <1>5, <1>6, <1>7 DEF InOrder

\* When the event task empties the ring of outputs between two turns of the sequence task
\* (40 ms against 50 ms), the outputs of a sequence are set in the order of its pattern,
\* none twice, none left out, and all of them by the time it is absorbed (pin_seq_event
\* files them, pin_evt_update sets them, pin_seq_next absorbs the sequence).
THEOREM InPatternOrderHolds ==
  ASSUME Prompt
  PROVE  Spec => []InPatternOrder
<1>1. SeqInv /\ OrderInv => InPatternOrder
  <2> SUFFICES ASSUME SeqInv, OrderInv, ~lost, flushes = 0,
                      NEW i \in SeqSlots, NEW n \in Names, NEW j \in Jobs,
                      pin_seq_sequences[i].name = n, pin_seq_sequences[i].job = j
               PROVE  /\ FirstOf(driven[j], n)
                      /\ j \in finished => Driven(driven[j]) = Sets(n)
    BY DEF InPatternOrder
  <2> DEFINE s == pin_seq_sequences[i]
             d == driven[j]
  <2>1. InOrder
    BY DEF OrderInv
  <2>2. /\ s.index \in Nat \ {0}
        /\ Turns(d) /\ Driven(d) \subseteq Sets(n)
        /\ \A x \in Driven(d) : x < s.index
        /\ \A x \in Sets(n) : x < s.index =>
             x \in Driven(d) \/ \E k \in Waits(outputs) : outputs[k].ref = i /\ outputs[k].step = x
        /\ \A k \in Waits(outputs) : outputs[k].ref = i => \A x \in Driven(d) : x < outputs[k].step
        /\ j \in finished => s.index \notin DOMAIN Pattern[n] /\ s.status = "INACTIVE"
    BY <2>1 DEF InOrder, Passed
  <2>3. Sets(n) \subseteq Nat
    BY EngineAssumption DEF Sets
  <2>4. FirstOf(d, n)
    <3>1. ASSUME NEW x \in Driven(d), NEW y \in Sets(n), y < x PROVE y \in Driven(d)
      <4>1. x \in Nat /\ y \in Nat /\ y < s.index
        BY <2>2, <2>3, <3>1
      <4>2. ASSUME NEW k \in Waits(outputs), outputs[k].ref = i, outputs[k].step = y PROVE FALSE
        BY <2>2, <3>1, <4>1, <4>2
      <4> QED
        BY <2>2, <4>1, <4>2
    <3> QED
      BY <2>2, <3>1 DEF FirstOf
  <2>5. ASSUME j \in finished PROVE Driven(d) = Sets(n)
    <3>1. \A x \in Sets(n) : x < s.index
      <4>1. ASSUME NEW x \in Sets(n), ~(x < s.index) PROVE FALSE
        <5>1. x \in DOMAIN Pattern[n] /\ 1 .. x \subseteq DOMAIN Pattern[n]
          BY EngineAssumption DEF Sets
        <5>2. s.index \in 1 .. x
          BY <2>2, <2>3, <4>1
        <5> QED
          BY <2>2, <2>5, <5>1, <5>2
      <4> QED
        BY <4>1
    <3>2. \A k \in Waits(outputs) : outputs[k].ref # i
      BY <2>1, <2>2, <2>5 DEF InOrder, Filed
    <3> QED
      BY <2>2, <3>1, <3>2
  <2> QED
    BY <2>4, <2>5
<1>2. Init => SeqInv /\ OrderInv
  BY InitInv, OrderInit
<1>3. SeqInv /\ OrderInv /\ [Next]_vars => (SeqInv /\ OrderInv)'
  BY StepInv, OrderStep
<1> QED
  BY <1>1, <1>2, <1>3, PTL DEF Spec

=============================================================================
