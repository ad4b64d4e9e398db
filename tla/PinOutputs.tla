----------------------------- MODULE PinOutputs -----------------------------
(***************************************************************************)
(* The outputs of one port expander (src/pin_xio.c). pin_xio_set changes   *)
(* the bit of one pin in the word of the next slot of a ring and steps on; *)
(* the output task takes one word per turn and writes it to the expander.  *)
(* A slot keeps its word from one round to the next, and the other bits of *)
(* the word are not those of the slot before.                              *)
(*                                                                         *)
(* A word is the set of the pins it holds high. sets, taken, printed,      *)
(* overrun and failed are history; boot is the word found at start-up.     *)
(***************************************************************************)
EXTENDS Integers, Sequences, FiniteSetsExt

CONSTANTS MAX_INPUT_TIMESTAMP,  \* slots of the ring (6 in the code)
          Pins,                 \* output pins of the expander
          MaxSets,              \* bound on the calls of pin_xio_set
          MaxFails              \* bound on the writes the expander refuses

ConstantsOK == /\ MAX_INPUT_TIMESTAMP \in Nat \ {0, 1}
               /\ MaxSets \in Nat /\ MaxFails \in Nat

VARIABLES osts,                       \* the word in each slot
          output_timestamp_next,      \* next slot set
          output_timestamp_current,   \* next slot printed
          output_timestamp_overflow,  \* rounds the setter is ahead
          data,                       \* the word the task is about to write, if any
          device,                     \* the pins the expander drives high
          boot,                       \* the pins it drove high at start-up
          sets,                       \* history: the calls, [pin, high]
          taken,                      \* history: words taken from the ring
          printed,                    \* history: writes done, refused ones too
          overrun,                    \* history: a word was set again before it was taken
          fails,                      \* history: refused writes
          failed                      \* history: the last write was refused

ring == <<osts, output_timestamp_next, output_timestamp_current, output_timestamp_overflow>>
vars == <<ring, data, device, boot, sets, taken, printed, overrun, fails, failed>>

Last == MAX_INPUT_TIMESTAMP - 1

Slots == 0 .. MAX_INPUT_TIMESTAMP - 1

-----------------------------------------------------------------------------
\* pin_xio_adapter_bootup fills every slot with what the expander drives.
Init ==
  /\ boot \in SUBSET Pins
  /\ device = boot
  /\ osts = [i \in Slots |-> boot]
  /\ output_timestamp_next = 0 /\ output_timestamp_current = 0
  /\ output_timestamp_overflow = 0
  /\ data = {}
  /\ sets = <<>> /\ taken = 0 /\ printed = 0
  /\ overrun = FALSE /\ fails = 0 /\ failed = FALSE

WithPin(word, pin, high) == IF high THEN word \cup {pin} ELSE word \ {pin}

Stepped(i) == IF i < Last THEN i + 1 ELSE 0
Wrapped(i) == IF i < Last THEN 0 ELSE 1

pin_xio_set_uncounted(pin, high) ==   \* mutant: the round is not counted
  /\ Len(sets) < MaxSets
  /\ osts' = [osts EXCEPT ![output_timestamp_next] = WithPin(@, pin, high)]
  /\ output_timestamp_next' = Stepped(output_timestamp_next)
  /\ sets' = Append(sets, [pin |-> pin, high |-> high])
  /\ overrun' = (overrun \/ Len(sets) - taken >= MAX_INPUT_TIMESTAMP)
  /\ UNCHANGED <<output_timestamp_current, output_timestamp_overflow,
                 data, device, boot, taken, printed, fails, failed>>

pin_xio_set_copies(pin, high) ==      \* mutant: the word starts from the slot before
  /\ Len(sets) < MaxSets
  /\ osts' = [osts EXCEPT ![output_timestamp_next] =
       WithPin(osts[(output_timestamp_next - 1) % MAX_INPUT_TIMESTAMP], pin, high)]
  /\ output_timestamp_next' = Stepped(output_timestamp_next)
  /\ output_timestamp_overflow' = output_timestamp_overflow + Wrapped(output_timestamp_next)
  /\ sets' = Append(sets, [pin |-> pin, high |-> high])
  /\ overrun' = (overrun \/ Len(sets) - taken >= MAX_INPUT_TIMESTAMP)
  /\ UNCHANGED <<output_timestamp_current, data, device, boot, taken, printed, fails, failed>>

\* A task sets a pin. (When buffer_lock times out the level is dropped: a
\* stuttering step.)
pin_xio_set(pin, high) ==
  /\ Len(sets) < MaxSets
  /\ osts' = [osts EXCEPT ![output_timestamp_next] = WithPin(@, pin, high)]
  /\ output_timestamp_next' = Stepped(output_timestamp_next)
  /\ output_timestamp_overflow' = output_timestamp_overflow + Wrapped(output_timestamp_next)
  /\ sets' = Append(sets, [pin |-> pin, high |-> high])
  /\ overrun' = (overrun \/ Len(sets) - taken >= MAX_INPUT_TIMESTAMP)
  /\ UNCHANGED <<output_timestamp_current, data, device, boot, taken, printed, fails, failed>>

Pending == \/ output_timestamp_current < output_timestamp_next
           \/ output_timestamp_overflow > 0

\* The output task takes the next word under the lock...
pin_out_take ==
  /\ data = {} /\ Pending
  /\ data' = {osts[output_timestamp_current]}
  /\ output_timestamp_current' = Stepped(output_timestamp_current)
  /\ output_timestamp_overflow' = output_timestamp_overflow - Wrapped(output_timestamp_current)
  /\ taken' = taken + 1
  /\ UNCHANGED <<osts, output_timestamp_next, device, boot, sets, printed,
                 overrun, fails, failed>>

\* ... and writes it to the expander without the lock. A refused write is
\* reported to the console and the word is lost.
pin_out_write ==
  /\ data # {}
  /\ \/ /\ device' \in data
        /\ failed' = FALSE
        /\ UNCHANGED fails
     \/ /\ fails < MaxFails
        /\ failed' = TRUE
        /\ fails' = fails + 1
        /\ UNCHANGED device
  /\ data' = {}
  /\ printed' = printed + 1
  /\ UNCHANGED <<ring, boot, sets, taken, overrun>>

Next == \/ \E pin \in Pins, high \in BOOLEAN : pin_xio_set(pin, high)
        \/ pin_out_take
        \/ pin_out_write

Spec == Init /\ [][Next]_vars

\* The output task runs every 10 ms and gets its lock again and again.
Fairness == SF_vars(pin_out_take) /\ WF_vars(pin_out_write)

FairSpec == Spec /\ Fairness

-----------------------------------------------------------------------------
\* The level a pin has after the calls numbered in N, from what it was at start-up.
LevelAfter(N, pin) ==
  LET ofPin == {n \in N : sets[n].pin = pin}
  IN  IF ofPin = {} THEN pin \in boot ELSE sets[Max(ofPin)].high

\* The calls up to the n-th that went through its slot.
SameSlot(n) == {m \in 1 .. n : m % MAX_INPUT_TIMESTAMP = n % MAX_INPUT_TIMESTAMP}

\* What the n-th write shows: the n-th level, and for every other pin the level it
\* was last given in the same slot, one or more rounds ago.
SlotMemory == [][printed' # printed /\ ~overrun /\ ~failed'
                   => device' = {pin \in Pins : LevelAfter(SameSlot(printed'), pin)}]_vars

\* Every level set is followed by its write.
AllPrinted == \A k \in 1 .. MaxSets : (Len(sets) >= k) ~> (printed >= k)

\* When nothing waits any more each pin has the level it was set to last.
\* Not kept: setting one pin brings back older levels of the others.
OutputsKept == ~Pending /\ data = {} /\ ~overrun /\ fails = 0
                 => device = {pin \in Pins : LevelAfter(1 .. Len(sets), pin)}

=============================================================================
