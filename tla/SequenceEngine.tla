--------------------------- MODULE SequenceEngine ---------------------------
(***************************************************************************)
(* The sequences of pin events (src/pin_seq.c, src/pin_evt.c,              *)
(* src/clk_pit.c) and the execution task that pushes and absorbs them      *)
(* (src/execution.c, src/machines.c). A sequence is a pattern of steps:    *)
(* set a port, wait for the level of a port, wait for a delay. The         *)
(* sequence task steps each active sequence and files its waits in two     *)
(* rings, one for delays and one for inputs; its outputs go to a third.    *)
(* The clock and the event task complete them, and the sequence task       *)
(* collects what was completed at its next turn.                           *)
(*                                                                         *)
(* A turn of the sequence task holds seq_lock and is one step per event    *)
(* collected and per sequence stepped; the clock task, the event task and  *)
(* queues_flush do not take that lock and run between any two of them.     *)
(*                                                                         *)
(* Pushes are numbered; the number a sequence and its waits carry (job)    *)
(* and the variables below the line are history.                           *)
(***************************************************************************)
EXTENDS Integers, FiniteSets, Sequences

CONSTANTS Names,                  \* the sequences of the deployed machines
          Pattern,                \* the steps of each: [kind, port, level]
          EventNames,             \* those of channel Event, pushed again when done
          PIN_SEQ_MAX_SEQUENCES,  \* slots for sequences (128 in the code)
          CLK_PIT_MAX_EVENTS,     \* slots for delays (64)
          PIN_EVT_MAX_EVENTS,     \* slots for inputs, and for outputs (256)
          Prompt,                 \* the event task scans the outputs between two turns
          Timeouts,               \* may seq_lock time out?
          MaxPush, MaxFlush       \* bounds on the pushes and the flushes

Kinds == {"set", "get", "delay"}

ASSUME EngineAssumption ==
  /\ EventNames \subseteq Names
  /\ \A n \in Names : DOMAIN Pattern[n] \subseteq Nat \ {0}
  /\ \A n \in Names : \A i \in DOMAIN Pattern[n] :
       Pattern[n][i].kind \in Kinds /\ 1 .. i \subseteq DOMAIN Pattern[n]
  /\ \E n \in Names : DOMAIN Pattern[n] # {}
  /\ {PIN_SEQ_MAX_SEQUENCES, CLK_PIT_MAX_EVENTS, PIN_EVT_MAX_EVENTS} \subseteq Nat \ {0}
  /\ {Prompt, Timeouts} \subseteq BOOLEAN
  /\ MaxPush \in Nat /\ MaxFlush \in Nat

VARIABLES pin_seq_sequences,     \* [name, index, status, job]
          pin_seq_sequence_idx,  \* next slot pushed; one past the last means 0
          clk_pit_events, clk_pit_event_idx,
          inputs, inputIdx,      \* pin_evt_events[IDIR] and its index
          outputs, outputIdx,    \* pin_evt_events[ODIR] and its index
          seqAt,                 \* sequence task: where in its turn, or the slot it steps
          evtAt,                 \* event task: next output looked at
          execAt,                \* execution task
          event,                 \* the sequence it absorbed last, or none
          (*---------------------------------------------------------------*)
          pushes, flushes,       \* so far
          driven,                \* the steps of each job whose outputs were set, in turn
          finished,              \* jobs absorbed
          flushed,               \* jobs pushed before the last flush
          lost                   \* a push landed on something live, or a lock timed out

clocks == <<clk_pit_events, clk_pit_event_idx>>
ins == <<inputs, inputIdx>>
outs == <<outputs, outputIdx>>
sequences == <<pin_seq_sequences, pin_seq_sequence_idx>>
history == <<pushes, flushes, driven, finished, flushed, lost>>
vars == <<sequences, clocks, ins, outs, seqAt, evtAt, execAt, event, history>>

SeqSlots == 0 .. PIN_SEQ_MAX_SEQUENCES - 1
ClkSlots == 0 .. CLK_PIT_MAX_EVENTS - 1
EvtSlots == 0 .. PIN_EVT_MAX_EVENTS - 1
Jobs == 1 .. MaxPush

\* The turn of the sequence task: between turns, collecting the delays that are
\* over, the inputs that were seen, and then slot by slot.
AtRest == -3
AtDelays == -2
AtInputs == -1

\* An entry of a ring: the slot it works for, the step of the pattern it is, and
\* its status. A delay goes from ACTIVE to DONE, an input from PENDING to ACTIVE:
\* both are "waiting" and then "over" here. An output is "waiting" until it is set.
Entry(ref, s) == [ref |-> ref, job |-> s.job, step |-> s.index,
                  signal |-> Pattern[s.name][s.index], status |-> "waiting"]
Signals == UNION {{Pattern[n][i] : i \in DOMAIN Pattern[n]} : n \in Names}
NoEntry == [ref |-> 0, job |-> 0, step |-> 0, signal |-> CHOOSE g \in Signals : TRUE,
            status |-> "INACTIVE"]
Entries == [ref : SeqSlots, job : 0 .. MaxPush, step : Nat, signal : Signals,
            status : {"INACTIVE", "waiting", "over"}]

None == [name |-> "none", index |-> 0, status |-> "INACTIVE", job |-> 0]
SequenceSet == [name : Names, index : Nat, job : Jobs,
                status : {"INACTIVE", "ACTIVE", "PENDING", "DONE"}] \cup {None}

TypeOK ==
  /\ pin_seq_sequences \in [SeqSlots -> SequenceSet]
  /\ pin_seq_sequence_idx \in 0 .. PIN_SEQ_MAX_SEQUENCES
  /\ clk_pit_events \in [ClkSlots -> Entries] /\ clk_pit_event_idx \in 0 .. CLK_PIT_MAX_EVENTS
  /\ inputs \in [EvtSlots -> Entries] /\ inputIdx \in 0 .. PIN_EVT_MAX_EVENTS
  /\ outputs \in [EvtSlots -> Entries] /\ outputIdx \in 0 .. PIN_EVT_MAX_EVENTS
  /\ seqAt \in {AtRest, AtDelays, AtInputs} \cup SeqSlots
  /\ evtAt \in EvtSlots
  /\ execAt \in {"run", "repush", "evtFlushed", "clkFlushed", "off"}
  /\ event \in SequenceSet
  /\ pushes \in 0 .. MaxPush /\ flushes \in 0 .. MaxFlush
  /\ driven \in [Jobs -> Seq(Nat)]
  /\ finished \subseteq Jobs /\ flushed \in 0 .. MaxPush
  /\ lost \in BOOLEAN

-----------------------------------------------------------------------------
Init ==
  /\ pin_seq_sequences = [i \in SeqSlots |-> None] /\ pin_seq_sequence_idx = 0
  /\ clk_pit_events = [i \in ClkSlots |-> NoEntry] /\ clk_pit_event_idx = 0
  /\ inputs = [i \in EvtSlots |-> NoEntry] /\ inputIdx = 0
  /\ outputs = [i \in EvtSlots |-> NoEntry] /\ outputIdx = 0
  /\ seqAt = AtRest /\ evtAt = 0
  /\ execAt = "off" /\ event = None
  /\ pushes = 0 /\ flushes = 0 /\ driven = [j \in Jobs |-> <<>>]
  /\ finished = {} /\ flushed = 0 /\ lost = FALSE

\* The slot a ring index names: one past the last slot is slot 0 again.
Wrap(i, size) == IF i > size - 1 THEN 0 ELSE i

Live(i) == pin_seq_sequences[i].status # "INACTIVE"

\* Where pin_seq_push looks next: the first free slot after i, or one past the last.
\* (The code reads on behind the array; wherever that ends, the next push wraps.)
Beyond(i) == LET free == {k \in SeqSlots : k > i /\ ~Live(k)}
             IN  IF free = {} THEN PIN_SEQ_MAX_SEQUENCES
                 ELSE CHOOSE k \in free : \A l \in free : k <= l

Push_stuck(n) ==                      \* mutant: the index is not advanced
  LET i == Wrap(pin_seq_sequence_idx, PIN_SEQ_MAX_SEQUENCES)
  IN  /\ seqAt = AtRest /\ pushes < MaxPush
      /\ pin_seq_sequences' = [pin_seq_sequences EXCEPT ![i] =
           [name |-> n, index |-> 1, status |-> "ACTIVE", job |-> pushes + 1]]
      /\ pin_seq_sequence_idx' = i
      /\ pushes' = pushes + 1
      /\ lost' = lost

\* pin_seq_push, under seq_lock: a live sequence at slot 0 is overwritten.
Push(n) ==
  LET i == Wrap(pin_seq_sequence_idx, PIN_SEQ_MAX_SEQUENCES)
  IN  /\ seqAt = AtRest /\ pushes < MaxPush
      /\ pin_seq_sequences' = [pin_seq_sequences EXCEPT ![i] =
           [name |-> n, index |-> 1, status |-> "ACTIVE", job |-> pushes + 1]]
      /\ pin_seq_sequence_idx' = Beyond(i)
      /\ pushes' = pushes + 1
      /\ lost' = (lost \/ Live(i))

\* machines_prepare, before the hub executes: the events of its machines are pushed.
machine_single_prepare(n) ==
  /\ n \in EventNames /\ execAt = "off"
  /\ Push(n)
  /\ UNCHANGED <<clocks, ins, outs, seqAt, evtAt, execAt, event,
                 flushes, driven, finished, flushed>>

\* An order from the cloud pushes an action. It may have found the hub executing just
\* before a flush. (When the lock times out nothing is pushed: a stuttering step.)
execution_perform(n) ==
  /\ n \notin EventNames /\ execAt # "off"
  /\ Push(n)
  /\ UNCHANGED <<clocks, ins, outs, seqAt, evtAt, execAt, event,
                 flushes, driven, finished, flushed>>

-----------------------------------------------------------------------------
\* The step a sequence is at, as a set: empty behind the last.
Current(s) == IF s.name \in Names /\ s.index \in DOMAIN Pattern[s.name]
                THEN {Pattern[s.name][s.index]} ELSE {}

SteppedOn_pending(s) == [s EXCEPT !.index = @ + 1]     \* mutant: it still waits

\* A sequence steps on: the wait of its current step is over.
SteppedOn(s) == [s EXCEPT !.index = @ + 1, !.status = "ACTIVE"]

First(S) == CHOOSE i \in S : \A j \in S : i <= j
Over(ring) == {i \in DOMAIN ring : ring[i].status = "over"}
Idle(ring) == \A i \in DOMAIN ring : ring[i].status = "INACTIVE"

\* A turn of pin_seq_update begins.
pin_seq_begin ==
  /\ seqAt = AtRest
  /\ Prompt => Idle(outputs)
  /\ seqAt' = AtDelays
  /\ UNCHANGED <<sequences, clocks, ins, outs, evtAt, execAt, event, history>>

pin_seq_delay_wrong_ref ==            \* mutant: the slot of the delay, not of its sequence
  /\ seqAt = AtDelays
  /\ Over(clk_pit_events) # {}
  /\ LET i == First(Over(clk_pit_events))
     IN  /\ clk_pit_events' = [clk_pit_events EXCEPT ![i].status = "INACTIVE"]
         /\ pin_seq_sequences' = [pin_seq_sequences EXCEPT ![i] =
              IF \E g \in Current(@) : g.kind = "delay" THEN SteppedOn(@) ELSE @]
  /\ UNCHANGED <<pin_seq_sequence_idx, clk_pit_event_idx, ins, outs, seqAt, evtAt,
                 execAt, event, history>>

\* clk_pit_next, pin_seq_delay: a delay that is over leaves its ring, and whatever
\* sequence is in its slot steps on if it is at a delay.
pin_seq_delay ==
  /\ seqAt = AtDelays
  /\ Over(clk_pit_events) # {}
  /\ LET i == First(Over(clk_pit_events))
     IN  /\ clk_pit_events' = [clk_pit_events EXCEPT ![i].status = "INACTIVE"]
         /\ pin_seq_sequences' = [pin_seq_sequences EXCEPT ![clk_pit_events[i].ref] =
              IF \E g \in Current(@) : g.kind = "delay" THEN SteppedOn(@) ELSE @]
  /\ UNCHANGED <<pin_seq_sequence_idx, clk_pit_event_idx, ins, outs, seqAt, evtAt,
                 execAt, event, history>>

pin_seq_delays_done ==
  /\ seqAt = AtDelays /\ Over(clk_pit_events) = {}
  /\ seqAt' = AtInputs
  /\ UNCHANGED <<sequences, clocks, ins, outs, evtAt, execAt, event, history>>

\* pin_evt_next, pin_seq_signal: an input that was seen leaves its ring, and whatever
\* sequence is in its slot steps on if it is at a signal of the same port OR level.
pin_seq_signal ==
  /\ seqAt = AtInputs
  /\ Over(inputs) # {}
  /\ LET i == First(Over(inputs))
         seen == inputs[i].signal
     IN  /\ inputs' = [inputs EXCEPT ![i].status = "INACTIVE"]
         /\ pin_seq_sequences' = [pin_seq_sequences EXCEPT ![inputs[i].ref] =
              IF \E g \in Current(@) : /\ g.kind # "delay"
                                       /\ g.port = seen.port \/ g.level = seen.level
                THEN SteppedOn(@) ELSE @]
  /\ UNCHANGED <<pin_seq_sequence_idx, inputIdx, clocks, outs, seqAt, evtAt, execAt,
                 event, history>>

pin_seq_signals_done ==
  /\ seqAt = AtInputs /\ Over(inputs) = {}
  /\ seqAt' = 0
  /\ UNCHANGED <<sequences, clocks, ins, outs, evtAt, execAt, event, history>>

AfterSlot(i) == IF i = PIN_SEQ_MAX_SEQUENCES - 1 THEN AtRest ELSE i + 1

\* pin_seq_event at a sequence that is active: behind its last step it is done; a
\* delay or an input is filed and the sequence waits for it; an output is filed and
\* the sequence steps on at once. A ring index wraps and its slot is overwritten.
pin_seq_event ==
  /\ seqAt \in SeqSlots
  /\ pin_seq_sequences[seqAt].status = "ACTIVE"
  /\ LET s == pin_seq_sequences[seqAt]
         kinds == {g.kind : g \in Current(s)}
         c == Wrap(clk_pit_event_idx, CLK_PIT_MAX_EVENTS)
         i == Wrap(inputIdx, PIN_EVT_MAX_EVENTS)
         o == Wrap(outputIdx, PIN_EVT_MAX_EVENTS)
         Becomes(status) == [pin_seq_sequences EXCEPT ![seqAt].status = status]
     IN  \/ /\ kinds = {}
            /\ pin_seq_sequences' = Becomes("DONE")
            /\ UNCHANGED <<clocks, ins, outs, lost>>
         \/ /\ kinds = {"delay"}
            /\ pin_seq_sequences' = Becomes("PENDING")
            /\ clk_pit_events' = [clk_pit_events EXCEPT ![c] = Entry(seqAt, s)]
            /\ clk_pit_event_idx' = c + 1
            /\ lost' = (lost \/ clk_pit_events[c].status # "INACTIVE")
            /\ UNCHANGED <<ins, outs>>
         \/ /\ kinds = {"get"}
            /\ pin_seq_sequences' = Becomes("PENDING")
            /\ inputs' = [inputs EXCEPT ![i] = Entry(seqAt, s)]
            /\ inputIdx' = i + 1
            /\ lost' = (lost \/ inputs[i].status # "INACTIVE")
            /\ UNCHANGED <<clocks, outs>>
         \/ /\ kinds = {"set"}
            /\ pin_seq_sequences' = [pin_seq_sequences EXCEPT ![seqAt].index = @ + 1]
            /\ outputs' = [outputs EXCEPT ![o] = Entry(seqAt, s)]
            /\ outputIdx' = o + 1
            /\ lost' = (lost \/ outputs[o].status # "INACTIVE")
            /\ UNCHANGED <<clocks, ins>>
  /\ seqAt' = AfterSlot(seqAt)
  /\ UNCHANGED <<pin_seq_sequence_idx, evtAt, execAt, event,
                 pushes, flushes, driven, finished, flushed>>

pin_seq_pass ==
  /\ seqAt \in SeqSlots
  /\ pin_seq_sequences[seqAt].status # "ACTIVE"
  /\ seqAt' = AfterSlot(seqAt)
  /\ UNCHANGED <<sequences, clocks, ins, outs, evtAt, execAt, event, history>>

-----------------------------------------------------------------------------
\* clk_pit_update: a delay runs out.
clk_pit_update(i) ==
  /\ clk_pit_events[i].status = "waiting"
  /\ clk_pit_events' = [clk_pit_events EXCEPT ![i].status = "over"]
  /\ UNCHANGED <<sequences, clk_pit_event_idx, ins, outs, seqAt, evtAt, execAt, event, history>>

\* pin_evt_update, inputs: the level an input waits for is found at its port.
pin_evt_seen(i) ==
  /\ inputs[i].status = "waiting"
  /\ inputs' = [inputs EXCEPT ![i].status = "over"]
  /\ UNCHANGED <<sequences, clocks, inputIdx, outs, seqAt, evtAt, execAt, event, history>>

pin_evt_set_kept ==                   \* mutant: the output stays in its ring
  /\ evtAt' = (evtAt + 1) % PIN_EVT_MAX_EVENTS
  /\ driven' = IF outputs[evtAt].status = "waiting"
                 THEN [driven EXCEPT ![outputs[evtAt].job] = Append(@, outputs[evtAt].step)]
                 ELSE driven
  /\ UNCHANGED <<sequences, clocks, ins, outs, seqAt, execAt, event,
                 pushes, flushes, finished, flushed, lost>>

\* pin_evt_update, outputs: the next slot is looked at, and its output set.
pin_evt_set ==
  /\ evtAt' = (evtAt + 1) % PIN_EVT_MAX_EVENTS
  /\ IF outputs[evtAt].status = "waiting"
       THEN /\ outputs' = [outputs EXCEPT ![evtAt].status = "INACTIVE"]
            /\ driven' = [driven EXCEPT ![outputs[evtAt].job] = Append(@, outputs[evtAt].step)]
       ELSE UNCHANGED <<outputs, driven>>
  /\ UNCHANGED <<sequences, clocks, ins, outputIdx, seqAt, execAt, event,
                 pushes, flushes, finished, flushed, lost>>

-----------------------------------------------------------------------------
Done == {i \in SeqSlots : pin_seq_sequences[i].status = "DONE"}

\* execution_update: pin_seq_next absorbs the first sequence that is done.
pin_seq_next ==
  /\ execAt = "run" /\ seqAt = AtRest
  /\ Done # {}
  /\ event' = pin_seq_sequences[First(Done)]
  /\ pin_seq_sequences' = [pin_seq_sequences EXCEPT ![First(Done)].status = "INACTIVE"]
  /\ finished' = finished \cup {event'.job}
  /\ execAt' = IF event'.name \in EventNames THEN "repush" ELSE "run"
  /\ UNCHANGED <<pin_seq_sequence_idx, clocks, ins, outs, seqAt, evtAt,
                 pushes, flushes, driven, flushed, lost>>

\* When seq_lock times out pin_seq_next answers SUCCESS all the same, and the task
\* handles what its variable holds: the sequence it absorbed before. (A call that
\* absorbed none yet reads what the call before left on the stack, and garbage before
\* the first: left out.)
pin_seq_next_untaken ==
  /\ Timeouts
  /\ execAt = "run" /\ seqAt # AtRest /\ event # None
  /\ execAt' = IF event.name \in EventNames THEN "repush" ELSE "run"
  /\ UNCHANGED <<sequences, clocks, ins, outs, seqAt, evtAt, event, history>>

\* machine_single_event_prepare pushes a finished event again, to be detected again
\* (until the bound of the model is reached);
machine_single_event_prepare ==
  /\ execAt = "repush"
  /\ IF pushes < MaxPush THEN Push(event.name)
                         ELSE seqAt = AtRest /\ UNCHANGED <<sequences, pushes, lost>>
  /\ execAt' = "run"
  /\ UNCHANGED <<clocks, ins, outs, seqAt, evtAt, event,
                 flushes, driven, finished, flushed>>

\* ... and when seq_lock times out forgets it.
event_prepare_untaken ==
  /\ Timeouts
  /\ execAt = "repush" /\ seqAt # AtRest
  /\ execAt' = "run"
  /\ lost' = TRUE
  /\ UNCHANGED <<sequences, clocks, ins, outs, seqAt, evtAt, event,
                 pushes, flushes, driven, finished, flushed>>

\* queues_flush, as the task disengages: the pin events, the delays, the sequences.
\* None of it takes seq_lock.
pin_evt_flush ==
  /\ execAt = "run" /\ flushes < MaxFlush
  /\ inputs' = [i \in EvtSlots |-> [inputs[i] EXCEPT !.status = "INACTIVE"]]
  /\ outputs' = [i \in EvtSlots |-> [outputs[i] EXCEPT !.status = "INACTIVE"]]
  /\ inputIdx' = 0 /\ outputIdx' = 0
  /\ flushes' = flushes + 1
  /\ execAt' = "evtFlushed"
  /\ UNCHANGED <<sequences, clocks, seqAt, evtAt, event, pushes, driven, finished,
                 flushed, lost>>

clk_pit_flush ==
  /\ execAt = "evtFlushed"
  /\ clk_pit_events' = [i \in ClkSlots |-> [clk_pit_events[i] EXCEPT !.status = "INACTIVE"]]
  /\ clk_pit_event_idx' = 0
  /\ execAt' = "clkFlushed"
  /\ UNCHANGED <<sequences, ins, outs, seqAt, evtAt, event, history>>

pin_seq_flush ==
  /\ execAt = "clkFlushed"
  /\ pin_seq_sequences' = [i \in SeqSlots |-> [pin_seq_sequences[i] EXCEPT !.status = "INACTIVE"]]
  /\ pin_seq_sequence_idx' = 0
  /\ execAt' = "off"
  /\ flushed' = pushes
  /\ UNCHANGED <<clocks, ins, outs, seqAt, evtAt, event, pushes, flushes, driven,
                 finished, lost>>

\* The hub executes (again).
task_engage ==
  /\ execAt = "off"
  /\ execAt' = "run"
  /\ UNCHANGED <<sequences, clocks, ins, outs, seqAt, evtAt, event, history>>

pin_seq_update == \/ pin_seq_begin \/ pin_seq_delay \/ pin_seq_delays_done
                  \/ pin_seq_signal \/ pin_seq_signals_done \/ pin_seq_event \/ pin_seq_pass

execution_update == \/ pin_seq_next \/ pin_seq_next_untaken
                    \/ machine_single_event_prepare \/ event_prepare_untaken

queues_flush == pin_evt_flush \/ clk_pit_flush \/ pin_seq_flush \/ task_engage

Next == \/ \E n \in Names : machine_single_prepare(n) \/ execution_perform(n)
        \/ pin_seq_update \/ execution_update \/ queues_flush
        \/ \E i \in ClkSlots : clk_pit_update(i)
        \/ \E i \in EvtSlots : pin_evt_seen(i)
        \/ pin_evt_set

Spec == Init /\ [][Next]_vars

\* All tasks are periodic, and seq_lock, given at the end of each turn of 50 ms, is
\* free for the execution task again and again. Whether an input is ever seen is up
\* to the machine.
FairSpec == /\ Spec
            /\ WF_vars(pin_seq_update) /\ WF_vars(pin_evt_set)
            /\ \A i \in ClkSlots : WF_vars(clk_pit_update(i))
            /\ SF_vars(pin_seq_next) /\ SF_vars(machine_single_event_prepare)
            /\ WF_vars(clk_pit_flush) /\ WF_vars(pin_seq_flush) /\ WF_vars(task_engage)

-----------------------------------------------------------------------------
\* The waits filed and not yet collected that belong to the sequence in slot i.
Outstanding(i) ==
  LET own(e) == /\ e.status # "INACTIVE" /\ e.ref = i
                /\ e.job = pin_seq_sequences[i].job /\ e.step = pin_seq_sequences[i].index
  IN  Cardinality({c \in ClkSlots : own(clk_pit_events[c])})
        + Cardinality({k \in EvtSlots : own(inputs[k])})

\* A sequence that waits has exactly one wait filed, of its own push and step, as
\* long as no ring was lapped: none waits for nothing, none is woken twice.
OneWaitEach == execAt \in {"run", "repush"} /\ ~lost
                 => \A i \in SeqSlots : pin_seq_sequences[i].status = "PENDING"
                                          => Outstanding(i) = 1

\* ... and without a flush no wait is left that nobody waits for: a wait always
\* finds the push that filed it, whatever was pushed into its slot since.
NoStrayWait ==
  ~lost /\ flushes = 0
    => \A ring \in {clk_pit_events, inputs} : \A k \in DOMAIN ring :
         ring[k].status # "INACTIVE"
           => LET s == pin_seq_sequences[ring[k].ref]
              IN  s.status = "PENDING" /\ s.job = ring[k].job /\ s.index = ring[k].step

\* The steps of a pattern that set a port.
Sets(n) == {x \in DOMAIN Pattern[n] : Pattern[n][x].kind = "set"}

\* d are the first of these steps in turn: none twice, none left out.
Turns(d) == \A k, l \in DOMAIN d : k < l => d[k] < d[l]
Driven(d) == {d[k] : k \in DOMAIN d}
FirstOf(d, n) == /\ Turns(d) /\ Driven(d) \subseteq Sets(n)
                 /\ \A x \in Driven(d) : \A y \in Sets(n) : y < x => y \in Driven(d)

\* The outputs of a sequence are set one by one in the order of its pattern, none
\* twice and none left out, and all of them by the time it is absorbed.
InPatternOrder ==
  ~lost /\ flushes = 0
    => \A i \in SeqSlots, n \in Names, j \in Jobs :
         pin_seq_sequences[i].name = n /\ pin_seq_sequences[i].job = j
           => /\ FirstOf(driven[j], n)
              /\ j \in finished => Driven(driven[j]) = Sets(n)

\* A sequence that waits for no input is carried to its end, unless it was flushed.
HasInput(n) == \E i \in DOMAIN Pattern[n] : Pattern[n][i].kind = "get"
Carried == \A j \in Jobs :
  (\E i \in SeqSlots : pin_seq_sequences[i].job = j /\ ~HasInput(pin_seq_sequences[i].name))
    ~> j \in finished \/ j <= flushed \/ lost

=============================================================================
