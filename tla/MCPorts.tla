------------------------------ MODULE MCPorts ------------------------------
(***************************************************************************)
(* What a change of a port goes through: the words on their way to an      *)
(* expander (PinOutputs), the samples of the inputs and who looks at them  *)
(* (PinInputs), and the log of port changes (PortLog). They share no       *)
(* state, so their steps commute, and each is checked with the other two   *)
(* at rest: part says which of them a behaviour is about.                  *)
(***************************************************************************)
CONSTANTS XIO_MAX_MSGS, Pushers, Reader, Free, MaxPushed, MaxOff,   \* of PortLog
          MAX_INPUT_TIMESTAMP,                                      \* of both buffers
          Pins, MaxSets, MaxFails,                                  \* of PinOutputs
          Ports, Waiters, Shared                                    \* of PinInputs

VARIABLES part,
          port_queued_msgs, xio_msg_idx, xio_msg_sent, xio_index_overflow, port_logging,
          xio_msg_lock, willPush, offAt, got, pushed, overrun, offs,
          osts, output_timestamp_next, output_timestamp_current, output_timestamp_overflow,
          data, device, boot, sets, taken, printed, outputs_overrun, fails, failed,
          level, pin_xio_status, ping_pong_idx, input_timestamp_place, inAt,
          should_we_refresh_ports, portAt, has_been_read, last_idx, pin_evt_events, evtAt,
          filled, seen

Log == INSTANCE PortLog
Outputs == INSTANCE PinOutputs WITH overrun <- outputs_overrun
Inputs == INSTANCE PinInputs

ASSUME PortsAssumption == Log!ConstantsOK /\ Outputs!ConstantsOK /\ Inputs!ConstantsOK

logVars == <<port_queued_msgs, xio_msg_idx, xio_msg_sent, xio_index_overflow, port_logging,
             xio_msg_lock, willPush, offAt, got, pushed, overrun, offs>>
outputVars == <<osts, output_timestamp_next, output_timestamp_current,
                output_timestamp_overflow, data, device, boot, sets, taken, printed,
                outputs_overrun, fails, failed>>
inputVars == <<level, pin_xio_status, ping_pong_idx, input_timestamp_place, inAt,
               should_we_refresh_ports, portAt, has_been_read, last_idx, pin_evt_events,
               evtAt, filled, seen>>
portVars == <<part, logVars, outputVars, inputVars>>

\* A part at rest stays as it is at start-up, with one choice of what it found there.
PortsInit == /\ Log!Init /\ Outputs!Init /\ Inputs!Init
             /\ part # "outputs" => boot = {}
             /\ part # "inputs" => level = [p \in Ports |-> FALSE]

PortsNext ==
  \/ part = "log" /\ Log!Next /\ UNCHANGED <<part, outputVars, inputVars>>
  \/ part = "outputs" /\ Outputs!Next /\ UNCHANGED <<part, logVars, inputVars>>
  \/ part = "inputs" /\ Inputs!Next /\ UNCHANGED <<part, logVars, outputVars>>

\* The two rings. One at rest has nothing to read or to print, so that its fairness
\* asks nothing of the behaviours of the other.
RingsInit == part \in {"log", "outputs"} /\ PortsInit
RingsSpec == RingsInit /\ [][PortsNext]_portVars /\ Log!Fairness /\ Outputs!Fairness

\* The inputs.
InputsInit == part = "inputs" /\ PortsInit
InputsSpec == InputsInit /\ [][PortsNext]_portVars /\ Inputs!Fairness

-----------------------------------------------------------------------------
\* The properties of PortLog: what a round of the log loses, and that its reader
\* gets to the end of it.
OneLostPerRound == Log!OneLostPerRound
Drains == Log!Drains

\* The properties of PinOutputs: what a word printed shows of all pins, and that
\* every level set is printed.
SlotMemory == Outputs!SlotMemory
AllPrinted == Outputs!AllPrinted

\* The properties of PinInputs: that a level is found in a recent sample, that the
\* levels found at a port follow each other in time, and that one that stays is found.
Fresh == Inputs!Fresh
Forward == Inputs!Forward
Detected == Inputs!Detected

=============================================================================
