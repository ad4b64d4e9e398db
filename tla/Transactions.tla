---------------------------- MODULE Transactions ----------------------------
(***************************************************************************)
(* A customer's cycle of a machine, which the hub carries through alone    *)
(* while it is offline (src/execution.c, the flags of src/machines.c, the  *)
(* execution channel of src/msg_fmt.c, the recovery report of              *)
(* src/monitoring.c). The execution task takes what the sequence engine    *)
(* has done: a trigger makes it order "deny", deny orders the action, its  *)
(* success orders "allow". It gives these orders to itself through the     *)
(* one-place buffer in which the cloud's orders arrive as well, and the    *)
(* message task performs them. Online the cloud is told instead and is to  *)
(* order the next step. What was done offline is reported afterwards.      *)
(*                                                                         *)
(* The flags of a machine have one lock, taken for each read or write of   *)
(* one of them: a step of this module reads or writes one flag, unless no  *)
(* other task touches what it touches. The sequence engine is abstracted   *)
(* to what is pushed and not yet taken; module SequenceEngine has it all.  *)
(* The bounds' counters, cut, untold and missed are history.               *)
(***************************************************************************)
EXTENDS Naturals

CONSTANTS Machines,
          MaxTriggers,  \* bound on the customers' triggers
          MaxOrders,    \* bound on the orders of the cloud
          MaxToggles,   \* bound on the changes of the connection
          Timeouts      \* may a lock be held until a caller gives up?

ASSUME TransactionsAssumption == /\ MaxTriggers \in Nat /\ MaxOrders \in Nat
                                 /\ MaxToggles \in Nat /\ Timeouts \in BOOLEAN

VARIABLES flags,          \* machine_flags of each machine
          pending,        \* how often each sequence of a machine is pushed and not yet taken
          runs,           \* the machines that run a cycle
          event,          \* execution task: the sequence taken and where it is with it
          message,        \* execute_imessage: at most one order, whose lock is held as
                          \* long as it is there
          orderAt,        \* message task: where it is with that order
          hub_isConnected,
          recovery_data,  \* a recovery report is wanted
          machine_need_recover,  \* ... about these machines
          monitorAt,      \* monitoring task: looking, at a machine it found, or found none
          triggers, orders, toggles,
          cut,            \* history: machines whose cycle was not left to the hub alone
          untold,         \* history: machines the hub acted for and has not reported since
          missed          \* history: a report was called off while another was asked for

recovery == <<recovery_data, machine_need_recover>>
bounds == <<triggers, orders, toggles>>
vars == <<flags, pending, runs, event, message, orderAt, hub_isConnected, recovery, monitorAt,
          bounds, cut, untold, missed>>

Actions == {"cycle", "deny", "allow"}   \* "cycle" has the status running, the others success
Events == {"trigger", "success"}        \* both have the name of the action, "cycle"
Sequences == Actions \cup Events

Flags == [is_idle : BOOLEAN, is_allowed : BOOLEAN,
          transaction_control : {"none", "hub", "txn"},
          current_action_name : {"none", "cycle"}]

Order(m, a) == [machine |-> m, action |-> a]
AtRest == [at |-> "rest"]
Handling(m, s, at) == [machine |-> m, sequence |-> s, at |-> at]
At(m, s, at) == event = Handling(m, s, at)

TypeOK ==
  /\ flags \in [Machines -> Flags]
  /\ pending \in [Machines -> [Sequences -> Nat]]
  /\ runs \subseteq Machines
  /\ \/ event = AtRest
     \/ event \in [machine : Machines, sequence : Sequences,
                    at : {"dispatch", "first", "second", "told", "recovery", "recover"}
                         \cup Actions]
  /\ message \subseteq [machine : Machines, action : Actions]
  /\ orderAt \in {"rest", "checked", "free", "kept", "push"}
  /\ hub_isConnected \in BOOLEAN /\ recovery_data \in BOOLEAN
  /\ machine_need_recover \subseteq Machines
  /\ monitorAt \in {"look", "none"} \cup Machines

-----------------------------------------------------------------------------
\* machine_single_prepare pushes the events, and the action the machine was left with.
machine_single_prepare(f) ==
  [s \in Sequences |-> IF s \in Events \/ s = (IF f.is_allowed THEN "allow" ELSE "deny")
                         THEN 1 ELSE 0]

FirstFlags == [is_idle |-> TRUE, is_allowed |-> TRUE, transaction_control |-> "none",
               current_action_name |-> "none"]

Init ==
  /\ flags = [m \in Machines |-> FirstFlags]
  /\ pending = [m \in Machines |-> machine_single_prepare(FirstFlags)]
  /\ runs = {} /\ event = AtRest
  /\ message = {} /\ orderAt = "rest"
  /\ hub_isConnected \in BOOLEAN
  /\ recovery_data = FALSE /\ machine_need_recover = {} /\ monitorAt = "look"
  /\ triggers = 0 /\ orders = 0 /\ toggles = 0
  /\ cut = {} /\ untold = {} /\ missed = FALSE

-----------------------------------------------------------------------------
\* What is done: an action some time, a trigger when a customer comes, a success when
\* the cycle the machine runs has ended.
Done(m, s) == /\ pending[m][s] > 0
              /\ s = "trigger" => triggers < MaxTriggers
              /\ s = "success" => m \in runs

\* execution_update takes a sequence that is done. An event is pushed again for the
\* next time; the push may find no lock.
pin_seq_next(m, s) ==
  /\ event = AtRest /\ Done(m, s)
  /\ event' = Handling(m, s, "dispatch")
  /\ \/ s \in Events /\ UNCHANGED pending
     \/ /\ s \in Actions \/ Timeouts
        /\ pending' = [pending EXCEPT ![m][s] = @ - 1]
  /\ triggers' = triggers + (IF s = "trigger" THEN 1 ELSE 0)
  /\ runs' = IF s = "cycle" THEN runs \cup {m} ELSE IF s = "success" THEN runs \ {m} ELSE runs
  /\ UNCHANGED <<flags, message, orderAt, hub_isConnected, recovery, monitorAt, orders,
                 toggles, cut, untold, missed>>

Counts_uncontrolled(f, s) ==          \* mutant: a trigger does not ask who has the control
  /\ s = "trigger" => f.is_allowed
  /\ s \in Actions => f.is_idle

\* machine_flags_dispatcher: a trigger counts at a machine that is allowed and under
\* nobody's control, an action at one that is idle, a success always.
Counts(f, s) == /\ s = "trigger" => f.is_allowed /\ f.transaction_control = "none"
                /\ s \in Actions => f.is_idle

\* The flags are looked at, and the sequence is ignored or goes on.
machine_flags_dispatcher(m, s) ==
  /\ At(m, s, "dispatch")
  /\ event' = IF Counts(flags[m], s) THEN Handling(m, s, "first") ELSE AtRest
  /\ UNCHANGED <<flags, pending, runs, message, orderAt, hub_isConnected, recovery, monitorAt,
                 bounds, cut, untold, missed>>

\* machine_control_task_dispatcher: the first flag a sequence changes, and the second.
First(f, s) == CASE s = "trigger" -> [f EXCEPT !.transaction_control = "hub"]
                 [] s = "deny" -> [f EXCEPT !.is_allowed = FALSE]
                 [] s = "cycle" -> [f EXCEPT !.is_idle = FALSE]
                 [] s = "success" -> [f EXCEPT !.is_idle = TRUE]
                 [] s = "allow" -> [f EXCEPT !.is_allowed = TRUE]

Second_kept(f, s) ==                  \* mutant: the control is not given back
  CASE s = "trigger" -> [f EXCEPT !.current_action_name = "cycle"]
    [] s = "allow" -> [f EXCEPT !.current_action_name = "none"]
    [] OTHER -> f

Second(f, s) == CASE s = "trigger" -> [f EXCEPT !.current_action_name = "cycle"]
                  [] s = "success" -> [f EXCEPT !.transaction_control = "none"]
                  [] s = "allow" -> [f EXCEPT !.current_action_name = "none"]
                  [] OTHER -> f

UnderWay(m) == flags[m].transaction_control = "hub" \/ ~flags[m].is_allowed

Ordered(m) == \E a \in Actions : Order(m, a) \in message

\* Nothing of an earlier cycle is left at machine m.
Clean(m) == /\ \A a \in Actions : pending[m][a] = 0
            /\ pending[m]["success"] = 1
            /\ m \notin runs
            /\ ~Ordered(m)

set_first(m, s) ==
  /\ At(m, s, "first")
  /\ flags' = [flags EXCEPT ![m] = First(@, s)]
  /\ event' = Handling(m, s, "second")
  /\ cut' = IF s # "trigger" \/ UnderWay(m) THEN cut
            ELSE IF Clean(m) THEN cut \ {m} ELSE cut \cup {m}
  /\ UNCHANGED <<pending, runs, message, orderAt, hub_isConnected, recovery, monitorAt,
                 bounds, untold, missed>>

set_second(m, s) ==
  /\ At(m, s, "second")
  /\ flags' = [flags EXCEPT ![m] = Second(@, s)]
  /\ event' = Handling(m, s, "told")
  /\ UNCHANGED <<pending, runs, message, orderAt, hub_isConnected, recovery, monitorAt,
                 bounds, cut, untold, missed>>

\* execution_loopback_offline: the order that follows a sequence, as a set of at most one.
NextOrder(f, s) == CASE s = "trigger" -> {"deny"}
                     [] s = "deny" -> {f.current_action_name} \ {"none"}
                     [] s = "success" -> {a \in {"allow"} : f.current_action_name = "cycle"}
                     [] OTHER -> {}

\* Online the result is queued for the cloud (module ResultQueue), offline the hub
\* goes on to order what follows.
execution_update_tells(m, s) ==
  /\ At(m, s, "told")
  /\ \/ /\ hub_isConnected \/ NextOrder(flags[m], s) = {}
        /\ event' = AtRest
        /\ cut' = IF hub_isConnected THEN cut \cup {m} ELSE cut
        /\ UNCHANGED untold
     \/ /\ ~hub_isConnected
        /\ \E a \in NextOrder(flags[m], s) : event' = Handling(m, s, a)
        /\ untold' = untold \cup {m}
        /\ UNCHANGED cut
  /\ UNCHANGED <<flags, pending, runs, message, orderAt, hub_isConnected, recovery, monitorAt,
                 bounds, missed>>

\* msg_fmt_loopback_execution waits for the place; the order is dropped when that takes
\* too long, and nobody is told.
msg_fmt_loopback_execution(m, s, a) ==
  /\ At(m, s, a)
  /\ \/ message = {} /\ message' = {Order(m, a)} /\ UNCHANGED cut
     \/ message # {} /\ Timeouts /\ cut' = cut \cup {m} /\ UNCHANGED message
  /\ event' = Handling(m, s, "recovery")
  /\ UNCHANGED <<flags, pending, runs, orderAt, hub_isConnected, recovery, monitorAt, bounds,
                 untold, missed>>

set_recovery_data_late(m, s) ==       \* mutant: the trigger does not ask for a report
  /\ At(m, s, "recovery")
  /\ recovery_data' = (recovery_data \/ s # "trigger")
  /\ event' = Handling(m, s, "recover")
  /\ UNCHANGED <<flags, pending, runs, message, orderAt, hub_isConnected,
                 machine_need_recover, monitorAt, bounds, cut, untold, missed>>

set_recovery_data(m, s) ==
  /\ At(m, s, "recovery")
  /\ recovery_data' = TRUE
  /\ event' = Handling(m, s, "recover")
  /\ UNCHANGED <<flags, pending, runs, message, orderAt, hub_isConnected,
                 machine_need_recover, monitorAt, bounds, cut, untold, missed>>

machine_need_recover_set(m, s) ==
  /\ At(m, s, "recover")
  /\ machine_need_recover' = machine_need_recover \cup {m}
  /\ event' = AtRest
  /\ UNCHANGED <<flags, pending, runs, message, orderAt, hub_isConnected, recovery_data,
                 monitorAt, bounds, cut, untold, missed>>

execution_step(m, s) == \/ machine_flags_dispatcher(m, s)
                        \/ set_first(m, s) \/ set_second(m, s)
                        \/ execution_update_tells(m, s)
                        \/ \E a \in Actions : msg_fmt_loopback_execution(m, s, a)
                        \/ set_recovery_data(m, s) \/ machine_need_recover_set(m, s)

-----------------------------------------------------------------------------
\* msg_fmt_raw_cb: an order from the cloud takes the place when it is free. (When it is
\* not, the order is skipped: a stuttering step.)
msg_fmt_raw_cb(m, a) ==
  /\ hub_isConnected /\ message = {} /\ orders < MaxOrders
  /\ message' = {Order(m, a)}
  /\ orders' = orders + 1
  /\ cut' = cut \cup {m}
  /\ UNCHANGED <<flags, pending, runs, event, orderAt, hub_isConnected, recovery, monitorAt,
                 triggers, toggles, untold, missed>>

\* execution_perform_cb: an order for a machine that runs is refused, the place freed.
\* Only an action with the status running changes the flags before it is pushed.
execution_perform(o) ==
  /\ orderAt = "rest" /\ o \in message
  /\ \/ /\ flags[o.machine].is_idle
        /\ orderAt' = IF o.action = "cycle" THEN "checked" ELSE "push"
        /\ UNCHANGED message
     \/ /\ ~flags[o.machine].is_idle
        /\ message' = {}
        /\ UNCHANGED orderAt
  /\ UNCHANGED <<flags, pending, runs, event, hub_isConnected, recovery, monitorAt, bounds,
                 cut, untold, missed>>

\* update_machine_flags reads who has the control,
check_control(o) ==
  /\ orderAt = "checked" /\ o \in message
  /\ orderAt' = IF flags[o.machine].transaction_control = "none" THEN "free" ELSE "kept"
  /\ UNCHANGED <<flags, pending, runs, event, message, hub_isConnected, recovery, monitorAt,
                 bounds, cut, untold, missed>>

\* ... takes it for the transaction if nobody had it,
take_control(o) ==
  /\ orderAt = "free" /\ o \in message
  /\ flags' = [flags EXCEPT ![o.machine].transaction_control = "txn"]
  /\ orderAt' = "kept"
  /\ UNCHANGED <<pending, runs, event, message, hub_isConnected, recovery, monitorAt,
                 bounds, cut, untold, missed>>

\* ... and notes the action.
set_action(o) ==
  /\ orderAt = "kept" /\ o \in message
  /\ flags' = [flags EXCEPT ![o.machine].current_action_name = "cycle"]
  /\ orderAt' = "push"
  /\ UNCHANGED <<pending, runs, event, message, hub_isConnected, recovery, monitorAt,
                 bounds, cut, untold, missed>>

\* The sequence is pushed, and msg_fmt_i_update empties the place. A push that does not
\* get the lock is not noticed.
pin_seq_push(o) ==
  /\ orderAt = "push" /\ o \in message
  /\ \/ pending' = [pending EXCEPT ![o.machine][o.action] = @ + 1] /\ UNCHANGED cut
     \/ Timeouts /\ cut' = cut \cup {o.machine} /\ UNCHANGED pending
  /\ message' = {} /\ orderAt' = "rest"
  /\ UNCHANGED <<flags, runs, event, hub_isConnected, recovery, monitorAt, bounds, untold,
                 missed>>

message_step(o) == execution_perform(o) \/ check_control(o) \/ take_control(o)
                   \/ set_action(o) \/ pin_seq_push(o)

-----------------------------------------------------------------------------
\* The connection comes or goes.
toggle ==
  /\ toggles < MaxToggles
  /\ toggles' = toggles + 1
  /\ hub_isConnected' = ~hub_isConnected
  /\ UNCHANGED <<flags, pending, runs, event, message, orderAt, recovery, monitorAt,
                 triggers, orders, cut, untold, missed>>

\* unlog_machine, for assemble_recovery_msg: the flags of a machine go into the report,
assemble_log(m) ==
  /\ monitorAt = "look" /\ hub_isConnected /\ recovery_data
  /\ m \in machine_need_recover
  /\ monitorAt' = m
  /\ untold' = untold \ {m}
  /\ UNCHANGED <<flags, pending, runs, event, message, orderAt, hub_isConnected, recovery,
                 bounds, cut, missed>>

\* ... then its request is cleared, without the lock.
clear_need_recover(m) ==
  /\ monitorAt = m
  /\ machine_need_recover' = machine_need_recover \ {m}
  /\ monitorAt' = "look"
  /\ missed' = (missed \/ m \in untold)
  /\ UNCHANGED <<flags, pending, runs, event, message, orderAt, hub_isConnected,
                 recovery_data, bounds, cut, untold>>

unlog_none ==
  /\ monitorAt = "look" /\ hub_isConnected /\ recovery_data
  /\ machine_need_recover = {}
  /\ monitorAt' = "none"
  /\ UNCHANGED <<flags, pending, runs, event, message, orderAt, hub_isConnected, recovery,
                 bounds, cut, untold, missed>>

\* When no machine is left the report is called off.
clear_recovery_data ==
  /\ monitorAt = "none"
  /\ recovery_data' = FALSE
  /\ monitorAt' = "look"
  /\ missed' = (missed \/ machine_need_recover # {} \/ event.at = "recover")
  /\ UNCHANGED <<flags, pending, runs, event, message, orderAt, hub_isConnected,
                 machine_need_recover, bounds, cut, untold>>

monitoring_step == \/ \E m \in Machines : assemble_log(m) \/ clear_need_recover(m)
                   \/ unlog_none \/ clear_recovery_data

Next == \/ \E m \in Machines, s \in Sequences : pin_seq_next(m, s) \/ execution_step(m, s)
        \/ \E m \in Machines, a \in Actions : msg_fmt_raw_cb(m, a)
        \/ \E o \in message : message_step(o)
        \/ toggle
        \/ monitoring_step

Spec == Init /\ [][Next]_vars

\* The tasks are periodic. Actions get done and a cycle ends; a customer need not come.
FairSpec ==
  /\ Spec
  /\ WF_vars(\E m \in Machines, s \in Sequences \ {"trigger"} : pin_seq_next(m, s))
  /\ WF_vars(\E m \in Machines, s \in Sequences : execution_step(m, s))
  /\ WF_vars(\E o \in message : message_step(o))
  /\ WF_vars(monitoring_step)

-----------------------------------------------------------------------------
\* The sequences, or the orders, in which the cycle of machine m goes on.
Held(m) == \/ \E at \in {"second", "told", "deny"} : At(m, "trigger", at)
           \/ \E at \in {"dispatch", "first", "second", "told", "cycle"} : At(m, "deny", at)
           \/ \E at \in {"dispatch", "first", "second", "told", "allow"} : At(m, "success", at)
           \/ \E at \in {"dispatch", "first"} : At(m, "allow", at)
Hands(m) == (IF Held(m) THEN 1 ELSE 0) + (IF Ordered(m) THEN 1 ELSE 0)
            + (IF m \in runs THEN 1 ELSE 0)
            + pending[m]["deny"] + pending[m]["cycle"] + pending[m]["allow"]

\* A cycle the hub carries through alone is in exactly one hand at any time: it is not
\* forgotten, and no order is given twice.
OneHand == \A m \in Machines \ cut : UnderWay(m) => Hands(m) = 1

\* ... and it comes to its end: the machine is free and allowed again.
Served == \A m \in Machines :
            (UnderWay(m) /\ m \notin cut) ~> (~UnderWay(m) \/ m \in cut)

\* A machine the hub has acted for is reported, the connection being back, unless a
\* report was called off at the wrong moment.
Told == \A m \in Machines :
          (m \in untold /\ hub_isConnected)
             ~> (m \notin untold \/ ~hub_isConnected \/ missed)

\* The control a trigger has taken stays with the hub until the cycle has ended. Not
\* kept: an order that found nobody in control takes it after the trigger has.
TriggerKept == [][\A m \in Machines : flags[m].transaction_control = "hub"
                    => flags'[m].transaction_control # "txn"]_vars

=============================================================================
