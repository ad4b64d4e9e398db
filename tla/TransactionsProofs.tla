------------------------- MODULE TransactionsProofs -------------------------
(***************************************************************************)
(* Proofs about the customers' cycles, for any machines and any number of  *)
(* triggers, orders, changes of the connection and lost locks: the model   *)
(* is of the right type, and a cycle that is left to the hub alone is in   *)
(* exactly one hand at any time.                                           *)
(***************************************************************************)
EXTENDS Transactions, TLAPS

\* The place for an order holds one, and the message task is at rest when it is
\* empty. Only an order to begin the cycle has its control checked, and nobody
\* takes the control of a machine whose cycle is left to the hub.
OneOrder ==
  /\ \A o, p \in message : o = p
  /\ message = {} => orderAt = "rest"
  /\ \A o \in message : orderAt \in {"checked", "free", "kept"} => o.action = "cycle"
  /\ \A o \in message : orderAt = "free" => o.machine \in cut

\* What the execution task is about to order follows from what it handles.
Following(s, a) == <<s, a>> \in {<<"trigger", "deny">>, <<"deny", "cycle">>,
                                    <<"success", "allow">>}
EventSteps ==
  \A m \in Machines :
    /\ At(m, "trigger", "first") => ~UnderWay(m)
    /\ \A s \in Sequences, a \in Actions : At(m, s, a) => Following(s, a)

\* A machine is idle when it runs no cycle, but while the execution task is about
\* to note that one has begun or ended.
Noting(m, s) == At(m, s, "dispatch") \/ At(m, s, "first")
IdleLaw ==
  \A m \in Machines :
    /\ Noting(m, "cycle") => m \in runs
    /\ Noting(m, "success") => m \notin runs
    /\ ~Noting(m, "cycle") /\ ~Noting(m, "success") => flags[m].is_idle = (m \notin runs)

\* The hands in which a cycle can be: triggered; on its way to deny, to the cycle
\* itself, and to allow; and the flags of the machine in each.
Waiting(m, a) == Order(m, a) \in message \/ pending[m][a] > 0 \/ Noting(m, a)
Triggered(m) == At(m, "trigger", "second")
Denying(m) == At(m, "trigger", "told") \/ At(m, "trigger", "deny") \/ Waiting(m, "deny")
Running(m) == \/ At(m, "deny", "second") \/ At(m, "deny", "told") \/ At(m, "deny", "cycle")
              \/ Order(m, "cycle") \in message \/ pending[m]["cycle"] > 0 \/ m \in runs
              \/ Noting(m, "success") \/ At(m, "success", "second")
Allowing(m) == At(m, "success", "told") \/ At(m, "success", "allow") \/ Waiting(m, "allow")

Flagged(m) ==
  /\ Triggered(m) => flags[m].transaction_control = "hub" /\ flags[m].is_allowed
  /\ Denying(m) => /\ flags[m].transaction_control = "hub" /\ flags[m].is_allowed
                   /\ flags[m].current_action_name = "cycle"
  /\ Running(m) => /\ flags[m].transaction_control = "hub" /\ ~flags[m].is_allowed
                   /\ flags[m].current_action_name = "cycle"
  /\ Allowing(m) => /\ flags[m].transaction_control = "none" /\ ~flags[m].is_allowed
                    /\ flags[m].current_action_name = "cycle"

\* When no cycle is under way only an order to allow may still be carried out.
NoHand(m) == ~Triggered(m) /\ ~Denying(m) /\ ~Running(m)
             /\ ~At(m, "success", "told") /\ ~At(m, "success", "allow") /\ ~Ordered(m)

InHand(m) == IF UnderWay(m) THEN Hands(m) = 1 /\ Flagged(m) /\ ~At(m, "allow", "second")
                            ELSE NoHand(m)

Law == \A m \in Machines : m \in cut \/ InHand(m)

IInv == TypeOK /\ OneOrder /\ EventSteps /\ IdleLaw /\ Law

-----------------------------------------------------------------------------
(* Type correctness. *)

Handlings == [machine : Machines, sequence : Sequences,
              at : {"dispatch", "first", "second", "told", "recovery", "recover"} \cup Actions]

\* The first state is of the right type.
LEMMA InitTyped == Init => TypeOK
<1> SUFFICES ASSUME Init
             PROVE  TypeOK
  OBVIOUS
<1>1. FirstFlags \in Flags
  BY DEF FirstFlags, Flags
<1>2. machine_single_prepare(FirstFlags) \in [Sequences -> Nat]
  BY DEF machine_single_prepare
<1> QED
  BY <1>1, <1>2 DEF Init, TypeOK

\* What the execution task handles keeps its type.
LEMMA HandlingTyped ==
  ASSUME NEW m \in Machines, NEW s \in Sequences,
         NEW at \in {"dispatch", "first", "second", "told", "recovery", "recover"} \cup Actions
  PROVE  Handling(m, s, at) \in Handlings
  BY DEF Handling, Handlings

\* The flags a sequence leaves are flags.
LEMMA FlagsTyped ==
  ASSUME NEW f \in Flags, NEW s \in Sequences
  PROVE  /\ First(f, s) \in Flags /\ Second(f, s) \in Flags
         /\ [f EXCEPT !.transaction_control = "txn"] \in Flags
         /\ [f EXCEPT !.current_action_name = "cycle"] \in Flags
<1>1. /\ [f EXCEPT !.transaction_control = "hub"] \in Flags
      /\ [f EXCEPT !.transaction_control = "none"] \in Flags
      /\ [f EXCEPT !.transaction_control = "txn"] \in Flags
      /\ [f EXCEPT !.current_action_name = "cycle"] \in Flags
      /\ [f EXCEPT !.current_action_name = "none"] \in Flags
  BY DEF Flags
<1>2. \A b \in BOOLEAN : [f EXCEPT !.is_idle = b] \in Flags /\ [f EXCEPT !.is_allowed = b] \in Flags
  BY DEF Flags
<1>3. First(f, s) \in Flags
  BY <1>1, <1>2 DEF First, Sequences, Actions, Events
<1>4. Second(f, s) \in Flags
  BY <1>1 DEF Second
<1> QED
  BY <1>1, <1>3, <1>4

\* A step of the execution task keeps the type.
LEMMA ExecutionTyped ==
  ASSUME TypeOK, NEW m \in Machines, NEW s \in Sequences,
         pin_seq_next(m, s) \/ execution_step(m, s)
  PROVE  TypeOK'
<1> USE DEF TypeOK
<1>1. CASE pin_seq_next(m, s)
  <2>1. pending' \in [Machines -> [Sequences -> Nat]]
    <3>1. pending[m] \in [Sequences -> Nat] /\ pending[m][s] > 0
      BY <1>1 DEF pin_seq_next, Done
    <3>2. pending[m][s] - 1 \in Nat
      BY <3>1
    <3>3. [pending[m] EXCEPT ![s] = pending[m][s] - 1] \in [Sequences -> Nat]
      BY <3>1, <3>2
    <3>4. [pending EXCEPT ![m][s] = @ - 1] \in [Machines -> [Sequences -> Nat]]
      BY <3>3
    <3> QED
      BY <1>1, <3>4 DEF pin_seq_next
  <2>2. event' \in Handlings
    BY <1>1, HandlingTyped DEF pin_seq_next
  <2>3. runs' \subseteq Machines
    BY <1>1 DEF pin_seq_next
  <2> QED
    BY <1>1, <2>1, <2>2, <2>3 DEF pin_seq_next, recovery, Handlings
<1>2. CASE machine_flags_dispatcher(m, s)
  <2>1. event' = AtRest \/ event' \in Handlings
    BY <1>2, HandlingTyped DEF machine_flags_dispatcher
  <2> QED
    BY <1>2, <2>1 DEF machine_flags_dispatcher, recovery, Handlings
<1>3. CASE set_first(m, s)
  <2>1. event' \in Handlings
    BY <1>3, HandlingTyped DEF set_first
  <2>2. flags' \in [Machines -> Flags]
    BY <1>3, FlagsTyped DEF set_first
  <2> QED
    BY <1>3, <2>1, <2>2 DEF set_first, recovery, Handlings
<1>4. CASE set_second(m, s)
  <2>1. event' \in Handlings
    BY <1>4, HandlingTyped DEF set_second
  <2>2. flags' \in [Machines -> Flags]
    BY <1>4, FlagsTyped DEF set_second
  <2> QED
    BY <1>4, <2>1, <2>2 DEF set_second, recovery, Handlings
<1>5. CASE execution_update_tells(m, s)
  <2>1. NextOrder(flags[m], s) \subseteq Actions
    BY DEF NextOrder, Flags, Actions
  <2>2. event' = AtRest \/ \E a \in Actions : event' = Handling(m, s, a)
    BY <1>5, <2>1 DEF execution_update_tells
  <2>3. \A a \in Actions : Handling(m, s, a) \in Handlings
    BY HandlingTyped
  <2> QED
    BY <1>5, <2>2, <2>3 DEF execution_update_tells, recovery, Handlings
<1>6. CASE \E a \in Actions : msg_fmt_loopback_execution(m, s, a)
  <2>1. event' \in Handlings
    BY <1>6, HandlingTyped DEF msg_fmt_loopback_execution
  <2>2. message' \subseteq [machine : Machines, action : Actions]
    BY <1>6 DEF msg_fmt_loopback_execution, Order
  <2> QED
    BY <1>6, <2>1, <2>2 DEF msg_fmt_loopback_execution, recovery, Handlings
<1>7. CASE set_recovery_data(m, s)
  <2>1. event' \in Handlings
    BY <1>7, HandlingTyped DEF set_recovery_data
  <2> QED
    BY <1>7, <2>1 DEF set_recovery_data, Handlings
<1>8. CASE machine_need_recover_set(m, s)
  BY <1>8 DEF machine_need_recover_set
<1> QED
  BY <1>1, <1>2, <1>3, <1>4, <1>5, <1>6, <1>7, <1>8 DEF execution_step

\* So does a step of any other task.
LEMMA OthersTyped ==
  ASSUME TypeOK,
         \/ \E m \in Machines, a \in Actions : msg_fmt_raw_cb(m, a)
         \/ \E o \in message : message_step(o)
         \/ toggle \/ monitoring_step
  PROVE  TypeOK'
<1> USE DEF TypeOK
<1>1. CASE \E m \in Machines, a \in Actions : msg_fmt_raw_cb(m, a)
  BY <1>1 DEF msg_fmt_raw_cb, Order, recovery
<1>2. ASSUME NEW o \in message, execution_perform(o)
      PROVE  TypeOK'
  BY <1>2 DEF execution_perform, recovery
<1>3. ASSUME NEW o \in message, check_control(o)
      PROVE  TypeOK'
  BY <1>3 DEF check_control, recovery
<1>4. ASSUME NEW o \in message, take_control(o)
      PROVE  TypeOK'
  <2>1. flags' \in [Machines -> Flags]
    BY <1>4, FlagsTyped DEF take_control, Sequences, Actions
  <2> QED
    BY <1>4, <2>1 DEF take_control, recovery
<1>5. ASSUME NEW o \in message, set_action(o)
      PROVE  TypeOK'
  <2>1. flags' \in [Machines -> Flags]
    BY <1>5, FlagsTyped DEF set_action, Sequences, Actions
  <2> QED
    BY <1>5, <2>1 DEF set_action, recovery
<1>6. ASSUME NEW o \in message, pin_seq_push(o)
      PROVE  TypeOK'
  <2>1. o.machine \in Machines /\ o.action \in Sequences
    BY DEF Sequences
  <2>2. [pending[o.machine] EXCEPT ![o.action] = pending[o.machine][o.action] + 1]
          \in [Sequences -> Nat]
    BY <2>1
  <2>3. pending' \in [Machines -> [Sequences -> Nat]]
    BY <1>6, <2>1, <2>2 DEF pin_seq_push
  <2> QED
    BY <1>6, <2>3 DEF pin_seq_push, recovery
<1>7. CASE toggle
  BY <1>7 DEF toggle, recovery
<1>8. CASE monitoring_step
  BY <1>8 DEF monitoring_step, assemble_log, clear_need_recover, unlog_none,
              clear_recovery_data, recovery
<1> QED
  BY <1>1, <1>2, <1>3, <1>4, <1>5, <1>6, <1>7, <1>8 DEF message_step

\* And so does every step.
LEMMA StepTyped == TypeOK /\ [Next]_vars => TypeOK'
<1>1. ASSUME TypeOK, UNCHANGED vars
      PROVE  TypeOK'
  BY <1>1 DEF TypeOK, vars, recovery
<1> QED
  BY <1>1, ExecutionTyped, OthersTyped DEF Next

\* Every variable of a customer's cycle keeps its type (the flags of src/machines.c, the place
\* for an order of src/msg_fmt.c).
THEOREM TypeCorrect == Spec => []TypeOK
  BY InitTyped, StepTyped, PTL DEF Spec

-----------------------------------------------------------------------------
(* A cycle is in one hand. *)

\* The execution task handles one sequence of one machine, and is at one place with it.
LEMMA HandlingOne ==
  /\ \A m, s, at, n, r, now :
        Handling(m, s, at) = Handling(n, r, now) <=> m = n /\ s = r /\ at = now
  /\ \A m, s, at : Handling(m, s, at) # AtRest
<1>1. ASSUME NEW m, NEW s, NEW at, NEW n, NEW r, NEW now,
             Handling(m, s, at) = Handling(n, r, now)
      PROVE  m = n /\ s = r /\ at = now
  <2>1. /\ Handling(m, s, at).machine = m /\ Handling(n, r, now).machine = n
        /\ Handling(m, s, at).sequence = s /\ Handling(n, r, now).sequence = r
        /\ Handling(m, s, at).at = at /\ Handling(n, r, now).at = now
    BY DEF Handling
  <2> QED
    BY <1>1, <2>1
<1>2. ASSUME NEW m, NEW s, NEW at
      PROVE  Handling(m, s, at) # AtRest
  <2>1. "machine" \in DOMAIN Handling(m, s, at) /\ "machine" \notin DOMAIN AtRest
    BY DEF Handling, AtRest
  <2> QED
    BY <2>1
<1> QED
  BY <1>1, <1>2

\* An order is for one machine and one action.
LEMMA OrderOne == \A m, a, n, b : Order(m, a) = Order(n, b) <=> m = n /\ a = b
<1>1. \A m, a : Order(m, a).machine = m /\ Order(m, a).action = a
  BY DEF Order
<1> QED
  BY <1>1

\* What a step leaves alone at machine n keeps the cycle in its hand.
LEMMA Frame ==
  ASSUME NEW n, flags'[n] = flags[n], pending'[n] = pending[n], n \in runs' <=> n \in runs,
         \A a \in Actions : Order(n, a) \in message' <=> Order(n, a) \in message,
         \A s, at : event' = Handling(n, s, at) <=> event = Handling(n, s, at)
  PROVE  InHand(n)' <=> InHand(n)
  BY DEF InHand, UnderWay, Hands, Held, Ordered, Flagged, NoHand, Triggered, Denying, Running,
         Allowing, Waiting, Noting, At, Actions

\* A step of the execution task with machine m does not touch another machine.
LEMMA OtherMachine ==
  ASSUME TypeOK, NEW m \in Machines, NEW s \in Sequences, NEW n \in Machines, n # m,
         pin_seq_next(m, s) \/ execution_step(m, s)
  PROVE  (n \in cut' <=> n \in cut) /\ (InHand(n)' <=> InHand(n))
<1>1. /\ flags'[n] = flags[n] /\ pending'[n] = pending[n]
      /\ n \in runs' <=> n \in runs
      /\ n \in cut' <=> n \in cut
  BY DEF TypeOK, pin_seq_next, execution_step, machine_flags_dispatcher, set_first, set_second,
         execution_update_tells, msg_fmt_loopback_execution, set_recovery_data,
         machine_need_recover_set
<1>2. \A a \in Actions : Order(n, a) \in message' <=> Order(n, a) \in message
  BY OrderOne
  DEF pin_seq_next, execution_step, machine_flags_dispatcher, set_first, set_second,
      execution_update_tells, msg_fmt_loopback_execution, set_recovery_data,
      machine_need_recover_set
<1>3. event = AtRest \/ \E at : event = Handling(m, s, at)
  BY DEF At, Actions, pin_seq_next, execution_step, machine_flags_dispatcher, set_first,
         set_second, execution_update_tells, msg_fmt_loopback_execution, set_recovery_data,
         machine_need_recover_set
<1>4. event' = AtRest \/ \E at : event' = Handling(m, s, at)
  BY DEF pin_seq_next, execution_step, machine_flags_dispatcher, set_first, set_second,
         execution_update_tells, msg_fmt_loopback_execution, set_recovery_data,
         machine_need_recover_set
<1>5. \A r, at : event # Handling(n, r, at) /\ event' # Handling(n, r, at)
  BY <1>3, <1>4, HandlingOne
<1> QED
  BY <1>1, <1>2, <1>5, Frame

\* Facts of the invariant about one machine.
LEMMA OfMachine ==
  ASSUME IInv, NEW m \in Machines
  PROVE  /\ flags[m] \in Flags
         /\ \A s \in Sequences : pending[m][s] \in Nat
         /\ m \in cut \/ InHand(m)
  BY DEF IInv, TypeOK, Law

\* A hand may pass the cycle on to the next as long as the flags allow that next hand.
LEMMA PassedOn ==
  ASSUME NEW m, InHand(m),
         /\ flags'[m].transaction_control = flags[m].transaction_control
         /\ flags'[m].is_allowed = flags[m].is_allowed
         /\ flags'[m].current_action_name = flags[m].current_action_name,
         UnderWay(m) => Hands(m)' = Hands(m),
         Triggered(m)' => Triggered(m), Denying(m)' => Denying(m),
         Running(m)' => Running(m), Allowing(m)' => Allowing(m),
         Ordered(m)' => Ordered(m) \/ UnderWay(m),
         /\ At(m, "success", "told")' => At(m, "success", "told")
         /\ At(m, "success", "allow")' => At(m, "success", "allow") \/ UnderWay(m)
         /\ At(m, "allow", "second")' => At(m, "allow", "second")
  PROVE  InHand(m)'
<1>1. UnderWay(m)' <=> UnderWay(m)
  BY DEF UnderWay
<1>2. CASE UnderWay(m)
  <2>1. Flagged(m)'
    BY <1>2 DEF InHand, Flagged
  <2> QED
    BY <1>1, <1>2, <2>1 DEF InHand
<1>3. CASE ~UnderWay(m)
  BY <1>1, <1>3 DEF InHand, NoHand
<1> QED
  BY <1>2, <1>3

\* What the execution task holds is in no other hand.
LEMMA HeldAlone ==
  ASSUME IInv, NEW m \in Machines, Hands(m) = 1, Held(m)
  PROVE  /\ ~Ordered(m) /\ m \notin runs
         /\ \A a \in Actions : pending[m][a] = 0 /\ Order(m, a) \notin message
<1>1. /\ pending[m]["deny"] \in Nat /\ pending[m]["cycle"] \in Nat
      /\ pending[m]["allow"] \in Nat
  BY OfMachine DEF Sequences, Actions
<1> QED
  BY <1>1 DEF Hands, Ordered, Actions

\* A sequence that is taken is in the hands of the execution task.
LEMMA NextInHand ==
  ASSUME IInv, NEW m \in Machines, NEW s \in Sequences, pin_seq_next(m, s), m \notin cut'
  PROVE  InHand(m)'
<1> USE DEF pin_seq_next, Done
<1>1. /\ event = AtRest /\ event' = Handling(m, s, "dispatch") /\ InHand(m)
      /\ flags' = flags /\ message' = message
  BY OfMachine
<1>2. /\ \A r, at : ~At(m, r, at)
      /\ \A r, at : At(m, r, at)' <=> r = s /\ at = "dispatch"
  BY <1>1, HandlingOne DEF At
<1>3. Ordered(m)' <=> Ordered(m)
  BY <1>1 DEF Ordered
<1>4. ~Held(m) /\ (Held(m)' <=> s \in {"deny", "success", "allow"})
  BY <1>2 DEF Held
<1>5. \A r \in Sequences : pending[m][r] \in Nat
  BY OfMachine
<1>6. CASE s \in Actions
  <2>1. pending'[m] = [pending[m] EXCEPT ![s] = pending[m][s] - 1]
    BY <1>6 DEF Events, Actions, IInv, TypeOK
  <2>2. /\ pending[m][s] > 0 /\ pending'[m][s] = pending[m][s] - 1
        /\ \A r \in Sequences : r # s => pending'[m][r] = pending[m][r]
    BY <2>1 DEF IInv, TypeOK
  <2>3. s = "cycle" => m \notin runs
    <3>1. s = "cycle" => Running(m)
      BY <2>2 DEF Running
    <3>2. Hands(m) = 1 /\ s = "cycle" => m \notin runs
      BY <1>4, <1>5, <2>2 DEF Hands, Sequences, Actions
    <3> QED
      BY <1>1, <3>1, <3>2 DEF InHand, NoHand
  <2>4. Hands(m)' = Hands(m)
    <3>1. CASE s = "cycle"
      BY <1>3, <1>4, <1>5, <2>2, <2>3, <3>1 DEF Hands, Sequences, Actions
    <3>2. CASE s = "deny"
      BY <1>3, <1>4, <1>5, <2>2, <3>2 DEF Hands, Sequences, Actions
    <3>3. CASE s = "allow"
      BY <1>3, <1>4, <1>5, <2>2, <3>3 DEF Hands, Sequences, Actions
    <3> QED
      BY <1>6, <3>1, <3>2, <3>3 DEF Actions
  <2>5. \A a \in Actions : Waiting(m, a)' => Waiting(m, a)
    BY <1>1, <1>2, <1>5, <2>2 DEF Waiting, Noting, Sequences
  <2>6. ~Triggered(m)' /\ (Denying(m)' => Denying(m)) /\ (Allowing(m)' => Allowing(m))
    BY <1>2, <1>6, <2>5 DEF Triggered, Denying, Allowing, Actions, Sequences
  <2>7. Running(m)' => Running(m)
    BY <1>1, <1>2, <1>5, <1>6, <2>2 DEF Running, Noting, Actions, Sequences
  <2> QED
    BY <1>1, <1>2, <1>3, <2>4, <2>6, <2>7, PassedOn
<1>7. CASE s \in Events
  <2>1. \A r \in Actions : pending'[m][r] = pending[m][r]
    BY <1>7 DEF Events, Actions, IInv, TypeOK, Sequences
  <2>2. Hands(m)' = Hands(m)
    BY <1>3, <1>4, <1>7, <2>1 DEF Hands, Events, Actions
  <2>3. ~Triggered(m)' /\ (Denying(m)' => Denying(m)) /\ (Allowing(m)' => Allowing(m))
    BY <1>1, <1>2, <1>7, <2>1 DEF Triggered, Denying, Allowing, Waiting, Noting, Actions, Events
  <2>4. Running(m)' => Running(m)
    BY <1>1, <1>2, <1>7, <2>1 DEF Running, Noting, Actions, Events
  <2> QED
    BY <1>1, <1>2, <1>3, <2>2, <2>3, <2>4, PassedOn
<1> QED
  BY <1>6, <1>7 DEF Sequences

\* While nothing but an order to allow it is left of a cycle, its machine is idle.
LEMMA IdleInHand ==
  ASSUME IInv, NEW m \in Machines, InHand(m),
         \/ At(m, "deny", "dispatch")
         \/ At(m, "allow", "dispatch") /\ UnderWay(m)
         \/ Ordered(m)
  PROVE  m \notin runs /\ flags[m].is_idle
<1>1. \A r \in Sequences : pending[m][r] \in Nat
  BY OfMachine
<1>2. At(m, "deny", "dispatch") => UnderWay(m)
  BY DEF InHand, NoHand, Denying, Waiting, Noting
<1>3. Ordered(m) => UnderWay(m)
  BY DEF InHand, NoHand
<1>4. Hands(m) = 1
  BY <1>2, <1>3 DEF InHand
<1>5. m \notin runs
  BY <1>1, <1>4 DEF Hands, Held, Sequences, Actions
<1>6. ~Noting(m, "cycle")
  BY <1>5 DEF IInv, IdleLaw
<1>7. ~Noting(m, "success")
  <2>1. Noting(m, "success") => Held(m)
    BY DEF Noting, Held
  <2>2. Held(m) => ~Ordered(m)
    BY <1>1, <1>4 DEF Hands, Sequences, Actions
  <2>3. Noting(m, "success") => ~At(m, "deny", "dispatch") /\ ~At(m, "allow", "dispatch")
    BY HandlingOne DEF Noting, At
  <2> QED
    BY <2>1, <2>2, <2>3
<1>8. flags[m].is_idle = (m \notin runs)
  BY <1>6, <1>7 DEF IInv, IdleLaw
<1> QED
  BY <1>5, <1>8

\* A sequence of a cycle that is left to the hub always counts: its machine is idle.
LEMMA DispatchedInHand ==
  ASSUME IInv, NEW m \in Machines, NEW s \in Sequences, machine_flags_dispatcher(m, s),
         m \notin cut'
  PROVE  InHand(m)'
<1> USE DEF machine_flags_dispatcher
<1>1. InHand(m)
  BY OfMachine
<1>2. \A r, at : At(m, r, at) <=> r = s /\ at = "dispatch"
  BY HandlingOne DEF At
<1>3. \A r, at : At(m, r, at)' <=> Counts(flags[m], s) /\ r = s /\ at = "first"
  BY HandlingOne DEF At
<1>4. UnderWay(m) /\ Held(m) => Counts(flags[m], s)
  <2>1. Held(m) => s \in {"deny", "success", "allow"}
    BY <1>2 DEF Held
  <2>2. s = "success" => Counts(flags[m], s)
    BY DEF Counts, Actions
  <2>3. UnderWay(m) /\ s \in {"deny", "allow"} => flags[m].is_idle
    BY <1>1, <1>2, IdleInHand
  <2>4. s \in {"deny", "allow"} /\ flags[m].is_idle => Counts(flags[m], s)
    BY DEF Counts
  <2> QED
    BY <2>1, <2>2, <2>3, <2>4
<1>5. UnderWay(m) => (Held(m)' <=> Held(m))
  BY <1>2, <1>3, <1>4 DEF Held
<1>6. UnderWay(m) => Hands(m)' = Hands(m)
  BY <1>5 DEF Hands, Ordered
<1>7. \A r : Noting(m, r)' => Noting(m, r)
  BY <1>2, <1>3 DEF Noting
<1>8. /\ ~Triggered(m)' /\ (Denying(m)' => Denying(m)) /\ (Running(m)' => Running(m))
      /\ (Allowing(m)' => Allowing(m)) /\ (Ordered(m)' => Ordered(m))
  BY <1>3, <1>7 DEF Triggered, Denying, Running, Allowing, Waiting, Ordered
<1> QED
  BY <1>1, <1>3, <1>6, <1>8, PassedOn

\* The first flag: a trigger that counts is the first hand of a cycle left to the hub, a
\* deny changes hands to the cycle itself, an allow ends it.
LEMMA FirstInHand ==
  ASSUME IInv, NEW m \in Machines, NEW s \in Sequences, set_first(m, s), m \notin cut'
  PROVE  InHand(m)'
<1> USE DEF set_first
<1>1. /\ \A r, at : At(m, r, at) <=> r = s /\ at = "first"
      /\ \A r, at : At(m, r, at)' <=> r = s /\ at = "second"
  BY HandlingOne DEF At
<1>2. \A r \in Sequences : pending[m][r] \in Nat
  BY OfMachine
<1>3. flags[m] \in Flags /\ flags'[m] = First(flags[m], s)
  BY DEF IInv, TypeOK
<1>4. s # "trigger" => InHand(m)
  BY OfMachine
<1>5. CASE s = "trigger"
  <2>1. ~UnderWay(m) /\ Clean(m)
    BY <1>1, <1>5 DEF IInv, EventSteps
  <2>2. /\ flags'[m].transaction_control = "hub"
        /\ flags'[m].is_allowed
    BY <1>3, <1>5, <2>1 DEF First, Flags, UnderWay
  <2>3. /\ \A a \in Actions : pending'[m][a] = 0
        /\ m \notin runs' /\ ~Ordered(m)'
    BY <2>1 DEF Clean, Ordered
  <2>4. Hands(m)' = 1
    BY <1>1, <1>5, <2>3 DEF Hands, Held, Actions
  <2>5. \A a \in Actions : ~Waiting(m, a)'
    BY <1>1, <2>3 DEF Waiting, Noting, Ordered
  <2>6. ~Denying(m)' /\ ~Running(m)' /\ ~Allowing(m)'
    BY <1>1, <1>5, <2>3, <2>5 DEF Denying, Running, Allowing, Waiting, Noting, Actions
  <2> QED
    BY <1>1, <1>5, <2>2, <2>4, <2>6 DEF InHand, UnderWay, Flagged
<1>6. CASE s = "deny"
  <2>1. Denying(m) /\ Held(m)
    BY <1>1, <1>6 DEF Denying, Waiting, Noting, Held
  <2>2. Hands(m) = 1 /\ Flagged(m)
    BY <1>4, <1>6, <2>1 DEF InHand, NoHand
  <2>3. /\ flags'[m].transaction_control = "hub" /\ ~flags'[m].is_allowed
        /\ flags'[m].current_action_name = "cycle"
    BY <1>3, <1>6, <2>1, <2>2 DEF First, Flags, Flagged
  <2>4. /\ ~Ordered(m) /\ m \notin runs
        /\ \A a \in Actions : pending[m][a] = 0 /\ Order(m, a) \notin message
    BY <2>1, <2>2, HeldAlone
  <2>5. Hands(m)' = 1
    BY <1>1, <1>6, <2>4 DEF Hands, Held, Ordered, Actions
  <2>6. ~Triggered(m)' /\ ~Denying(m)' /\ ~Allowing(m)'
    BY <1>1, <1>6, <2>4 DEF Triggered, Denying, Allowing, Waiting, Noting, Actions
  <2> QED
    BY <1>1, <1>6, <2>3, <2>5, <2>6 DEF InHand, UnderWay, Flagged
<1>7. CASE s = "allow"
  <2>1. ASSUME UnderWay(m)
        PROVE  /\ flags[m].transaction_control = "none"
               /\ ~Ordered(m) /\ m \notin runs
               /\ \A a \in Actions : pending[m][a] = 0 /\ Order(m, a) \notin message
    <3>1. Allowing(m) /\ Held(m)
      BY <1>1, <1>7 DEF Allowing, Waiting, Noting, Held
    <3> QED
      BY <1>4, <1>7, <2>1, <3>1, HeldAlone DEF InHand, Flagged
  <2>2. /\ flags'[m].is_allowed
        /\ flags'[m].transaction_control = flags[m].transaction_control
    BY <1>3, <1>7 DEF First, Flags
  <2>3. ~UnderWay(m)'
    BY <2>1, <2>2 DEF UnderWay
  <2>4. CASE UnderWay(m)
    BY <1>1, <1>7, <2>1, <2>3, <2>4
    DEF InHand, NoHand, Triggered, Denying, Running, Waiting, Noting, Ordered, Actions
  <2>5. CASE ~UnderWay(m)
    BY <1>1, <1>4, <1>7, <2>3, <2>5
    DEF InHand, NoHand, Triggered, Denying, Running, Waiting, Noting, Ordered
  <2> QED
    BY <2>4, <2>5
<1>8. CASE s \in {"cycle", "success"}
  <2>1. /\ flags'[m].transaction_control = flags[m].transaction_control
        /\ flags'[m].is_allowed = flags[m].is_allowed
        /\ flags'[m].current_action_name = flags[m].current_action_name
    <3>1. \E b \in BOOLEAN : flags'[m] = [flags[m] EXCEPT !.is_idle = b]
      BY <1>3, <1>8 DEF First
    <3> QED
      BY <1>3, <3>1 DEF Flags
  <2>2. Held(m)' <=> Held(m)
    BY <1>1, <1>8 DEF Held
  <2>3. Hands(m)' = Hands(m)
    BY <2>2 DEF Hands, Ordered
  <2>4. ~Triggered(m)' /\ (Denying(m)' => Denying(m)) /\ (Allowing(m)' => Allowing(m))
    BY <1>1, <1>8 DEF Triggered, Denying, Allowing, Waiting, Noting
  <2>5. Running(m)' => Running(m)
    BY <1>1, <1>8 DEF Running, Noting
  <2> QED
    BY <1>1, <1>4, <1>8, <2>1, <2>3, <2>4, <2>5, PassedOn DEF Ordered
<1> QED
  BY <1>5, <1>6, <1>7, <1>8 DEF Sequences, Actions, Events

\* The second flag: a trigger goes on to deny, a success gives the control back.
LEMMA SecondInHand ==
  ASSUME IInv, NEW m \in Machines, NEW s \in Sequences, set_second(m, s), m \notin cut'
  PROVE  InHand(m)'
<1> USE DEF set_second
<1>1. /\ \A r, at : At(m, r, at) <=> r = s /\ at = "second"
      /\ \A r, at : At(m, r, at)' <=> r = s /\ at = "told"
  BY HandlingOne DEF At
<1>2. \A r \in Sequences : pending[m][r] \in Nat
  BY OfMachine
<1>3. flags[m] \in Flags /\ flags'[m] = Second(flags[m], s)
  BY DEF IInv, TypeOK
<1>4. InHand(m)
  BY OfMachine
<1>5. s # "allow" => (Held(m)' <=> Held(m))
  BY <1>1 DEF Held
<1>6. CASE s \in {"trigger", "success"}
  <2>1. (s = "trigger" => Triggered(m)) /\ (s = "success" => Running(m)) /\ Held(m)
    BY <1>1, <1>6 DEF Triggered, Running, Held
  <2>2. Hands(m) = 1 /\ Flagged(m)
    BY <1>4, <1>6, <2>1 DEF InHand, NoHand
  <2>3. /\ ~Ordered(m) /\ m \notin runs
        /\ \A a \in Actions : pending[m][a] = 0 /\ Order(m, a) \notin message
    BY <2>1, <2>2, HeldAlone
  <2>4. Hands(m)' = 1
    BY <1>5, <1>6, <2>2 DEF Hands, Ordered
  <2>5. CASE s = "trigger"
    <3>1. /\ flags'[m].transaction_control = "hub" /\ flags'[m].is_allowed
          /\ flags'[m].current_action_name = "cycle"
      BY <1>3, <2>1, <2>2, <2>5 DEF Second, Flags, Flagged
    <3>2. ~Triggered(m)' /\ ~Running(m)' /\ ~Allowing(m)'
      BY <1>1, <2>3, <2>5 DEF Triggered, Running, Allowing, Waiting, Noting, Actions
    <3> QED
      BY <1>1, <2>4, <2>5, <3>1, <3>2 DEF InHand, UnderWay, Flagged
  <2>6. CASE s = "success"
    <3>1. /\ flags'[m].transaction_control = "none" /\ ~flags'[m].is_allowed
          /\ flags'[m].current_action_name = "cycle"
      BY <1>3, <2>1, <2>2, <2>6 DEF Second, Flags, Flagged
    <3>2. ~Triggered(m)' /\ ~Denying(m)' /\ ~Running(m)'
      BY <1>1, <2>3, <2>6 DEF Triggered, Denying, Running, Waiting, Noting, Actions
    <3> QED
      BY <1>1, <2>4, <2>6, <3>1, <3>2 DEF InHand, UnderWay, Flagged
  <2> QED
    BY <1>6, <2>5, <2>6
<1>7. CASE s = "allow"
  <2>1. ~UnderWay(m)
    BY <1>1, <1>4, <1>7 DEF InHand
  <2>2. ~UnderWay(m)'
    BY <1>3, <1>7, <2>1 DEF UnderWay, Second, Flags
  <2> QED
    BY <1>1, <1>4, <1>7, <2>1, <2>2
    DEF InHand, NoHand, Triggered, Denying, Running, Waiting, Noting, Ordered
<1>8. CASE s \in {"cycle", "deny"}
  <2>1. flags'[m] = flags[m]
    BY <1>3, <1>8 DEF Second
  <2>2. Hands(m)' = Hands(m)
    BY <1>5, <1>8 DEF Hands, Ordered
  <2>3. /\ ~Triggered(m)' /\ (Denying(m)' => Denying(m)) /\ (Running(m)' => Running(m))
        /\ (Allowing(m)' => Allowing(m))
    BY <1>1, <1>8 DEF Triggered, Denying, Running, Allowing, Waiting, Noting
  <2> QED
    BY <1>1, <1>4, <1>8, <2>1, <2>2, <2>3, PassedOn DEF Ordered
<1> QED
  BY <1>6, <1>7, <1>8 DEF Sequences, Actions, Events

\* The order that execution_loopback_offline gives follows from the sequence.
LEMMA NextFollows ==
  ASSUME NEW f \in Flags, NEW s, NEW a \in NextOrder(f, s)
  PROVE  Following(s, a)
<1>1. s \in {"trigger", "deny", "success"}
  BY DEF NextOrder
<1>2. s = "trigger" => a = "deny"
  BY DEF NextOrder
<1>3. s = "deny" => a = "cycle"
  BY DEF NextOrder, Flags
<1>4. s = "success" => a = "allow"
  BY DEF NextOrder
<1> QED
  BY <1>1, <1>2, <1>3, <1>4 DEF Following

\* Offline what the hub holds is followed by its next order.
LEMMA ToldInHand ==
  ASSUME IInv, NEW m \in Machines, NEW s \in Sequences, execution_update_tells(m, s),
         m \notin cut'
  PROVE  InHand(m)'
<1> USE DEF execution_update_tells
<1>1. \A r, at : At(m, r, at) <=> r = s /\ at = "told"
  BY HandlingOne DEF At
<1>2. /\ InHand(m) /\ ~hub_isConnected
      /\ flags[m] \in Flags
  BY OfMachine
<1>3. UnderWay(m) /\ Held(m) => NextOrder(flags[m], s) # {}
  <2>1. Held(m) => s \in {"trigger", "deny", "success"}
    BY <1>1 DEF Held
  <2>2. s = "deny" => Running(m)
    BY <1>1 DEF Running
  <2>3. s = "success" => Allowing(m)
    BY <1>1 DEF Allowing
  <2>4. UnderWay(m) /\ s \in {"deny", "success"} => flags[m].current_action_name = "cycle"
    BY <1>2, <2>2, <2>3 DEF InHand, Flagged
  <2>5. s = "trigger" => "deny" \in NextOrder(flags[m], s)
    BY DEF NextOrder
  <2>6. s = "deny" /\ flags[m].current_action_name = "cycle" => "cycle" \in NextOrder(flags[m], s)
    BY DEF NextOrder
  <2>7. s = "success" /\ flags[m].current_action_name = "cycle" => "allow" \in NextOrder(flags[m], s)
    BY DEF NextOrder
  <2> QED
    BY <2>1, <2>4, <2>5, <2>6, <2>7
<1>4. CASE event' = AtRest /\ NextOrder(flags[m], s) = {}
  <2>1. \A r, at : ~At(m, r, at)'
    BY <1>4, HandlingOne DEF At
  <2>2. UnderWay(m) => ~Held(m) /\ ~Held(m)'
    BY <1>3, <1>4, <2>1 DEF Held
  <2>3. UnderWay(m) => Hands(m)' = Hands(m)
    BY <2>2 DEF Hands, Ordered
  <2>4. /\ ~Triggered(m)' /\ (Denying(m)' => Denying(m)) /\ (Running(m)' => Running(m))
        /\ (Allowing(m)' => Allowing(m))
    BY <2>1 DEF Triggered, Denying, Running, Allowing, Waiting, Noting
  <2> QED
    BY <1>2, <2>1, <2>3, <2>4, PassedOn DEF Ordered
<1>5. ASSUME NEW a \in NextOrder(flags[m], s), event' = Handling(m, s, a)
      PROVE  InHand(m)'
  <2>1. \A r, at : At(m, r, at)' <=> r = s /\ at = a
    BY <1>5, HandlingOne DEF At
  <2>2. <<s, a>> \in {<<"trigger", "deny">>, <<"deny", "cycle">>, <<"success", "allow">>}
    BY <1>2, <1>5, NextFollows DEF Following
  <2>3. Held(m) /\ Held(m)'
    BY <1>1, <2>1, <2>2 DEF Held
  <2>4. Hands(m)' = Hands(m)
    BY <2>3 DEF Hands, Ordered
  <2>5. /\ ~Triggered(m)' /\ (Denying(m)' => Denying(m)) /\ (Running(m)' => Running(m))
        /\ (Allowing(m)' => Allowing(m))
    BY <1>1, <2>1, <2>2 DEF Triggered, Denying, Running, Allowing, Waiting, Noting
  <2>6. s \in {"trigger", "deny", "success"} => UnderWay(m)
    BY <1>1, <1>2 DEF InHand, NoHand, Denying, Running
  <2> QED
    BY <1>2, <2>1, <2>2, <2>4, <2>5, <2>6, PassedOn DEF Ordered
<1> QED
  BY <1>2, <1>4, <1>5

\* An order that finds the place passes the cycle to the message task.
LEMMA OrderedInHand ==
  ASSUME IInv, NEW m \in Machines, NEW s \in Sequences, NEW a \in Actions,
         msg_fmt_loopback_execution(m, s, a), m \notin cut'
  PROVE  InHand(m)'
<1> USE DEF msg_fmt_loopback_execution
<1>1. /\ \A r, at : At(m, r, at) <=> r = s /\ at = a
      /\ \A r, at : At(m, r, at)' <=> r = s /\ at = "recovery"
  BY HandlingOne DEF At
<1>2. Following(s, a)
  BY <1>1 DEF IInv, EventSteps
<1>3. message = {} /\ message' = {Order(m, a)}
  OBVIOUS
<1>4. /\ ~Ordered(m) /\ Ordered(m)'
      /\ \A b \in Actions : Order(m, b) \in message' <=> b = a
  BY <1>3, OrderOne DEF Ordered
<1>5. Held(m) /\ ~Held(m)'
  BY <1>1, <1>2 DEF Held, Following, Actions
<1>6. \A r \in Sequences : pending[m][r] \in Nat
  BY OfMachine
<1>7. Hands(m)' = Hands(m)
  BY <1>4, <1>5 DEF Hands
<1>8. /\ ~Triggered(m)' /\ (Denying(m)' => Denying(m)) /\ (Running(m)' => Running(m))
      /\ (Allowing(m)' => Allowing(m))
  BY <1>1, <1>2, <1>4
  DEF Triggered, Denying, Running, Allowing, Waiting, Noting, Following, Actions
<1>9. InHand(m)
  BY OfMachine
<1>10. UnderWay(m)
  BY <1>1, <1>2, <1>9 DEF InHand, NoHand, Denying, Running, Following
<1> QED
  BY <1>1, <1>7, <1>8, <1>9, <1>10, PassedOn

\* That a report is asked for does not concern the cycle.
LEMMA ReportInHand ==
  ASSUME IInv, NEW m \in Machines, NEW s \in Sequences,
         set_recovery_data(m, s) \/ machine_need_recover_set(m, s), m \notin cut'
  PROVE  InHand(m)'
<1> USE DEF set_recovery_data, machine_need_recover_set
<1>1. \E at \in {"recovery", "recover"} : event = Handling(m, s, at)
  BY DEF At
<1>2. event' = AtRest \/ event' = Handling(m, s, "recover")
  OBVIOUS
<1>3. \A r, at : at \notin {"recovery", "recover"} => ~At(m, r, at) /\ ~At(m, r, at)'
  BY <1>1, <1>2, HandlingOne DEF At
<1>4. Hands(m)' = Hands(m)
  BY <1>3 DEF Hands, Held, Ordered
<1>5. /\ ~Triggered(m)' /\ (Denying(m)' => Denying(m)) /\ (Running(m)' => Running(m))
      /\ (Allowing(m)' => Allowing(m))
  BY <1>3 DEF Triggered, Denying, Running, Allowing, Waiting, Noting
<1>6. InHand(m)
  BY OfMachine
<1> QED
  BY <1>3, <1>4, <1>5, <1>6, PassedOn DEF Ordered

\* The message task's place holds at most this order of a machine, which is in hand.
LEMMA OrderInHand ==
  ASSUME IInv, NEW o \in message
  PROVE  /\ o.machine \in Machines /\ o.action \in Actions
         /\ message = {o} /\ o = Order(o.machine, o.action)
         /\ o.machine \notin cut => InHand(o.machine) /\ UnderWay(o.machine)
         /\ \A m \in Machines, a \in Actions :
               Order(m, a) \in message <=> m = o.machine /\ a = o.action
<1>1. o.machine \in Machines /\ o.action \in Actions /\ o = Order(o.machine, o.action)
  BY DEF IInv, TypeOK, Order
<1>2. message = {o}
  BY DEF IInv, OneOrder
<1>3. o.machine \notin cut => InHand(o.machine)
  BY <1>1, OfMachine
<1>4. Ordered(o.machine)
  BY <1>1 DEF Ordered
<1>5. o.machine \notin cut => UnderWay(o.machine)
  BY <1>3, <1>4 DEF InHand, NoHand
<1> QED
  BY <1>1, <1>2, <1>3, <1>5, OrderOne

\* An order that begins the cycle finds the flags as the hub has left them.
LEMMA CycleOrdered ==
  ASSUME IInv, NEW o \in message, o.machine \notin cut, o.action = "cycle"
  PROVE  /\ flags[o.machine].transaction_control = "hub"
         /\ flags[o.machine].current_action_name = "cycle"
<1>1. Running(o.machine)
  BY OrderInHand DEF Running
<1> QED
  BY <1>1, OrderInHand DEF InHand, Flagged

\* The message task carries an order to the sequence engine. A machine whose cycle is
\* left to the hub is idle then: its order is not refused.
LEMMA MessageInHand ==
  ASSUME IInv, NEW o \in message, message_step(o), NEW n \in Machines, n \notin cut'
  PROVE  InHand(n)'
<1>1. n \notin cut
  BY DEF message_step, execution_perform, check_control, take_control, set_action, pin_seq_push
<1>2. InHand(n)
  BY <1>1, OfMachine
<1>3. /\ event' = event /\ runs' = runs
  BY DEF message_step, execution_perform, check_control, take_control, set_action, pin_seq_push
<1>4. flags'[n] = flags[n]
  <2>1. CASE take_control(o)
    <3>1. o.machine # n
      BY <1>1, <2>1 DEF take_control, IInv, OneOrder
    <3> QED
      BY <2>1, <3>1 DEF take_control, IInv, TypeOK
  <2>2. CASE set_action(o)
    <3>1. n = o.machine => flags[n].current_action_name = "cycle"
      BY <1>1, <2>2, CycleOrdered DEF set_action, IInv, OneOrder
    <3>2. flags[n] \in Flags
      BY OfMachine
    <3>3. n = o.machine => [flags[n] EXCEPT !.current_action_name = "cycle"] = flags[n]
      BY <3>1, <3>2 DEF Flags
    <3> QED
      BY <2>2, <3>3 DEF set_action, IInv, TypeOK
  <2> QED
    BY <2>1, <2>2 DEF message_step, execution_perform, check_control, pin_seq_push
<1>5. CASE message' = message /\ pending' = pending
  BY <1>2, <1>3, <1>4, <1>5, Frame
<1>6. CASE execution_perform(o) /\ message' = {}
  <2>1. o.machine # n
    <3>1. SUFFICES ASSUME o.machine = n
                   PROVE  FALSE
      OBVIOUS
    <3>2. Ordered(n)
      BY <3>1, OrderInHand DEF Ordered
    <3>3. flags[n].is_idle
      BY <1>2, <3>2, IdleInHand
    <3> QED
      BY <1>6, <3>1, <3>3 DEF execution_perform
  <2>2. \A a \in Actions : Order(n, a) \notin message /\ Order(n, a) \notin message'
    BY <1>6, <2>1, OrderInHand
  <2> QED
    BY <1>2, <1>3, <1>4, <1>6, <2>2, Frame DEF execution_perform
<1>7. CASE pin_seq_push(o) /\ n # o.machine
  <2>1. \A a \in Actions : Order(n, a) \notin message /\ Order(n, a) \notin message'
    BY <1>7, OrderInHand DEF pin_seq_push
  <2>2. pending'[n] = pending[n]
    BY <1>7 DEF pin_seq_push, IInv, TypeOK
  <2> QED
    BY <1>2, <1>3, <1>4, <2>1, <2>2, Frame
<1>8. CASE pin_seq_push(o) /\ n = o.machine
  <2> DEFINE a == o.action
  <2>1. /\ a \in Actions /\ a \in Sequences /\ UnderWay(n) /\ Ordered(n) /\ ~Ordered(n)'
        /\ \A b \in Actions : Order(n, b) \in message <=> b = a
        /\ \A b \in Actions : Order(n, b) \notin message'
    BY <1>1, <1>8, OrderInHand DEF pin_seq_push, Ordered, Sequences
  <2>2. pending' = [pending EXCEPT ![n][a] = @ + 1]
    BY <1>1, <1>8, n \notin cut' DEF pin_seq_push
  <2>3. \A b \in Sequences : pending'[n][b] = IF b = a THEN pending[n][b] + 1 ELSE pending[n][b]
    BY <2>1, <2>2 DEF IInv, TypeOK
  <2>4. \A b \in Sequences : pending[n][b] \in Nat
    BY OfMachine
  <2>5. Held(n)' <=> Held(n)
    BY <1>3 DEF Held, At
  <2>6. Hands(n)' = Hands(n)
    <3>1. CASE a = "deny"
      BY <1>3, <2>1, <2>3, <2>4, <2>5, <3>1 DEF Hands, Sequences, Actions
    <3>2. CASE a = "cycle"
      BY <1>3, <2>1, <2>3, <2>4, <2>5, <3>2 DEF Hands, Sequences, Actions
    <3>3. CASE a = "allow"
      BY <1>3, <2>1, <2>3, <2>4, <2>5, <3>3 DEF Hands, Sequences, Actions
    <3> QED
      BY <2>1, <3>1, <3>2, <3>3 DEF Actions
  <2>7. \A b \in Actions : Waiting(n, b)' => Waiting(n, b)
    BY <1>3, <2>1, <2>3, <2>4 DEF Waiting, Noting, At, Sequences
  <2>8. pending'[n]["cycle"] > 0 => pending[n]["cycle"] > 0 \/ Order(n, "cycle") \in message
    BY <2>1, <2>3, <2>4 DEF Sequences, Actions
  <2>9. /\ (Triggered(n)' => Triggered(n)) /\ (Denying(n)' => Denying(n))
        /\ (Allowing(n)' => Allowing(n))
    BY <1>3, <2>7 DEF Triggered, Denying, Allowing, At, Actions
  <2>10. Running(n)' => Running(n)
    BY <1>3, <2>1, <2>8 DEF Running, Noting, At, Actions
  <2>11. \A r, at : At(n, r, at)' <=> At(n, r, at)
    BY <1>3 DEF At
  <2> QED
    BY <1>2, <1>4, <2>1, <2>6, <2>9, <2>10, <2>11, PassedOn
<1> QED
  BY <1>5, <1>6, <1>7, <1>8
  DEF message_step, execution_perform, check_control, take_control, set_action, pin_seq_push

\* Orders of the cloud cut a cycle off; connection and reports do not concern it.
LEMMA OthersInHand ==
  ASSUME IInv, NEW n \in Machines, n \notin cut',
         \/ \E m \in Machines, a \in Actions : msg_fmt_raw_cb(m, a)
         \/ toggle \/ monitoring_step \/ UNCHANGED vars
  PROVE  InHand(n)'
<1>1. /\ n \notin cut /\ flags' = flags /\ pending' = pending /\ runs' = runs /\ event' = event
  BY DEF msg_fmt_raw_cb, toggle, monitoring_step, assemble_log, clear_need_recover,
         unlog_none, clear_recovery_data, vars
<1>2. \A a \in Actions : Order(n, a) \in message' <=> Order(n, a) \in message
  BY OrderOne
  DEF msg_fmt_raw_cb, toggle, monitoring_step, assemble_log, clear_need_recover,
      unlog_none, clear_recovery_data, vars
<1>3. InHand(n)
  BY <1>1, OfMachine
<1> QED
  BY <1>1, <1>2, <1>3, Frame

-----------------------------------------------------------------------------
(* The other parts of the invariant, and the theorem. *)

\* No cycle is under way in the first state.
LEMMA InitHolds == Init => IInv
<1> SUFFICES ASSUME Init
             PROVE  IInv
  OBVIOUS
<1>1. TypeOK
  BY InitTyped
<1>2. OneOrder
  BY DEF Init, OneOrder
<1>3. \A m, s, at : ~At(m, s, at)
  BY HandlingOne DEF Init, At
<1>4. EventSteps
  BY <1>3 DEF EventSteps
<1>5. ASSUME NEW m \in Machines
      PROVE  /\ flags[m].is_idle = TRUE /\ flags[m].is_allowed = TRUE
             /\ flags[m].transaction_control = "none"
             /\ pending[m]["deny"] = 0 /\ pending[m]["cycle"] = 0
  BY DEF Init, FirstFlags, machine_single_prepare, Sequences, Actions, Events
<1>6. IdleLaw
  BY <1>3, <1>5 DEF Init, IdleLaw, Noting
<1>7. ASSUME NEW m \in Machines
      PROVE  InHand(m)
  <2>1. ~UnderWay(m)
    BY <1>5 DEF UnderWay
  <2>2. ~Denying(m) /\ ~Running(m)
    <3>1. message = {} /\ runs = {}
      BY DEF Init
    <3>2. pending[m]["deny"] = 0 /\ pending[m]["cycle"] = 0
      BY <1>5
    <3>3. ~(pending[m]["deny"] > 0) /\ ~(pending[m]["cycle"] > 0)
      BY <3>2
    <3> QED
      BY <1>3, <3>1, <3>3 DEF Denying, Running, Waiting, Noting
  <2> QED
    BY <1>3, <2>1, <2>2 DEF Init, InHand, NoHand, Triggered, Ordered
<1> QED
  BY <1>1, <1>2, <1>4, <1>6, <1>7 DEF IInv, Law

\* No step breaks what holds of the place for an order.
LEMMA OneOrderKept ==
  ASSUME IInv, [Next]_vars
  PROVE  OneOrder'
<1>1. ASSUME NEW m \in Machines, NEW s \in Sequences, pin_seq_next(m, s) \/ execution_step(m, s)
      PROVE  OneOrder'
  <2>1. ASSUME NEW a \in Actions, msg_fmt_loopback_execution(m, s, a)
        PROVE  OneOrder'
    BY <2>1 DEF msg_fmt_loopback_execution, IInv, OneOrder
  <2>2. ASSUME message' = message, orderAt' = orderAt, cut \subseteq cut'
        PROVE  OneOrder'
    BY <2>2 DEF IInv, OneOrder
  <2>3. CASE set_first(m, s)
    <3>1. orderAt = "free" => \A o \in message : Order(o.machine, o.action) \in message
      BY OrderInHand
    <3>2. orderAt = "free" => \A o \in message : o.machine = m => ~Clean(m)
      BY <3>1, OrderInHand DEF Clean, Ordered
    <3> QED
      BY <2>3, <3>2 DEF set_first, IInv, OneOrder
  <2> QED
    BY <1>1, <2>1, <2>2, <2>3
    DEF pin_seq_next, execution_step, machine_flags_dispatcher, set_second,
        execution_update_tells, set_recovery_data, machine_need_recover_set
<1>2. ASSUME NEW o \in message, message_step(o)
      PROVE  OneOrder'
  <2>1. CASE execution_perform(o)
    BY <2>1 DEF execution_perform, IInv, OneOrder
  <2>2. CASE check_control(o)
    <3>1. o.machine \notin cut => flags[o.machine].transaction_control = "hub"
      BY <2>2, CycleOrdered DEF check_control, IInv, OneOrder
    <3> QED
      BY <2>2, <3>1 DEF check_control, IInv, OneOrder
  <2>3. CASE take_control(o)
    BY <2>3 DEF take_control, IInv, OneOrder
  <2>4. CASE set_action(o)
    BY <2>4 DEF set_action, IInv, OneOrder
  <2>5. CASE pin_seq_push(o)
    BY <2>5 DEF pin_seq_push, OneOrder
  <2> QED
    BY <1>2, <2>1, <2>2, <2>3, <2>4, <2>5 DEF message_step
<1>3. ASSUME NEW m \in Machines, NEW a \in Actions, msg_fmt_raw_cb(m, a)
      PROVE  OneOrder'
  BY <1>3 DEF msg_fmt_raw_cb, IInv, OneOrder
<1>4. CASE toggle \/ monitoring_step \/ UNCHANGED vars
  <2>1. message' = message /\ orderAt' = orderAt /\ cut' = cut
    BY <1>4 DEF toggle, monitoring_step, assemble_log, clear_need_recover, unlog_none,
                clear_recovery_data, vars
  <2> QED
    BY <2>1 DEF IInv, OneOrder
<1> QED
  BY <1>1, <1>2, <1>3, <1>4 DEF Next

\* No step breaks what holds of the sequence the execution task handles.
LEMMA EventStepsKept ==
  ASSUME IInv, [Next]_vars
  PROVE  EventSteps'
<1>1. ASSUME NEW k \in Machines, NEW r \in Sequences, pin_seq_next(k, r) \/ execution_step(k, r)
      PROVE  EventSteps'
  <2>1. ASSUME NEW now \in {"dispatch", "second", "told", "recovery", "recover"},
               event' = Handling(k, r, now)
        PROVE  EventSteps'
    BY <2>1, HandlingOne DEF EventSteps, At, Actions
  <2>2. CASE event' = AtRest
    BY <2>2, HandlingOne DEF EventSteps, At
  <2>3. CASE machine_flags_dispatcher(k, r) /\ event' = Handling(k, r, "first")
    <3>1. Counts(flags[k], r) /\ flags' = flags
      BY <2>3, HandlingOne DEF machine_flags_dispatcher
    <3>2. r = "trigger" => ~UnderWay(k)'
      BY <3>1 DEF Counts, UnderWay
    <3> QED
      BY <2>3, <3>2, HandlingOne DEF EventSteps, At, Actions
  <2>4. ASSUME NEW a \in NextOrder(flags[k], r), event' = Handling(k, r, a)
        PROVE  EventSteps'
    <3>1. Following(r, a)
      BY <2>4, NextFollows DEF IInv, TypeOK
    <3> QED
      BY <2>4, <3>1, HandlingOne DEF EventSteps, At, Following
  <2> QED
    BY <1>1, <2>1, <2>2, <2>3, <2>4
    DEF pin_seq_next, execution_step, machine_flags_dispatcher, set_first, set_second,
        execution_update_tells, msg_fmt_loopback_execution, set_recovery_data,
        machine_need_recover_set
<1>2. ASSUME NEW o \in message, message_step(o)
      PROVE  EventSteps'
  <2>1. event' = event
    BY <1>2 DEF message_step, execution_perform, check_control, take_control, set_action,
                pin_seq_push
  <2>2. ASSUME NEW m \in Machines, ~UnderWay(m)
        PROVE  ~UnderWay(m)'
    <3>1. flags[m] \in Flags
      BY OfMachine
    <3>2. CASE take_control(o)
      BY <2>2, <3>1, <3>2 DEF take_control, UnderWay, IInv, TypeOK, Flags
    <3>3. CASE set_action(o)
      BY <2>2, <3>1, <3>3 DEF set_action, UnderWay, IInv, TypeOK, Flags
    <3> QED
      BY <1>2, <2>2, <3>2, <3>3
      DEF message_step, execution_perform, check_control, pin_seq_push, UnderWay
  <2> QED
    BY <2>1, <2>2 DEF IInv, EventSteps, At
<1>3. CASE \/ \E m \in Machines, a \in Actions : msg_fmt_raw_cb(m, a)
           \/ toggle \/ monitoring_step \/ UNCHANGED vars
  <2>1. event' = event /\ flags' = flags
    BY <1>3 DEF msg_fmt_raw_cb, toggle, monitoring_step, assemble_log, clear_need_recover,
                unlog_none, clear_recovery_data, vars
  <2> QED
    BY <2>1 DEF IInv, EventSteps, At, UnderWay
<1> QED
  BY <1>1, <1>2, <1>3 DEF Next

\* No step breaks the law of the idle flag.
LEMMA IdleLawKept ==
  ASSUME IInv, [Next]_vars
  PROVE  IdleLaw'
<1>1. ASSUME NEW k \in Machines, NEW r \in Sequences, pin_seq_next(k, r) \/ execution_step(k, r)
      PROVE  IdleLaw'
  <2>1. \A m \in Machines : m # k =>
           /\ m \in runs' <=> m \in runs
           /\ flags'[m] = flags[m]
    BY <1>1 DEF IInv, TypeOK, pin_seq_next, execution_step, machine_flags_dispatcher, set_first,
                set_second, execution_update_tells, msg_fmt_loopback_execution,
                set_recovery_data, machine_need_recover_set
  <2>2. flags[k] \in Flags
    BY OfMachine
  <2>3. \A m \in Machines, s \in {"cycle", "success"} : m # k => ~Noting(m, s) /\ ~Noting(m, s)'
    <3>1. event = AtRest \/ \E at : event = Handling(k, r, at)
      BY <1>1 DEF At, Actions, pin_seq_next, execution_step, machine_flags_dispatcher, set_first,
                  set_second, execution_update_tells, msg_fmt_loopback_execution,
                  set_recovery_data, machine_need_recover_set
    <3>2. event' = AtRest \/ \E at : event' = Handling(k, r, at)
      BY <1>1 DEF pin_seq_next, execution_step, machine_flags_dispatcher, set_first,
                  set_second, execution_update_tells, msg_fmt_loopback_execution,
                  set_recovery_data, machine_need_recover_set
    <3> QED
      BY <3>1, <3>2, HandlingOne DEF Noting, At
  <2>4. SUFFICES /\ Noting(k, "cycle")' => k \in runs'
                 /\ Noting(k, "success")' => k \notin runs'
                 /\ ~Noting(k, "cycle")' /\ ~Noting(k, "success")'
                      => flags'[k].is_idle = (k \notin runs')
    BY <2>1, <2>3 DEF IInv, IdleLaw
  <2>5. CASE pin_seq_next(k, r)
    <3>1. \A s : ~Noting(k, s) /\ (Noting(k, s)' <=> s = r)
      BY <2>5, HandlingOne DEF pin_seq_next, Noting, At
    <3> QED
      BY <2>5, <3>1 DEF pin_seq_next, IInv, IdleLaw
  <2>6. CASE machine_flags_dispatcher(k, r)
    <3>1. \A s : (Noting(k, s) <=> s = r) /\ (Noting(k, s)' <=> s = r /\ Counts(flags[k], r))
      BY <2>6, HandlingOne DEF machine_flags_dispatcher, Noting, At
    <3>2. (r = "success" => Counts(flags[k], r)) /\ (r = "cycle" /\ flags[k].is_idle => Counts(flags[k], r))
      BY DEF Counts, Actions
    <3>3. flags[k].is_idle \in BOOLEAN
      BY <2>2 DEF Flags
    <3> QED
      BY <2>6, <3>1, <3>2, <3>3 DEF machine_flags_dispatcher, IInv, IdleLaw
  <2>7. CASE set_first(k, r)
    <3>1. \A s : (Noting(k, s) <=> s = r) /\ ~Noting(k, s)'
      BY <2>7, HandlingOne DEF set_first, Noting, At
    <3>2. flags'[k] = First(flags[k], r)
      BY <2>7 DEF set_first, IInv, TypeOK
    <3>3. /\ r = "cycle" => flags'[k].is_idle = FALSE
          /\ r = "success" => flags'[k].is_idle = TRUE
          /\ r \in {"trigger", "deny", "allow"} => flags'[k].is_idle = flags[k].is_idle
      BY <2>2, <3>2 DEF First, Flags
    <3> QED
      BY <2>7, <3>1, <3>3 DEF set_first, IInv, IdleLaw, Sequences, Actions, Events
  <2>8. CASE set_second(k, r)
    <3>1. \A s : ~Noting(k, s) /\ ~Noting(k, s)'
      BY <2>8, HandlingOne DEF set_second, Noting, At
    <3>2. flags'[k].is_idle = flags[k].is_idle
      BY <2>2, <2>8 DEF set_second, Second, Flags, IInv, TypeOK
    <3> QED
      BY <2>8, <3>1, <3>2 DEF set_second, IInv, IdleLaw
  <2>9. ASSUME runs' = runs, flags' = flags, \A s : ~Noting(k, s) /\ ~Noting(k, s)'
        PROVE  flags'[k].is_idle = (k \notin runs')
    BY <2>9 DEF IInv, IdleLaw
  <2>10. CASE execution_update_tells(k, r)
    <3>1. \A a \in NextOrder(flags[k], r) : a \notin {"dispatch", "first"}
      BY <2>2 DEF NextOrder, Flags
    <3>2. \A s : ~Noting(k, s) /\ ~Noting(k, s)'
      BY <2>10, <3>1, HandlingOne DEF execution_update_tells, Noting, At
    <3> QED
      BY <2>9, <2>10, <3>2 DEF execution_update_tells
  <2>11. CASE \E a \in Actions : msg_fmt_loopback_execution(k, r, a)
    <3>1. \A s : ~Noting(k, s) /\ ~Noting(k, s)'
      BY <2>11, HandlingOne DEF msg_fmt_loopback_execution, Noting, At, Actions
    <3> QED
      BY <2>9, <2>11, <3>1 DEF msg_fmt_loopback_execution
  <2>12. CASE set_recovery_data(k, r) \/ machine_need_recover_set(k, r)
    <3>1. \A s : ~Noting(k, s) /\ ~Noting(k, s)'
      BY <2>12, HandlingOne DEF set_recovery_data, machine_need_recover_set, Noting, At
    <3> QED
      BY <2>9, <2>12, <3>1 DEF set_recovery_data, machine_need_recover_set
  <2> QED
    BY <1>1, <2>5, <2>6, <2>7, <2>8, <2>10, <2>11, <2>12 DEF execution_step
<1>2. ASSUME NEW o \in message, message_step(o)
      PROVE  IdleLaw'
  <2>1. event' = event /\ runs' = runs
    BY <1>2 DEF message_step, execution_perform, check_control, take_control, set_action,
                pin_seq_push
  <2>2. ASSUME NEW m \in Machines
        PROVE  flags'[m].is_idle = flags[m].is_idle
    <3>1. flags[m] \in Flags
      BY OfMachine
    <3>2. CASE take_control(o)
      BY <3>1, <3>2 DEF take_control, IInv, TypeOK, Flags
    <3>3. CASE set_action(o)
      BY <3>1, <3>3 DEF set_action, IInv, TypeOK, Flags
    <3> QED
      BY <1>2, <3>2, <3>3 DEF message_step, execution_perform, check_control, pin_seq_push
  <2> QED
    BY <2>1, <2>2 DEF IInv, IdleLaw, Noting, At
<1>3. CASE \/ \E m \in Machines, a \in Actions : msg_fmt_raw_cb(m, a)
           \/ toggle \/ monitoring_step \/ UNCHANGED vars
  <2>1. event' = event /\ flags' = flags /\ runs' = runs
    BY <1>3 DEF msg_fmt_raw_cb, toggle, monitoring_step, assemble_log, clear_need_recover,
                unlog_none, clear_recovery_data, vars
  <2> QED
    BY <2>1 DEF IInv, IdleLaw, Noting, At
<1> QED
  BY <1>1, <1>2, <1>3 DEF Next

\* No step takes a cycle that is left to the hub out of its hand.
LEMMA LawKept ==
  ASSUME IInv, [Next]_vars, NEW n \in Machines, n \notin cut'
  PROVE  InHand(n)'
<1>1. ASSUME NEW m \in Machines, NEW s \in Sequences, pin_seq_next(m, s) \/ execution_step(m, s),
             n # m
      PROVE  InHand(n)'
  BY <1>1, OtherMachine, OfMachine DEF IInv
<1>2. ASSUME NEW s \in Sequences, pin_seq_next(n, s) \/ execution_step(n, s)
      PROVE  InHand(n)'
  BY <1>2, NextInHand, DispatchedInHand, FirstInHand, SecondInHand, ToldInHand, OrderedInHand,
     ReportInHand
  DEF execution_step
<1> QED
  BY <1>1, <1>2, MessageInHand, OthersInHand DEF Next

\* The invariant is inductive.
LEMMA StepHolds == IInv /\ [Next]_vars => IInv'
<1> SUFFICES ASSUME IInv, [Next]_vars
             PROVE  IInv'
  OBVIOUS
<1>1. TypeOK'
  BY StepTyped DEF IInv
<1>2. Law'
  BY LawKept DEF Law
<1> QED
  BY <1>1, <1>2, OneOrderKept, EventStepsKept, IdleLawKept DEF IInv

\* A cycle the hub carries through alone is in exactly one hand at any time (src/execution.c,
\* src/machines.c): it is not forgotten between two tasks, and no order is given twice.
THEOREM AlwaysOneHand == Spec => []OneHand
<1>1. IInv => OneHand
  BY DEF IInv, Law, InHand, OneHand
<1> QED
  BY InitHolds, StepHolds, <1>1, PTL DEF Spec

=============================================================================
