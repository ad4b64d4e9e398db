------------------------- MODULE KeyRotationProofs -------------------------
(***************************************************************************)
(* Proofs about the rotation of keys, for every set of keys and any number *)
(* of rotations: the model is of the right type, wherever the first        *)
(* restart cuts a rotation or a rollback every key in use has a value, and *)
(* the values the hub connected with last are never lost.                  *)
(***************************************************************************)
EXTENDS KeyRotation, TLAPS

\* The two tasks never both hold a rotation: the rollback begins with the input
\* task at rest and lasts while the hub is offline.
OneAtATime == ~At("connection", "rest") => ~online /\ At("input", "rest")

InValue(k, i) == /\ task["input"].at \in {"value", "value_set"}
                 /\ task["input"].key = k /\ task["input"].slot = i

\* Before the first restart: who has erased what.
MetadataMissing == keybuf = Absent => At("input", "current_set") \/ At("connection", "current_set")
Backed(slots) == \A k \in Keys : slots[k] = 1 => flash[k][1] # None
FirstSlots == \A k \in Keys : flash[k][0] = None => At("input", "value_set") /\ InValue(k, 0)
MetadataBacked == keybuf # Absent => Backed(keybuf)

\* Slots in RAM are backed by a value, but for the one being written.
RamBacked ==
  \A k \in Keys :
    /\ current_used_keys[k] = 1 => flash[k][1] # None \/ InValue(k, 1)
    /\ last_used_keys[k] = 1 => flash[k][1] # None

\* While a value is written the metadata and the slot before are the other slot.
Unswitched ==
  \A k \in Keys, i \in Slots :
    InValue(k, i) => /\ keybuf # Absent /\ keybuf[k] = 1 - i
                     /\ current_used_keys[k] = i /\ last_used_keys[k] = 1 - i

Settled == {"rest", "last", "last_set", "roll"}
MetadataSaved ==
  /\ task["input"].at \in Settled /\ task["connection"].at \in Settled => keybuf = current_used_keys
  /\ \A t \in Tasks : task[t].at \in {"current", "current_set"} => task[t].blob = current_used_keys

Unstarted == /\ ~At("input", "boot") /\ MetadataMissing /\ FirstSlots /\ MetadataBacked
             /\ RamBacked /\ Unswitched /\ MetadataSaved

IInv == TypeOK /\ OneAtATime /\ (boots = 0 => Unstarted)

-----------------------------------------------------------------------------
LEMMA ConstantFacts ==
  /\ 0 \in Values /\ None \notin Values /\ Absent \notin SlotMap
  /\ AllZero \in SlotMap /\ Rest.key \in Keys
  /\ Rest \in TaskRecord
  /\ Rest.at = "rest"
<1>1. PICK k \in Keys : TRUE
  BY KeysAssumption
<1>2. (CHOOSE x \in Keys : TRUE) \in Keys
  BY <1>1
<1>3. AllZero \in SlotMap
  BY DEF AllZero, SlotMap, Slots
<1>4. 0 \in Values /\ None \notin Values /\ Absent \notin SlotMap
  BY KeysAssumption, SMT DEF Values, SlotMap, Slots
<1> QED
  BY <1>2, <1>3, <1>4 DEF Rest, Places, Slots, TaskRecord

TypedTasks == task \in [Tasks -> TaskRecord]

LEMMA TaskFacts ==
  ASSUME TypedTasks, NEW t \in Tasks
  PROVE  /\ task[t].key \in Keys /\ task[t].slot \in Slots /\ task[t].blob \in SlotMap
         /\ task[t].todo \subseteq Keys
  BY DEF TypedTasks, TaskRecord

\* A task that moves, or starts over, or takes another blob, is still a task.
LEMMA MovedTask ==
  ASSUME TypedTasks, NEW t \in Tasks, NEW place \in Places, NEW blob \in SlotMap
  PROVE  /\ [task EXCEPT ![t].at = place] \in [Tasks -> TaskRecord]
         /\ [task EXCEPT ![t].at = place, ![t].blob = blob] \in [Tasks -> TaskRecord]
         /\ [task EXCEPT ![t] = Rest] \in [Tasks -> TaskRecord]
<1> DEFINE r == task[t]
<1>1. r \in TaskRecord
  BY DEF TypedTasks
<1>2. [r EXCEPT !.at = place] \in TaskRecord
  BY <1>1 DEF TaskRecord
<1>3. [r EXCEPT !.at = place, !.blob = blob] \in TaskRecord
  BY <1>1, <1>2 DEF TaskRecord
<1> QED
  BY <1>2, <1>3, ConstantFacts DEF TypedTasks

LEMMA TypeInvariant == TypeOK /\ [Next]_vars => TypeOK'
<1> SUFFICES ASSUME TypeOK, [Next]_vars PROVE TypeOK'
  OBVIOUS
<1> USE ConstantFacts
<1>t. TypedTasks /\ "input" \in Tasks /\ "connection" \in Tasks
  BY DEF TypeOK, TypedTasks, Tasks
<1>1. CASE value_erase
  <2>1. task["input"].key \in Keys /\ task["input"].slot \in Slots
    BY <1>t, TaskFacts
  <2>2. flash' \in [Keys -> [Slots -> Values \cup {None}]]
    BY <1>1, <2>1 DEF value_erase, TypeOK
  <2>3. task' \in [Tasks -> TaskRecord]
    BY <1>1, <1>t, MovedTask DEF value_erase, Go, Places
  <2> QED
    BY <1>1, <2>2, <2>3 DEF value_erase, TypeOK, meta, ram, cloud, bnds
<1>2. CASE value_set
  <2>1. task["input"].key \in Keys /\ task["input"].slot \in Slots
    BY <1>t, TaskFacts
  <2>2. flash' \in [Keys -> [Slots -> Values \cup {None}]]
    BY <1>2, <2>1 DEF value_set, TypeOK
  <2>3. task' \in [Tasks -> TaskRecord]
    BY <1>2, <1>t, MovedTask DEF value_set, Places, TypeOK
  <2> QED
    BY <1>2, <2>2, <2>3 DEF value_set, TypeOK, meta, ram, cloud, bnds
<1>3. ASSUME NEW t \in Tasks, save_current_erase(t) PROVE TypeOK'
  <2>1. task' \in [Tasks -> TaskRecord]
    BY <1>3, <1>t, MovedTask DEF save_current_erase, Go, Places
  <2> QED
    BY <1>3, <2>1 DEF save_current_erase, TypeOK, ram, cloud, bnds
<1>4. ASSUME NEW t \in Tasks, save_current_set(t) PROVE TypeOK'
  <2>1. task' \in [Tasks -> TaskRecord]
    BY <1>4, <1>t, MovedTask DEF save_current_set, Places, TypeOK
  <2> QED
    BY <1>4, <1>t, <2>1, TaskFacts DEF save_current_set, TypeOK, ram, cloud, bnds
<1>5. ASSUME NEW t \in Tasks, save_old_erase(t) PROVE TypeOK'
  <2>1. task' \in [Tasks -> TaskRecord]
    BY <1>5, <1>t, MovedTask DEF save_old_erase, Go, Places
  <2> QED
    BY <1>5, <2>1 DEF save_old_erase, TypeOK, ram, cloud, bnds
<1>6. ASSUME NEW t \in Tasks, save_old_set(t) PROVE TypeOK'
  <2>a. task' = [task EXCEPT ![t] = Rest] \/ task' = [task EXCEPT ![t].at = "roll"]
    BY <1>6 DEF save_old_set, Go
  <2>1. task' \in [Tasks -> TaskRecord]
    <3>1. CASE task' = [task EXCEPT ![t] = Rest]
      BY <1>t, <3>1 DEF TypedTasks
    <3>2. CASE task' = [task EXCEPT ![t].at = "roll"]
      BY <1>t, <3>2, MovedTask DEF Places
    <3> QED
      BY <2>a, <3>1, <3>2
  <2>2. rol_status' \subseteq Keys
    BY <1>6, <1>t, TaskFacts DEF save_old_set, TypeOK
  <2> QED
    BY <1>6, <1>t, <2>1, <2>2, TaskFacts DEF save_old_set, TypeOK, cloud, bnds
<1>7. CASE initialize_keys_buffers
  <2>1. task' \in [Tasks -> TaskRecord]
    BY <1>7, <1>t, MovedTask DEF initialize_keys_buffers, Places, TypeOK
  <2> QED
    BY <1>7, <2>1 DEF initialize_keys_buffers, TypeOK, ram, cloud, bnds
<1>l. load_keys \in [Keys -> Values \cup {None}]
  BY SMT DEF load_keys, TypeOK, SlotMap
<1>f. Fails => faults' \in 0 .. MaxFaults
  BY KeysAssumption, SMT DEF Fails, TypeOK
<1>8. CASE connect
  BY <1>8, <1>l DEF connect, Attempt, TypeOK, meta, cloud, bnds
<1>9. CASE connect_fails
  BY <1>9, <1>l, <1>f DEF connect_fails, Attempt, TypeOK, meta, cloud
<1>10. CASE role_forward_failed
  <2>1. [Rest EXCEPT !.at = "roll", !.todo = Keys] \in TaskRecord
    BY DEF TaskRecord, Places
  <2>2. task' \in [Tasks -> TaskRecord]
    BY <1>10, <1>t, <2>1 DEF role_forward_failed, TypedTasks
  <2>3. rotation_attempts' \in 0 .. MAX_ROTATIONS_ATTEMPTS
    BY <1>10, SMT DEF role_forward_failed, TypeOK, MAX_ROTATIONS_ATTEMPTS
  <2> QED
    BY <1>10, <1>l, <1>f, <2>2, <2>3 DEF role_forward_failed, Attempt, TypeOK, meta, cloud
<1>11. ASSUME NEW k \in Keys, rolback_key(k) PROVE TypeOK'
  <2>1. current_used_keys' \in SlotMap /\ last_used_keys' \in SlotMap
    BY <1>11 DEF rolback_key, TypeOK, SlotMap
  <2> DEFINE r == task["connection"]
             s == [r EXCEPT !.at = "current", !.blob = current_used_keys', !.todo = @ \ {k}]
  <2>2. s \in TaskRecord
    BY <1>t, <2>1 DEF TypedTasks, TaskRecord, Places
  <2>3. task' = [task EXCEPT !["connection"] = s]
    BY <1>11 DEF rolback_key
  <2>4. task' \in [Tasks -> TaskRecord]
    BY <1>t, <2>2, <2>3 DEF TypedTasks
  <2> QED
    BY <1>11, <2>1, <2>4 DEF rolback_key, TypeOK, meta, cloud, bnds
<1>12. CASE rolled_back
  <2>1. task' \in [Tasks -> TaskRecord]
    BY <1>12, <1>t, MovedTask DEF rolled_back, Places, TypeOK
  <2>2. 0 \in 0 .. MAX_ROTATIONS_ATTEMPTS
    BY SMT DEF MAX_ROTATIONS_ATTEMPTS
  <2> QED
    BY <1>12, <2>1, <2>2 DEF rolled_back, action_forward_cb, TypeOK, meta, cloud, bnds
<1>13. ASSUME NEW k \in Keys, rotate_key(k) PROVE TypeOK'
  <2>0. 1 - current_used_keys[k] \in Slots
    BY SMT DEF TypeOK, SlotMap, Slots
  <2>1. current_used_keys' \in SlotMap /\ last_used_keys' \in SlotMap
    BY <1>13, <2>0 DEF rotate_key, TypeOK, SlotMap
  <2>2. [Rest EXCEPT !.at = "value", !.key = k, !.slot = 1 - current_used_keys[k]] \in TaskRecord
    BY <2>0 DEF TaskRecord, Places
  <2>3. task' \in [Tasks -> TaskRecord]
    BY <1>13, <1>t, <2>2 DEF rotate_key, TypedTasks
  <2>4. issued' \in Values /\ sent' \subseteq Keys /\ good' \subseteq Values
    BY <1>13, KeysAssumption, SMT DEF rotate_key, Send, TypeOK, Values
  <2> QED
    BY <1>13, <2>1, <2>3, <2>4 DEF rotate_key, TypeOK, meta, bnds
<1>14. CASE OrderForward
  <2>1. 0 \in 0 .. MAX_ROTATIONS_ATTEMPTS
    BY SMT DEF MAX_ROTATIONS_ATTEMPTS
  <2> QED
    BY <1>14, <2>1 DEF OrderForward, action_forward_cb, TypeOK, meta, bnds
<1>15. CASE connection_lost
  <2>1. faults' \in 0 .. MaxFaults
    BY <1>15, KeysAssumption, SMT DEF connection_lost, TypeOK
  <2> QED
    BY <1>15, <2>1 DEF connection_lost, TypeOK, meta, ram, cloud
<1>16. CASE restart
  <2>1. [Rest EXCEPT !.at = "boot"] \in TaskRecord
    BY DEF TaskRecord, Places
  <2>2. task' \in [Tasks -> TaskRecord]
    BY <1>16, <2>1 DEF restart
  <2>3. boots' \in 0 .. MaxBoots /\ 0 \in 0 .. MAX_ROTATIONS_ATTEMPTS
    BY <1>16, KeysAssumption, SMT DEF restart, TypeOK, MAX_ROTATIONS_ATTEMPTS
  <2> QED
    BY <1>16, <2>2, <2>3 DEF restart, BootSlots, TypeOK, meta, cloud
<1>17. CASE UNCHANGED vars
  BY <1>17 DEF vars, meta, ram, cloud, bnds, TypeOK
<1> QED
  BY <1>1, <1>2, <1>3, <1>4, <1>5, <1>6, <1>7, <1>8, <1>9, <1>10, <1>11, <1>12, <1>13, <1>14,
     <1>15, <1>16, <1>17 DEF Next, InputStep, ConnectionStep, Save, Tasks

LEMMA InitHolds == Init => IInv
<1> SUFFICES ASSUME Init PROVE IInv
  OBVIOUS
<1>1. TypeOK
  <2>1. /\ 0 \in 0 .. MaxFaults /\ 0 \in 0 .. MaxBoots
        /\ 0 \in 0 .. MAX_ROTATIONS_ATTEMPTS
    BY KeysAssumption, SMT DEF MAX_ROTATIONS_ATTEMPTS
  <2>2. {0} \subseteq Values
    BY ConstantFacts
  <2> QED
    BY <2>1, <2>2, ConstantFacts DEF Init, TypeOK
<1>2. OneAtATime
  BY ConstantFacts DEF Init, OneAtATime, At, Tasks
<1>3. Unstarted
  BY ConstantFacts, KeysAssumption, SMT
  DEF Init, Unstarted, At, MetadataMissing, FirstSlots, MetadataBacked, Backed, RamBacked,
      Unswitched, InValue, MetadataSaved, Settled, AllZero, Tasks, Slots, SlotMap, Values
<1> QED
  BY <1>1, <1>2, <1>3 DEF IInv

LEMMA Exclusion == TypeOK /\ OneAtATime /\ [Next]_vars => OneAtATime'
<1> SUFFICES ASSUME TypeOK, OneAtATime, [Next]_vars PROVE OneAtATime'
  OBVIOUS
<1> USE ConstantFacts DEF OneAtATime, At, Go, Tasks, TypeOK
<1>1. CASE InputStep
  BY <1>1, SMT DEF InputStep, Save, value_erase, value_set, save_current_erase, save_current_set,
                   save_old_erase, save_old_set, initialize_keys_buffers, ram
<1>2. CASE ConnectionStep
  BY <1>2, SMT DEF ConnectionStep, Save, connect, connect_fails, role_forward_failed, Attempt,
                   rolback_key, rolled_back, action_forward_cb, save_current_erase,
                   save_current_set, save_old_erase, save_old_set, ram
<1>3. ASSUME NEW k \in Keys, rotate_key(k) PROVE OneAtATime'
  BY <1>3, SMT DEF rotate_key
<1>4. CASE OrderForward \/ connection_lost
  BY <1>4, SMT DEF OrderForward, action_forward_cb, connection_lost
<1>5. CASE restart
  BY <1>5, SMT DEF restart
<1>6. CASE UNCHANGED vars
  BY <1>6 DEF vars
<1> QED
  BY <1>1, <1>2, <1>3, <1>4, <1>5, <1>6 DEF Next

\* What a step of the input task does to its place, key and slot, and to the other
\* task's.
LEMMA Placed ==
  ASSUME TypedTasks, NEW t \in Tasks, NEW u \in Tasks, NEW place, NEW blob
  PROVE  /\ [task EXCEPT ![t].at = place][u].at = IF u = t THEN place ELSE task[u].at
         /\ [task EXCEPT ![t].at = place][u].key = task[u].key
         /\ [task EXCEPT ![t].at = place][u].slot = task[u].slot
         /\ [task EXCEPT ![t].at = place][u].blob = task[u].blob
         /\ [task EXCEPT ![t].at = place, ![t].blob = blob][u].at
              = IF u = t THEN place ELSE task[u].at
         /\ [task EXCEPT ![t].at = place, ![t].blob = blob][u].key = task[u].key
         /\ [task EXCEPT ![t].at = place, ![t].blob = blob][u].slot = task[u].slot
         /\ [task EXCEPT ![t].at = place, ![t].blob = blob][u].blob
              = IF u = t THEN blob ELSE task[u].blob
  BY DEF TypedTasks, TaskRecord

LEMMA UnstartedStep == IInv /\ [Next]_vars /\ boots' = 0 => Unstarted'
<1> SUFFICES ASSUME IInv, [Next]_vars, boots' = 0 PROVE Unstarted'
  OBVIOUS
<1>t. TypedTasks /\ "input" \in Tasks /\ "connection" \in Tasks /\ "input" # "connection"
  BY DEF IInv, TypeOK, TypedTasks, Tasks
<1>1. ~restart
  BY KeysAssumption, SMT DEF restart, IInv, TypeOK
<1>2. boots = 0
  BY <1>1 DEF Next, InputStep, ConnectionStep, Save, vars, bnds, value_erase, value_set,
     save_current_erase, save_current_set, save_old_erase, save_old_set, initialize_keys_buffers,
     connect, connect_fails, role_forward_failed, rolback_key, rolled_back, rotate_key,
     OrderForward, connection_lost
<1>3. Unstarted /\ OneAtATime /\ TypeOK
  BY <1>2 DEF IInv
<1>a. CASE value_erase
  <2> DEFINE k == task["input"].key
             i == task["input"].slot
  <2>1. k \in Keys /\ i \in Slots /\ At("input", "value")
    BY <1>a, <1>t, TaskFacts DEF value_erase
  <2>2. /\ task'["input"].at = "value_set" /\ task'["input"].key = k /\ task'["input"].slot = i
        /\ task'["connection"] = task["connection"]
        /\ task'["input"].blob = task["input"].blob
    BY <1>a, <1>t, Placed DEF value_erase, Go, TypedTasks
  <2>3. /\ \A x \in Keys, j \in Slots : flash'[x][j] = IF x = k /\ j = i THEN None ELSE flash[x][j]
        /\ keybuf' = keybuf /\ current_used_keys' = current_used_keys
        /\ last_used_keys' = last_used_keys
    BY <1>a, <2>1, <1>3 DEF value_erase, TypeOK, meta, ram
  <2>4. InValue(k, i)
    BY <2>1 DEF InValue, At
  <2>5. keybuf # Absent /\ keybuf[k] = 1 - i /\ current_used_keys[k] = i /\ last_used_keys[k] = 1 - i
    BY <1>3, <2>1, <2>4 DEF Unstarted, Unswitched
  <2>6. MetadataMissing' /\ FirstSlots'
    BY <1>3, <2>1, <2>2, <2>3, <2>5 DEF Unstarted, MetadataMissing, FirstSlots, InValue, At, Slots
  <2>7. MetadataBacked' /\ RamBacked'
    BY <1>3, <2>1, <2>2, <2>3, <2>5, SMT
    DEF Unstarted, MetadataBacked, Backed, RamBacked, InValue, At, Slots
  <2>8. Unswitched' /\ MetadataSaved'
    BY <1>3, <2>1, <2>2, <2>3, <2>5 DEF Unstarted, Unswitched, MetadataSaved, InValue, At, Settled, Tasks
  <2> QED
    BY <2>2, <2>6, <2>7, <2>8 DEF Unstarted, At
<1>b. CASE value_set
  <2> DEFINE k == task["input"].key
             i == task["input"].slot
  <2>1. k \in Keys /\ i \in Slots /\ At("input", "value_set")
    BY <1>b, <1>t, TaskFacts DEF value_set
  <2>2. /\ task'["input"].at = "current" /\ task'["input"].blob = current_used_keys
        /\ task'["connection"] = task["connection"]
    BY <1>b, <1>t, Placed DEF value_set, TypedTasks
  <2>3. /\ \A x \in Keys, j \in Slots : flash'[x][j] = IF x = k /\ j = i THEN issued ELSE flash[x][j]
        /\ keybuf' = keybuf /\ current_used_keys' = current_used_keys
        /\ last_used_keys' = last_used_keys
    BY <1>b, <2>1, <1>3 DEF value_set, TypeOK, meta, ram
  <2>4. InValue(k, i) /\ issued # None /\ 0 \in Slots /\ 1 \in Slots
    BY <2>1, <1>3, ConstantFacts DEF InValue, At, TypeOK, Slots
  <2>5. keybuf # Absent
    BY <1>3, <2>1, <2>4 DEF Unstarted, Unswitched
  <2>6. MetadataMissing' /\ FirstSlots'
    BY <1>3, <2>1, <2>3, <2>4, <2>5 DEF Unstarted, MetadataMissing, FirstSlots, InValue, At
  <2>7. MetadataBacked' /\ RamBacked'
    BY <1>3, <2>1, <2>3, <2>4 DEF Unstarted, MetadataBacked, Backed, RamBacked, InValue
  <2>8. At("connection", "rest")
    BY <1>3, <2>1 DEF OneAtATime, At
  <2>9. Unswitched' /\ MetadataSaved'
    BY <2>2, <2>3, <2>8 DEF Unswitched, MetadataSaved, InValue, At, Settled, Tasks
  <2> QED
    BY <2>2, <2>6, <2>7, <2>9 DEF Unstarted, At
<1>n. ASSUME NEW t \in Tasks, task[t].at \notin {"rest", "value", "value_set"}
      PROVE  /\ \A k \in Keys, i \in Slots : ~InValue(k, i)
             /\ \A u \in Tasks : u # t => At(u, "rest")
             /\ Backed(current_used_keys) /\ Backed(last_used_keys)
  <2>1. /\ t = "input" => At("connection", "rest")
        /\ t = "connection" => At("input", "rest")
    BY <1>3, <1>n DEF OneAtATime, At
  <2>2. \A k \in Keys, i \in Slots : ~InValue(k, i)
    BY <1>n, <2>1 DEF InValue, At, Tasks
  <2>3. Backed(current_used_keys) /\ Backed(last_used_keys)
    BY <1>3, <2>2 DEF Unstarted, RamBacked, Backed, Slots
  <2> QED
    BY <2>1, <2>2, <2>3 DEF Tasks
<1>c. ASSUME NEW t \in Tasks, save_current_erase(t) PROVE Unstarted'
  <2>1. At(t, "current") /\ keybuf' = Absent
        /\ UNCHANGED <<flash, current_used_keys, last_used_keys>>
    BY <1>c DEF save_current_erase, ram
  <2>2. /\ \A u \in Tasks : task'[u].at = IF u = t THEN "current_set" ELSE task[u].at
        /\ \A u \in Tasks : task'[u].blob = task[u].blob
    BY <1>c, <1>t, Placed DEF save_current_erase, Go
  <2>3. \A u \in Tasks : u # t => At(u, "rest")
    BY <1>n, <2>1 DEF At
  <2>4. \A k \in Keys, i \in Slots : ~InValue(k, i)
    BY <1>n, <2>1 DEF At
  <2>5. Backed(current_used_keys) /\ Backed(last_used_keys)
    BY <1>n, <2>1 DEF At
  <2>6. MetadataMissing' /\ MetadataBacked' /\ ~At("input", "boot")'
    BY <1>t, <2>1, <2>2, <2>3 DEF MetadataMissing, MetadataBacked, At, Tasks
  <2>7. FirstSlots' /\ RamBacked'
    BY <1>3, <2>1, <2>4, <2>5 DEF Unstarted, FirstSlots, RamBacked, Backed, Slots
  <2>8. Unswitched' /\ MetadataSaved'
    BY <1>3, <1>t, <2>1, <2>2, <2>3
    DEF Unstarted, Unswitched, MetadataSaved, InValue, At, Settled, Tasks
  <2> QED
    BY <2>6, <2>7, <2>8 DEF Unstarted
<1>d. ASSUME NEW t \in Tasks, save_current_set(t) PROVE Unstarted'
  <2>1. At(t, "current_set") /\ keybuf' = task[t].blob
        /\ UNCHANGED <<flash, current_used_keys, last_used_keys>>
    BY <1>d DEF save_current_set, ram
  <2>2. \A u \in Tasks : task'[u].at = IF u = t THEN "last" ELSE task[u].at
    <3>1. task' = [task EXCEPT ![t].at = "last", ![t].blob = last_used_keys]
      BY <1>d DEF save_current_set
    <3>2. ASSUME NEW u \in Tasks
          PROVE  task'[u].at = IF u = t THEN "last" ELSE task[u].at
      BY <1>t, <3>1 DEF TypedTasks, TaskRecord
    <3> QED
      BY <3>2
  <2>3. \A u \in Tasks : u # t => At(u, "rest")
    BY <1>n, <2>1 DEF At
  <2>4. \A k \in Keys, i \in Slots : ~InValue(k, i)
    BY <1>n, <2>1 DEF At
  <2>5. Backed(current_used_keys) /\ Backed(last_used_keys)
    BY <1>n, <2>1 DEF At
  <2>6. keybuf' = current_used_keys /\ keybuf' # Absent
    BY <1>3, <2>1, ConstantFacts DEF Unstarted, MetadataSaved, At, TypeOK
  <2>7. MetadataMissing' /\ MetadataBacked' /\ ~At("input", "boot")'
    BY <1>t, <2>1, <2>2, <2>3, <2>5, <2>6
    DEF MetadataMissing, MetadataBacked, Backed, At, Tasks
  <2>8. FirstSlots' /\ RamBacked'
    BY <1>3, <2>1, <2>4, <2>5 DEF Unstarted, FirstSlots, RamBacked, Backed, Slots
  <2>9. Unswitched' /\ MetadataSaved'
    BY <1>t, <2>1, <2>2, <2>3, <2>6 DEF Unswitched, MetadataSaved, InValue, At, Settled, Tasks
  <2> QED
    BY <2>7, <2>8, <2>9 DEF Unstarted
<1>e. ASSUME NEW t \in Tasks, save_old_erase(t) \/ save_old_set(t) PROVE Unstarted'
  <2>1. task[t].at \in {"last", "last_set"}
        /\ UNCHANGED <<flash, keybuf, current_used_keys, last_used_keys>>
    BY <1>e DEF save_old_erase, save_old_set, At, ram
  <2>2. /\ task'[t].at \in {"rest", "last_set", "roll"}
        /\ \A u \in Tasks : u # t => task'[u] = task[u]
    <3>1. CASE save_old_erase(t)
      BY <1>t, <3>1, Placed DEF save_old_erase, Go, TypedTasks
    <3>2. CASE save_old_set(t)
      <4>1. task' = [task EXCEPT ![t] = Rest] \/ task' = [task EXCEPT ![t].at = "roll"]
        BY <3>2 DEF save_old_set, Go
      <4>2. CASE task' = [task EXCEPT ![t] = Rest]
        BY <1>t, <4>2, ConstantFacts DEF TypedTasks
      <4>3. CASE task' = [task EXCEPT ![t].at = "roll"]
        BY <1>t, <4>3, Placed DEF TypedTasks
      <4> QED
        BY <4>1, <4>2, <4>3
    <3> QED
      BY <1>e, <3>1, <3>2
  <2>3. \A u \in Tasks : u # t => At(u, "rest")
    BY <1>n, <2>1
  <2>4. \A k \in Keys, i \in Slots : ~InValue(k, i)
    BY <1>n, <2>1
  <2>5. Backed(current_used_keys) /\ Backed(last_used_keys)
    BY <1>n, <2>1
  <2>6. keybuf = current_used_keys /\ keybuf # Absent
    BY <1>3, <1>t, <2>1, <2>3, ConstantFacts DEF Unstarted, MetadataSaved, At, TypeOK, Settled, Tasks
  <2>7. MetadataMissing' /\ MetadataBacked' /\ ~At("input", "boot")'
    BY <1>t, <2>1, <2>2, <2>3, <2>5, <2>6
    DEF MetadataMissing, MetadataBacked, Backed, At, Tasks
  <2>8. FirstSlots' /\ RamBacked'
    BY <1>3, <2>1, <2>4, <2>5 DEF Unstarted, FirstSlots, RamBacked, Backed, Slots
  <2>9. Unswitched' /\ MetadataSaved'
    BY <1>t, <2>1, <2>2, <2>3, <2>6 DEF Unswitched, MetadataSaved, InValue, At, Settled, Tasks
  <2> QED
    BY <2>7, <2>8, <2>9 DEF Unstarted
<1>f. CASE initialize_keys_buffers
  BY <1>3, <1>f DEF initialize_keys_buffers, Unstarted
<1>g. CASE UNCHANGED <<flash, keybuf, current_used_keys, last_used_keys, task>>
  BY <1>3, <1>g DEF Unstarted, MetadataMissing, FirstSlots, MetadataBacked, Backed, RamBacked,
                    Unswitched, InValue, MetadataSaved, At
\* The connection task begins its rollback, or is done with it.
<1>h. ASSUME UNCHANGED <<flash, keybuf, current_used_keys, last_used_keys>>,
             At("input", "rest"), task["connection"].at \in {"rest", "roll"},
             task'["connection"].at \in {"rest", "roll"}, task'["input"] = task["input"]
      PROVE  Unstarted'
  BY <1>3, <1>h DEF Unstarted, MetadataMissing, FirstSlots, MetadataBacked, Backed, RamBacked,
                    Unswitched, InValue, MetadataSaved, At, Settled, Tasks
<1>i. CASE connect \/ connect_fails \/ OrderForward \/ connection_lost \/ UNCHANGED vars
  BY <1>i, <1>g DEF connect, connect_fails, OrderForward, connection_lost, vars, meta, ram
<1>j. CASE role_forward_failed
  <2>1. CASE UNCHANGED task
    BY <1>j, <1>g, <2>1 DEF role_forward_failed, meta
  <2>2. CASE ~UNCHANGED task
    <3>1. /\ At("input", "rest") /\ At("connection", "rest")
          /\ task' = [task EXCEPT !["connection"] = [Rest EXCEPT !.at = "roll", !.todo = Keys]]
      BY <1>j, <2>2 DEF role_forward_failed, Attempt
    <3>2. [Rest EXCEPT !.at = "roll", !.todo = Keys].at = "roll"
      BY DEF Rest
    <3>3. task'["connection"].at = "roll" /\ task'["input"] = task["input"]
      BY <1>t, <3>1, <3>2 DEF TypedTasks
    <3> QED
      BY <1>j, <1>h, <3>1, <3>3 DEF role_forward_failed, At, meta
  <2> QED
    BY <2>1, <2>2
<1>k. CASE rolled_back
  <2>1. /\ task'["connection"].at = "rest" /\ task'["input"] = task["input"]
        /\ task["connection"].at = "roll"
    BY <1>k, <1>t, ConstantFacts DEF rolled_back, TypedTasks, At
  <2>2. At("input", "rest")
    BY <1>3, <2>1 DEF OneAtATime, At
  <2> QED
    BY <1>k, <1>h, <2>1, <2>2 DEF rolled_back, meta
<1>l. ASSUME NEW k \in Keys, rolback_key(k) PROVE Unstarted'
  <2>1. /\ At("connection", "roll") /\ UNCHANGED <<flash, keybuf>>
        /\ \A x \in Keys : /\ current_used_keys'[x] \in {current_used_keys[x], last_used_keys[x]}
                           /\ last_used_keys'[x] \in {current_used_keys[x], last_used_keys[x]}
    BY <1>l, <1>3 DEF rolback_key, meta, TypeOK, SlotMap
  <2>2. /\ task'["connection"].at = "current" /\ task'["connection"].blob = current_used_keys'
        /\ task'["input"] = task["input"]
    <3> DEFINE r == task["connection"]
               s == [r EXCEPT !.at = "current", !.blob = current_used_keys', !.todo = @ \ {k}]
    <3>1. s.at = "current" /\ s.blob = current_used_keys'
      BY <1>t DEF TypedTasks, TaskRecord
    <3>2. task' = [task EXCEPT !["connection"] = s]
      BY <1>l DEF rolback_key
    <3> QED
      BY <1>t, <3>1, <3>2 DEF TypedTasks
  <2>3. At("input", "rest")
    BY <1>3, <2>1 DEF OneAtATime, At
  <2>4. \A x \in Keys, i \in Slots : ~InValue(x, i)
    BY <2>3 DEF InValue, At
  <2>5. Backed(current_used_keys) /\ Backed(last_used_keys)
    BY <1>n, <1>t, <2>1 DEF At
  <2>6. keybuf # Absent /\ Backed(keybuf)
    BY <1>3, <2>1, <2>3, <2>5, ConstantFacts DEF Unstarted, MetadataSaved, At, TypeOK, Settled
  <2>7. MetadataMissing' /\ MetadataBacked' /\ ~At("input", "boot")'
    BY <2>1, <2>2, <2>3, <2>6 DEF MetadataMissing, MetadataBacked, Backed, At
  <2>8. FirstSlots' /\ RamBacked'
    <3>1. Backed(current_used_keys)' /\ Backed(last_used_keys)'
      BY <2>1, <2>5 DEF Backed
    <3>2. FirstSlots'
      BY <1>3, <2>1, <2>4 DEF Unstarted, FirstSlots, Slots
    <3> QED
      BY <3>1, <3>2 DEF RamBacked, Backed
  <2>9. Unswitched' /\ MetadataSaved'
    BY <2>2, <2>3 DEF Unswitched, MetadataSaved, InValue, At, Settled, Tasks
  <2> QED
    BY <2>7, <2>8, <2>9 DEF Unstarted
<1>m. ASSUME NEW k \in Keys, rotate_key(k) PROVE Unstarted'
  <2> DEFINE i == 1 - current_used_keys[k]
             s == [Rest EXCEPT !.at = "value", !.key = k, !.slot = i]
  <2>1. /\ online /\ At("input", "rest") /\ UNCHANGED <<flash, keybuf>>
        /\ current_used_keys[k] \in Slots
    BY <1>m, <1>3 DEF rotate_key, meta, TypeOK, SlotMap
  <2>2. /\ current_used_keys'[k] = i /\ last_used_keys'[k] = current_used_keys[k]
        /\ \A x \in Keys \ {k} : /\ current_used_keys'[x] = current_used_keys[x]
                                 /\ last_used_keys'[x] = last_used_keys[x]
    BY <1>m, <1>3 DEF rotate_key, TypeOK, SlotMap
  <2>3. s.at = "value" /\ s.key = k /\ s.slot = i
    BY DEF Rest
  <2>4. task'["input"] = s /\ task'["connection"] = task["connection"]
    BY <1>m, <1>t DEF rotate_key, TypedTasks
  <2>5. At("connection", "rest")
    BY <1>3, <2>1 DEF OneAtATime
  <2>6. \A x \in Keys, j \in Slots : ~InValue(x, j)
    BY <2>1 DEF InValue, At
  <2>7. Backed(current_used_keys) /\ Backed(last_used_keys)
    BY <1>3, <2>6 DEF Unstarted, RamBacked, Backed, Slots
  <2>8. keybuf = current_used_keys /\ keybuf # Absent
    BY <1>3, <2>1, <2>5, ConstantFacts DEF Unstarted, MetadataSaved, At, TypeOK, Settled
  <2>9. \A x \in Keys, j \in Slots : InValue(x, j)' <=> x = k /\ j = i
    BY <2>3, <2>4 DEF InValue
  <2>10. MetadataMissing' /\ MetadataBacked' /\ ~At("input", "boot")'
    BY <2>1, <2>3, <2>4, <2>7, <2>8 DEF MetadataMissing, MetadataBacked, Backed, At
  <2>11. FirstSlots' /\ RamBacked'
    <3>1. FirstSlots'
      BY <1>3, <2>1, <2>6 DEF Unstarted, FirstSlots, Slots
    <3>2. RamBacked'
      BY <2>1, <2>2, <2>7, <2>9 DEF RamBacked, Backed, Slots
    <3> QED
      BY <3>1, <3>2
  <2>12. Unswitched'
    <3>1. current_used_keys[k] = 1 - i
      BY <2>1, SMT DEF Slots
    <3> QED
      BY <2>1, <2>2, <2>8, <2>9, <3>1 DEF Unswitched
  <2>13. MetadataSaved'
    BY <2>3, <2>4, <2>5 DEF MetadataSaved, At, Settled, Tasks
  <2> QED
    BY <2>10, <2>11, <2>12, <2>13 DEF Unstarted
<1> QED
  BY <1>1, <1>a, <1>b, <1>c, <1>d, <1>e, <1>f, <1>i, <1>j, <1>k, <1>l, <1>m
  DEF Next, InputStep, ConnectionStep, Save, Tasks

\* Every state of every behaviour has its type, for any keys and any bounds.
THEOREM TypeCorrect == Spec => []TypeOK
<1>1. Init => TypeOK
  BY InitHolds DEF IInv
<1>2. TypeOK /\ [Next]_vars => TypeOK'
  BY TypeInvariant
<1> QED
  BY <1>1, <1>2, PTL DEF Spec

LEMMA Invariant == Spec => []IInv
<1>1. IInv /\ [Next]_vars => IInv'
  BY TypeInvariant, Exclusion, UnstartedStep DEF IInv
<1> QED
  BY <1>1, InitHolds, PTL DEF Spec

\* The first restart, wherever it cuts a rotation or a rollback, leaves a value
\* for every key in use: drv_nvs_set may be cut between its erasure and its
\* setting, and initialize_keys_buffers may fall back on slot 0.
THEOREM FirstRestartComplete == Spec => FirstRestart
<1>1. IInv /\ [Next]_vars => (boots = 0 /\ boots' = 1 => ~Incomplete')
  <2> SUFFICES ASSUME IInv, [Next]_vars, boots = 0, boots' = 1 PROVE ~Incomplete'
    OBVIOUS
  <2>1. restart
    BY SMT DEF Next, InputStep, ConnectionStep, Save, vars, bnds, value_erase, value_set,
       save_current_erase, save_current_set, save_old_erase, save_old_set,
       initialize_keys_buffers, connect, connect_fails, role_forward_failed, rolback_key,
       rolled_back, rotate_key, OrderForward, connection_lost
  <2>2. TypeOK /\ Unstarted
    BY DEF IInv
  <2>3. current_used_keys' = BootSlots /\ flash' = flash
    BY <2>1 DEF restart
  <2>4. ASSUME NEW k \in Keys PROVE flash[k][BootSlots[k]] # None
    <3>1. CASE keybuf = Absent
      <4>1. ~At("input", "value_set") /\ BootSlots[k] = 0
        <5>1. CASE At("input", "current_set")
          BY <3>1, <5>1 DEF At, BootSlots, AllZero
        <5>2. CASE At("connection", "current_set")
          BY <2>2, <3>1, <5>2 DEF IInv, OneAtATime, At, BootSlots, AllZero
        <5> QED
          BY <2>2, <3>1, <5>1, <5>2 DEF Unstarted, MetadataMissing
      <4> QED
        BY <2>2, <4>1 DEF Unstarted, FirstSlots
    <3>2. CASE keybuf # Absent
      <4>1. BootSlots[k] = keybuf[k] /\ keybuf[k] \in Slots
        BY <2>2, <3>2 DEF BootSlots, TypeOK, SlotMap
      <4>2. CASE keybuf[k] = 1
        BY <2>2, <3>2, <4>1, <4>2 DEF Unstarted, MetadataBacked, Backed
      <4>3. CASE keybuf[k] = 0
        <5>1. ~InValue(k, 0)
          BY <2>2, <4>3, SMT DEF Unstarted, Unswitched, Slots
        <5> QED
          BY <2>2, <4>1, <4>3, <5>1 DEF Unstarted, FirstSlots
      <4> QED
        BY <4>1, <4>2, <4>3 DEF Slots
    <3> QED
      BY <3>1, <3>2
  <2> QED
    BY <2>3, <2>4 DEF Incomplete
<1> QED
  BY <1>1, Invariant, PTL DEF Spec, FirstRestart
-----------------------------------------------------------------------------
(* The way back: the values of the last connection are in flash.           *)

\* The slot of k the input task is about to write, or is writing.
Held(k)  == task["input"].at \in {"value", "value_set"} /\ task["input"].key = k
Other(k) == flash[k][1 - current_used_keys[k]]
InUse(k) == flash[k][current_used_keys[k]]

OneSet == \E g \in Values : \A k \in Keys : proven[k] = g

\* Online, every key in use is proven, or new, or about to be.
OnlineKeys ==
  online => /\ buffers = proven
            /\ \A k \in Keys : \/ Held(k) \/ InUse(k) = proven[k]
                               \/ k \in sent /\ InUse(k) = issued

\* The slot written is in use already; the other one is proven, and all that a
\* connection could be made with before the write is that other value: the keys
\* beside are new, and this one is not, or of the same set.
HeldKept ==
  \A k \in Keys : Held(k) => task["input"].slot = current_used_keys[k] /\ k \in sent
                             /\ Other(k) = proven[k]
Rewriting ==
  \A k \in Keys : Held(k) /\ At("input", "value") =>
    /\ buffers[k] = Other(k) \/ InUse(k) # None
    /\ \A l \in Keys : l # k => InUse(l) = issued \/ InUse(l) = Other(k)

\* A key that is still to be sent or written does not have the new value.
Unwritten ==
  sent # {} => \A k \in Keys, i \in Slots :
                 k \notin sent \/ (Held(k) /\ At("input", "value")) => flash[k][i] # issued
NotAhead == \A k \in Keys, i \in Slots : flash[k][i] # None => flash[k][i] <= issued

\* What was loaded once is still there to load; a key rotated has both values.
Buffered == \A k \in Keys : buffers[k] # None => Held(k) \/ InUse(k) # None
Saving == {"current", "current_set", "last", "last_set"}
Rotated ==
  \A k \in Keys, i \in Slots :
    /\ k \in rol_status => flash[k][i] # None \/ Held(k)
    /\ task["input"].at \in Saving /\ task["input"].key = k => flash[k][i] # None

Kept == /\ OneSet /\ OnlineKeys /\ HeldKept /\ Rewriting /\ Unwritten
        /\ NotAhead /\ Buffered /\ Rotated /\ ProvenKept

KeptInv == TypeOK /\ OneAtATime /\ Kept

\* A step that touches no slot, no value and no connection.
LEMMA QuietStep ==
  ASSUME KeptInv,
         UNCHANGED <<flash, current_used_keys, buffers, proven, issued>>,
         sent' = sent \/ (sent' = {} /\ ~online'),
         online' => online,
         \A k \in Keys : Held(k)' <=> Held(k),
         At("input", "value")' <=> At("input", "value"),
         \A k \in Keys : Held(k) => task'["input"].slot = task["input"].slot /\ sent' = sent,
         rol_status' \subseteq rol_status
           \cup {k \in Keys : task["input"].at \in Saving /\ task["input"].key = k},
         task'["input"].at \in Saving => task["input"].at \in Saving
                                         /\ task'["input"].key = task["input"].key
  PROVE  Kept'
<1>1. OneSet' /\ NotAhead' /\ ProvenKept'
  BY DEF KeptInv, Kept, OneSet, NotAhead, ProvenKept
<1>2. \A k \in Keys : InUse(k)' = InUse(k) /\ Other(k)' = Other(k)
  BY DEF InUse, Other
<1>3. OnlineKeys' /\ Buffered'
  BY <1>2 DEF KeptInv, Kept, OnlineKeys, Buffered
<1>4. HeldKept'
  BY <1>2 DEF KeptInv, Kept, HeldKept
<1>5. Rewriting'
  BY <1>2 DEF KeptInv, Kept, Rewriting
<1>6. Unwritten'
  BY DEF KeptInv, Kept, Unwritten
<1>7. Rotated'
  BY DEF KeptInv, Kept, Rotated
<1> QED
  BY <1>1, <1>3, <1>4, <1>5, <1>6, <1>7 DEF Kept

\* A value is in flash or not, and a number when it is.
LEMMA ValueFacts ==
  ASSUME TypeOK, NEW k \in Keys
  PROVE  /\ current_used_keys[k] \in Slots /\ last_used_keys[k] \in Slots
         /\ 1 - current_used_keys[k] \in Slots
         /\ 1 - current_used_keys[k] # current_used_keys[k]
         /\ \A i \in Slots : i = current_used_keys[k] \/ i = 1 - current_used_keys[k]
         /\ \A i \in Slots : flash[k][i] \in Nat \cup {None}
         /\ issued \in Nat /\ None \notin Nat
<1>1. current_used_keys[k] \in {0, 1} /\ last_used_keys[k] \in {0, 1}
  BY DEF TypeOK, SlotMap, Slots
<1>2. \A i \in Slots : flash[k][i] \in Values \cup {None}
  BY DEF TypeOK
<1>3. issued \in Nat /\ None \notin Nat /\ Values \subseteq Nat
  BY KeysAssumption DEF TypeOK, Values
<1>4. /\ 1 - current_used_keys[k] \in {0, 1} /\ 1 - current_used_keys[k] # current_used_keys[k]
      /\ \A i \in {0, 1} : i = current_used_keys[k] \/ i = 1 - current_used_keys[k]
  BY <1>1
<1> QED
  BY <1>1, <1>2, <1>3, <1>4 DEF Slots

\* The erasure of a value: the proven one is in the other slot.
LEMMA EraseKeeps ==
  ASSUME KeptInv, value_erase
  PROVE  Kept'
<1>t. TypedTasks /\ "input" \in Tasks
  BY DEF KeptInv, Kept, TypeOK, TypedTasks, Tasks
<1>k. PICK k \in Keys : k = task["input"].key
  BY <1>t, TaskFacts
<1> DEFINE i == current_used_keys[k]
<1>1. k \in Keys /\ Held(k) /\ At("input", "value") /\ task["input"].slot = i
  BY <1>k DEF value_erase, Held, At, KeptInv, Kept, HeldKept
<1>2. /\ task'["input"].at = "value_set" /\ task'["input"].key = k /\ task'["input"].slot = i
  BY <1>k, <1>t, <1>1, Placed DEF value_erase, Go, TypedTasks
<1>3. \A x \in Keys : Held(x)' <=> x = k
  BY <1>2 DEF Held
<1>4. \A x \in Keys : Held(x) => x = k
  BY <1>k DEF Held
<1>5. \A x \in Keys, j \in Slots : flash'[x][j] = IF x = k /\ j = i THEN None ELSE flash[x][j]
  BY <1>1, <1>k DEF value_erase, KeptInv, TypeOK
<1>6. UNCHANGED <<current_used_keys, buffers, proven, issued, sent, online, rol_status>>
  BY DEF value_erase, ram, cloud
<1>7. \A x \in Keys : Other(x)' = Other(x) /\ (x # k => InUse(x)' = InUse(x))
  BY <1>5, <1>6, ValueFacts DEF KeptInv, Kept, Other, InUse
<1>8. OneSet' /\ OnlineKeys'
  BY <1>1, <1>3, <1>4, <1>6, <1>7 DEF KeptInv, Kept, OneSet, OnlineKeys
<1>9. HeldKept' /\ Rewriting'
  BY <1>1, <1>2, <1>3, <1>6, <1>7 DEF KeptInv, Kept, HeldKept, Rewriting, At
<1>10. Unwritten' /\ NotAhead'
  BY <1>1, <1>2, <1>3, <1>4, <1>5, <1>6, ValueFacts DEF KeptInv, Kept, Unwritten, NotAhead, At
<1>11. Buffered' /\ Rotated'
  BY <1>1, <1>2, <1>3, <1>4, <1>5, <1>6, <1>7 DEF KeptInv, Kept, Buffered, Rotated, Saving
<1>12. ProvenKept'
  <2>1. ASSUME NEW x \in Keys, x # k PROVE \E j \in Slots : flash'[x][j] = proven'[x]
    BY <1>5, <1>6, <2>1 DEF KeptInv, Kept, ProvenKept
  <2>2. flash'[k][1 - i] = proven'[k] /\ 1 - i \in Slots
    BY <1>1, <1>6, <1>7, ValueFacts DEF KeptInv, Kept, HeldKept, Other
  <2> QED
    BY <2>1, <2>2 DEF ProvenKept
<1> QED
  BY <1>8, <1>9, <1>10, <1>11, <1>12 DEF Kept

\* The setting of a value: it is new, and its key is sent.
LEMMA SetKeeps ==
  ASSUME KeptInv, value_set
  PROVE  Kept'
<1>t. TypedTasks /\ "input" \in Tasks
  BY DEF KeptInv, Kept, TypeOK, TypedTasks, Tasks
<1>k. PICK k \in Keys : k = task["input"].key
  BY <1>t, TaskFacts
<1> DEFINE i == current_used_keys[k]
<1>1. k \in Keys /\ Held(k) /\ task["input"].slot = i /\ k \in sent
  BY <1>k DEF value_set, Held, At, KeptInv, Kept, HeldKept
<1>2. task'["input"].at = "current" /\ task'["input"].key = k
  BY <1>k, <1>t, <1>1, Placed DEF value_set, Go, TypedTasks
<1>3. \A x \in Keys : ~Held(x)'
  BY <1>2 DEF Held
<1>4. \A x \in Keys : Held(x) => x = k
  BY <1>k DEF Held
<1>5. \A x \in Keys, j \in Slots : flash'[x][j] = IF x = k /\ j = i THEN issued ELSE flash[x][j]
  BY <1>1, <1>k DEF value_set, KeptInv, TypeOK
<1>6. UNCHANGED <<current_used_keys, buffers, proven, issued, sent, online, rol_status>>
  BY DEF value_set, ram, cloud
<1>7. \A x \in Keys : Other(x)' = Other(x) /\ (x # k => InUse(x)' = InUse(x))
  BY <1>5, <1>6, ValueFacts DEF KeptInv, Kept, Other, InUse
<1>8. InUse(k)' = issued /\ issued \in Nat /\ None \notin Nat
  <2>1. i \in Slots /\ issued \in Nat /\ None \notin Nat
    BY <1>1, ValueFacts DEF KeptInv, Kept
  <2>2. flash'[k][i] = issued
    BY <1>1, <1>5, <2>1
  <2> QED
    BY <1>6, <2>1, <2>2 DEF InUse
<1>9. OneSet' /\ OnlineKeys'
  BY <1>1, <1>4, <1>6, <1>7, <1>8 DEF KeptInv, Kept, OneSet, OnlineKeys
<1>r. HeldKept' /\ Rewriting'
  BY <1>3 DEF HeldKept, Rewriting
<1>10. Unwritten' /\ NotAhead'
  BY <1>1, <1>2, <1>3, <1>4, <1>5, <1>6, <1>8 DEF KeptInv, Kept, Unwritten, NotAhead, At
<1>11. Buffered'
  <2>1. ASSUME NEW x \in Keys, x # k, buffers'[x] # None PROVE InUse(x)' # None
    BY <1>4, <1>6, <1>7, <2>1 DEF KeptInv, Kept, Buffered
  <2>2. InUse(k)' # None
    BY <1>8
  <2> QED
    BY <2>1, <2>2 DEF Buffered
<1>o. Other(k) = proven[k] /\ proven[k] # None /\ 1 - i \in Slots
  BY <1>1, ConstantFacts, ValueFacts DEF KeptInv, Kept, HeldKept, OneSet
<1>12. Rotated'
  <2>1. \A j \in Slots : flash'[k][j] # None
    BY <1>1, <1>5, <1>8, <1>o, ValueFacts DEF KeptInv, Kept, Other
  <2> QED
    BY <1>2, <1>4, <1>5, <1>6, <1>8, <2>1 DEF KeptInv, Kept, Rotated, Saving
<1>13. ProvenKept'
  <2>1. ASSUME NEW x \in Keys, x # k PROVE \E j \in Slots : flash'[x][j] = proven'[x]
    BY <1>5, <1>6, <2>1 DEF KeptInv, Kept, ProvenKept
  <2>2. flash'[k][1 - i] = proven'[k] /\ 1 - i \in Slots
    BY <1>1, <1>6, <1>7, <1>o DEF Other
  <2> QED
    BY <2>1, <2>2 DEF ProvenKept
<1> QED
  BY <1>9, <1>r, <1>10, <1>11, <1>12, <1>13 DEF Kept

\* A rotation begins: the key leaves the proven slot, which is now the other one.
LEMMA RotateKeeps ==
  ASSUME KeptInv, NEW k \in Keys, rotate_key(k)
  PROVE  Kept'
<1> DEFINE i == current_used_keys[k]
           s == [Rest EXCEPT !.at = "value", !.key = k, !.slot = 1 - i]
<1>t. TypedTasks /\ "input" \in Tasks
  BY DEF KeptInv, Kept, TypeOK, TypedTasks, Tasks
<1>1. /\ online /\ At("input", "rest") /\ k \notin sent
      /\ UNCHANGED <<flash, buffers, online, proven, rol_status>>
      /\ sent' = sent \cup {k}
      /\ issued' = IF sent = {} THEN issued + 1 ELSE issued
  BY DEF rotate_key, Send
<1>2. /\ current_used_keys'[k] = 1 - i
      /\ \A x \in Keys : x # k => current_used_keys'[x] = current_used_keys[x]
  BY DEF rotate_key, KeptInv, TypeOK, SlotMap
<1>3. s.at = "value" /\ s.key = k /\ s.slot = 1 - i
  BY DEF Rest
<1>4. task'["input"] = s
  BY <1>t DEF rotate_key, TypedTasks
<1>5. At("input", "value")' /\ \A x \in Keys : Held(x)' <=> x = k
  BY <1>3, <1>4 DEF At, Held
<1>6. \A x \in Keys : ~Held(x)
  BY <1>1 DEF At, Held
<1>7. \A x \in Keys : x # k => InUse(x)' = InUse(x)
  BY <1>1, <1>2 DEF InUse
<1>8. Other(k)' = InUse(k)
  <2>1. 1 - (1 - i) = i
    BY ValueFacts DEF KeptInv, Kept, Slots
  <2> QED
    BY <1>1, <1>2, <2>1 DEF Other, InUse
<1>9. /\ \A x \in Keys : InUse(x) = proven[x] \/ (x \in sent /\ InUse(x) = issued)
      /\ InUse(k) = proven[k] /\ buffers[k] = proven[k]
  BY <1>1, <1>6 DEF KeptInv, Kept, OnlineKeys
<1>10. OneSet' /\ ProvenKept'
  BY <1>1 DEF KeptInv, Kept, OneSet, ProvenKept
<1>11. OnlineKeys'
  <2>1. ASSUME NEW x \in Keys, x # k
        PROVE  InUse(x)' = proven'[x] \/ (x \in sent' /\ InUse(x)' = issued')
    BY <1>1, <1>7, <1>9, <2>1
  <2> QED
    BY <1>1, <1>5, <2>1 DEF KeptInv, Kept, OnlineKeys
<1>12. HeldKept'
  BY <1>1, <1>2, <1>3, <1>4, <1>5, <1>8, <1>9 DEF HeldKept
<1>13. Rewriting'
  <2>1. buffers'[k] = Other(k)'
    BY <1>1, <1>8, <1>9
  <2>2. ASSUME NEW x \in Keys, x # k PROVE InUse(x)' = issued' \/ InUse(x)' = Other(k)'
    <3>1. CASE InUse(x) = proven[x]
      BY <1>7, <1>8, <1>9, <2>2, <3>1 DEF KeptInv, Kept, OneSet
    <3>2. CASE x \in sent /\ InUse(x) = issued
      BY <1>1, <1>7, <2>2, <3>2
    <3> QED
      BY <1>9, <3>1, <3>2
  <2> QED
    BY <1>5, <2>1, <2>2 DEF Rewriting
<1>14. Unwritten'
  <2>1. ASSUME NEW x \in Keys, NEW j \in Slots, x \notin sent' \/ x = k
        PROVE  flash[x][j] # issued'
    <3>1. x \notin sent
      BY <1>1, <2>1
    <3>2. CASE sent # {}
      BY <1>1, <3>1, <3>2 DEF KeptInv, Kept, Unwritten
    <3>3. CASE sent = {}
      <4>1. issued' = issued + 1 /\ issued \in Nat /\ None \notin Nat
        BY <1>1, <3>3, ValueFacts DEF KeptInv, Kept
      <4>2. flash[x][j] # None => flash[x][j] <= issued /\ flash[x][j] \in Nat
        BY ValueFacts DEF KeptInv, Kept, NotAhead
      <4> QED
        BY <4>1, <4>2
    <3> QED
      BY <3>2, <3>3
  <2> QED
    BY <1>1, <1>5, <2>1 DEF Unwritten
<1>15. NotAhead'
  <2>1. ASSUME NEW x \in Keys, NEW j \in Slots, flash[x][j] # None PROVE flash[x][j] <= issued'
    <3>1. flash[x][j] \in Nat /\ flash[x][j] <= issued /\ issued \in Nat
      BY <2>1, ValueFacts DEF KeptInv, Kept, NotAhead
    <3> QED
      BY <1>1, <3>1
  <2> QED
    BY <1>1, <2>1 DEF NotAhead
<1>16. Buffered'
  BY <1>1, <1>5, <1>6, <1>7 DEF KeptInv, Kept, Buffered
<1>17. Rotated'
  BY <1>1, <1>3, <1>4, <1>6 DEF KeptInv, Kept, Rotated, Saving
<1> QED
  BY <1>10, <1>11, <1>12, <1>13, <1>14, <1>15, <1>16, <1>17 DEF Kept

\* What an attempt loads is in flash: a key whose slot is empty has only the value
\* it had before.
LEMMA LoadedKept ==
  ASSUME KeptInv, Attempt
  PROVE  /\ \A k \in Keys : ~Held(k) /\ load_keys[k] # None => InUse(k) = load_keys[k]
         /\ \A k \in Keys : Held(k) => /\ At("input", "value")
                                       /\ InUse(k) = None => load_keys[k] = Other(k)
         /\ \A k \in Keys : InUse(k) # None => load_keys[k] = InUse(k)
<1>1. \A k \in Keys : load_keys[k] = IF InUse(k) = None THEN buffers[k] ELSE InUse(k)
  BY DEF load_keys, InUse
<1>2. \A k \in Keys : Held(k) => At("input", "value")
  BY DEF Attempt, Free, Writing, Held, At, Tasks
<1>3. ASSUME NEW k \in Keys, ~Held(k), load_keys[k] # None PROVE InUse(k) = load_keys[k]
  BY <1>1, <1>3 DEF KeptInv, Kept, Buffered
<1>4. ASSUME NEW k \in Keys, Held(k), InUse(k) = None PROVE load_keys[k] = Other(k)
  BY <1>1, <1>2, <1>4 DEF KeptInv, Kept, Rewriting
<1> QED
  BY <1>1, <1>2, <1>3, <1>4

\* The buffers after an attempt, whatever becomes of it.
LEMMA AttemptBuffers ==
  ASSUME KeptInv, Attempt
  PROVE  /\ \A k \in Keys : load_keys[k] # None => Held(k) \/ InUse(k) # None
         /\ \A k \in Keys : Held(k) => load_keys[k] = Other(k) \/ InUse(k) # None
  BY LoadedKept

\* A connection is made with one set of keys; of a key about to be written, it is the
\* one in the other slot.
LEMMA ConnectLoads ==
  ASSUME KeptInv, connect
  PROVE  /\ \E g \in Values : \A k \in Keys : load_keys[k] = g
         /\ \A k \in Keys : Held(k) => Other(k) = load_keys[k]
         /\ \A k \in Keys : ~Held(k) => InUse(k) = load_keys[k]
<1>1. PICK g \in good : \A k \in Keys : load_keys[k] = g
  BY DEF connect, Accepted
<1>2. g \in Values /\ g # None
  BY ConstantFacts DEF KeptInv, Kept, TypeOK
<1>3. Attempt
  BY DEF connect
<1>4. ASSUME NEW k \in Keys, Held(k) PROVE Other(k) = g
  <2>1. CASE InUse(k) = None
    BY <1>1, <1>3, <1>4, <2>1, LoadedKept
  <2>2. CASE InUse(k) # None
    <3>1. InUse(k) = g /\ At("input", "value")
      BY <1>1, <1>3, <1>4, <2>2, LoadedKept
    <3>2. PICK l \in Keys : l # k
      BY SeveralKeys
    <3>3. ~Held(l)
      BY <1>4, <3>2 DEF Held
    <3>4. InUse(l) = g
      BY <1>1, <1>2, <1>3, <3>3, LoadedKept
    <3>5. InUse(l) = issued \/ InUse(l) = Other(k)
      BY <1>4, <3>1, <3>2 DEF KeptInv, Kept, Rewriting
    <3>6. InUse(k) # issued
      <4>1. sent # {} /\ current_used_keys[k] \in Slots
        BY <1>4, ValueFacts DEF KeptInv, Kept, HeldKept
      <4> QED
        BY <1>4, <3>1, <4>1 DEF KeptInv, Kept, Unwritten, InUse
    <3> QED
      BY <3>1, <3>4, <3>5, <3>6
  <2> QED
    BY <2>1, <2>2
<1>5. ASSUME NEW k \in Keys, ~Held(k) PROVE InUse(k) = g
  BY <1>1, <1>2, <1>3, <1>5, LoadedKept
<1> QED
  BY <1>1, <1>2, <1>4, <1>5

\* An attempt that succeeds.
LEMMA ConnectKeeps == ASSUME KeptInv, connect PROVE Kept'
<1>1. UNCHANGED <<flash, current_used_keys, task, issued, sent, rol_status>>
      /\ buffers' = load_keys /\ proven' = load_keys
  BY DEF connect, Attempt, cloud
<1>2. \A k \in Keys : /\ InUse(k)' = InUse(k) /\ Other(k)' = Other(k)
                      /\ Held(k)' <=> Held(k)
  BY <1>1 DEF InUse, Other, Held
<1>3. OneSet' /\ OnlineKeys'
  BY <1>1, <1>2, ConnectLoads DEF OneSet, OnlineKeys
<1>4. HeldKept'
  BY <1>1, <1>2, ConnectLoads DEF KeptInv, Kept, HeldKept
<1>5. Rewriting'
  BY <1>1, <1>2, ConnectLoads DEF KeptInv, Kept, Rewriting, At
<1>6. Unwritten' /\ NotAhead' /\ Rotated'
  BY <1>1, <1>2 DEF KeptInv, Kept, Unwritten, NotAhead, Rotated, At
<1>7. Buffered'
  BY <1>1, <1>2, AttemptBuffers DEF connect, Buffered
<1>8. ProvenKept'
  <2>1. ASSUME NEW k \in Keys PROVE InUse(k) = load_keys[k] \/ Other(k) = load_keys[k]
    BY ConnectLoads
  <2>2. ASSUME NEW k \in Keys PROVE \E i \in Slots : flash'[k][i] = proven'[k]
    BY <1>1, <2>1, ValueFacts DEF KeptInv, Kept, InUse, Other
  <2> QED
    BY <2>2 DEF ProvenKept
<1> QED
  BY <1>3, <1>4, <1>5, <1>6, <1>7, <1>8 DEF Kept

\* An attempt that fails.
LEMMA FailureKeeps == ASSUME KeptInv, connect_fails \/ role_forward_failed PROVE Kept'
<1>t. TypedTasks /\ "input" \in Tasks /\ "connection" \in Tasks /\ "input" # "connection"
  BY DEF KeptInv, Kept, TypeOK, TypedTasks, Tasks
<1>1. /\ UNCHANGED <<flash, current_used_keys, issued, sent, rol_status, proven, online>>
      /\ buffers' = load_keys /\ ~online /\ Attempt
  BY DEF connect_fails, role_forward_failed, Attempt, cloud
<1>2. task'["input"] = task["input"]
  <2>1. CASE UNCHANGED task
    BY <2>1
  <2>2. CASE task' = [task EXCEPT !["connection"] = [Rest EXCEPT !.at = "roll", !.todo = Keys]]
    BY <1>t, <2>2 DEF TypedTasks
  <2> QED
    BY <2>1, <2>2 DEF connect_fails, role_forward_failed
<1>3. \A k \in Keys : /\ InUse(k)' = InUse(k) /\ Other(k)' = Other(k)
                      /\ Held(k)' <=> Held(k)
  BY <1>1, <1>2 DEF InUse, Other, Held
<1>4. OneSet' /\ OnlineKeys' /\ ProvenKept'
  BY <1>1 DEF KeptInv, Kept, OneSet, OnlineKeys, ProvenKept
<1>5. HeldKept'
  BY <1>1, <1>2, <1>3 DEF KeptInv, Kept, HeldKept
<1>6. Rewriting'
  BY <1>1, <1>2, <1>3, AttemptBuffers DEF KeptInv, Kept, Rewriting, At
<1>7. Unwritten' /\ NotAhead' /\ Rotated'
  BY <1>1, <1>2, <1>3 DEF KeptInv, Kept, Unwritten, NotAhead, Rotated, At
<1>8. Buffered'
  BY <1>1, <1>3, AttemptBuffers DEF Buffered
<1> QED
  BY <1>4, <1>5, <1>6, <1>7, <1>8 DEF Kept

\* A key rolled back: both of its slots have a value.
LEMMA RollbackKeeps == ASSUME KeptInv, NEW k \in Keys, rolback_key(k) PROVE Kept'
<1>t. TypedTasks /\ "input" \in Tasks /\ "connection" \in Tasks /\ "input" # "connection"
  BY DEF KeptInv, Kept, TypeOK, TypedTasks, Tasks
<1>1. /\ UNCHANGED <<flash, issued, sent, rol_status, proven, online, buffers>>
      /\ k \in rol_status /\ task["connection"].at = "roll"
      /\ current_used_keys' = [current_used_keys EXCEPT ![k] = last_used_keys[k]]
  BY DEF rolback_key, cloud, At
<1>2. task'["input"] = task["input"]
  BY <1>t DEF rolback_key, TypedTasks
<1>3. ~online /\ task["input"].at = "rest"
  BY <1>1 DEF KeptInv, Kept, OneAtATime, At
<1>4. \A x \in Keys : ~Held(x) /\ ~Held(x)'
  BY <1>2, <1>3 DEF Held
<1>5. OneSet' /\ OnlineKeys' /\ ProvenKept' /\ HeldKept' /\ Rewriting'
  BY <1>1, <1>3, <1>4 DEF KeptInv, Kept, OneSet, OnlineKeys, ProvenKept, HeldKept, Rewriting
<1>6. Unwritten' /\ NotAhead'
  BY <1>1, <1>4 DEF KeptInv, Kept, Unwritten, NotAhead
<1>7. Rotated'
  BY <1>1, <1>2, <1>4 DEF KeptInv, Kept, Rotated
<1>8. Buffered'
  <2>1. ASSUME NEW x \in Keys, x # k, buffers'[x] # None PROVE InUse(x)' # None
    BY <1>1, <1>4, <2>1 DEF KeptInv, Kept, Buffered, InUse, TypeOK, SlotMap
  <2>2. current_used_keys'[k] \in Slots
    BY <1>1, ValueFacts DEF KeptInv, Kept, TypeOK, SlotMap
  <2>3. InUse(k)' # None
    BY <1>1, <1>4, <2>2 DEF KeptInv, Kept, Rotated, InUse
  <2> QED
    BY <2>1, <2>3 DEF Buffered
<1> QED
  BY <1>5, <1>6, <1>7, <1>8 DEF Kept

\* A restart forgets what was loaded and what was rotated.
LEMMA RestartKeeps == ASSUME KeptInv, restart PROVE Kept'
<1>1. UNCHANGED <<flash, issued, sent, proven>> /\ ~online' /\ rol_status' = {}
      /\ \A k \in Keys : buffers'[k] = None
  BY DEF restart, cloud
<1>2. task'["input"].at \in {"rest", "boot"}
  <2>1. task'["input"] = Rest \/ task'["input"] = [Rest EXCEPT !.at = "boot"]
    BY DEF restart, Tasks
  <2>2. [Rest EXCEPT !.at = "boot"].at = "boot"
    BY DEF Rest
  <2> QED
    BY <2>1, <2>2, ConstantFacts
<1>3. \A k \in Keys : ~Held(k)'
  BY <1>2 DEF Held
<1>4. OneSet' /\ OnlineKeys' /\ ProvenKept' /\ HeldKept' /\ Rewriting'
  BY <1>1, <1>3 DEF KeptInv, Kept, OneSet, OnlineKeys, ProvenKept, HeldKept, Rewriting
<1>5. Unwritten' /\ NotAhead' /\ Buffered' /\ Rotated'
  BY <1>1, <1>2, <1>3 DEF KeptInv, Kept, Unwritten, NotAhead, Buffered, Rotated, Saving
<1> QED
  BY <1>4, <1>5 DEF Kept

\* The saving of the metadata, by either task.
LEMMA SaveKeeps == ASSUME KeptInv, NEW t \in Tasks, Save(t) PROVE Kept'
<1>t. TypedTasks /\ "input" \in Tasks /\ "connection" \in Tasks /\ "input" # "connection"
  BY DEF KeptInv, Kept, TypeOK, TypedTasks, Tasks
<1>1. /\ UNCHANGED <<flash, current_used_keys, buffers, proven, issued, sent, online>>
      /\ task[t].at \in Saving
  BY DEF Save, save_current_erase, save_current_set, save_old_erase, save_old_set, ram, cloud,
         At, Saving
<1>2. /\ task'[t].at \in Saving \cup {"rest", "roll"}
      /\ task'[t].at \in Saving => task'[t].key = task[t].key
      /\ \A u \in Tasks : u # t => task'[u] = task[u]
  <2>1. CASE \E place \in Saving : task' = [task EXCEPT ![t].at = place]
    BY <1>t, <2>1, Placed DEF TypedTasks, Saving
  <2>2. CASE \E blob : task' = [task EXCEPT ![t].at = "last", ![t].blob = blob]
    BY <1>t, <2>2, Placed DEF TypedTasks, Saving
  <2>3. CASE task' = [task EXCEPT ![t] = Rest]
    BY <1>t, <2>3, ConstantFacts DEF TypedTasks, Saving
  <2>4. CASE task' = [task EXCEPT ![t].at = "roll"]
    BY <1>t, <2>4, Placed DEF TypedTasks, Saving
  <2> QED
    BY <2>1, <2>2, <2>3, <2>4
    DEF Save, save_current_erase, save_current_set, save_old_erase, save_old_set, Go, Saving
<1>3. (rol_status' = rol_status) \/ (t = "input" /\ rol_status' = rol_status \cup {task[t].key})
  BY DEF Save, save_current_erase, save_current_set, save_old_erase, save_old_set, ram
<1>4. \A k \in Keys : Held(k)' <=> Held(k)
  BY <1>1, <1>2, <1>t DEF Held, Saving, Tasks
<1>5. At("input", "value")' <=> At("input", "value")
  BY <1>1, <1>2, <1>t DEF At, Saving, Tasks
<1>6. \A k \in Keys : Held(k) => task'["input"].slot = task["input"].slot /\ sent' = sent
  BY <1>1, <1>2, <1>t DEF Held, Saving, Tasks
<1>7. task["input"].key \in Keys
  BY <1>t, TaskFacts
<1>8. rol_status' \subseteq rol_status
           \cup {k \in Keys : task["input"].at \in Saving /\ task["input"].key = k}
  BY <1>1, <1>3, <1>7
<1>9. task'["input"].at \in Saving => task["input"].at \in Saving
                                         /\ task'["input"].key = task["input"].key
  BY <1>1, <1>2, <1>t DEF Tasks
<1> QED
  BY <1>1, <1>4, <1>5, <1>6, <1>8, <1>9, QuietStep

\* The steps that touch neither the keys nor their values.
LEMMA OtherKeeps ==
  ASSUME KeptInv, OrderForward \/ connection_lost \/ rolled_back \/ initialize_keys_buffers
               \/ UNCHANGED vars
  PROVE  Kept'
<1>t. TypedTasks /\ "input" \in Tasks /\ "connection" \in Tasks /\ "input" # "connection"
  BY DEF KeptInv, Kept, TypeOK, TypedTasks, Tasks
<1>1. /\ UNCHANGED <<flash, current_used_keys, buffers, proven, issued, rol_status>>
      /\ sent' = sent \/ (sent' = {} /\ ~online' /\ At("input", "rest"))
      /\ online' => online
  BY DEF OrderForward, connection_lost, rolled_back, initialize_keys_buffers, action_forward_cb,
         vars, meta, ram, cloud
<1>2. \/ task'["input"] = task["input"]
      \/ task["input"].at = "boot" /\ task'["input"] = Rest
  <2>1. CASE UNCHANGED task
    BY <2>1
  <2>2. CASE task' = [task EXCEPT !["connection"] = Rest]
    BY <1>t, <2>2 DEF TypedTasks
  <2>3. CASE task["input"].at = "boot" /\ task' = [task EXCEPT !["input"] = Rest]
    BY <1>t, <2>3 DEF TypedTasks
  <2> QED
    BY <2>1, <2>2, <2>3
    DEF OrderForward, connection_lost, rolled_back, initialize_keys_buffers, vars, ram, At
<1>3. \A k \in Keys : Held(k)' <=> Held(k)
  BY <1>2, ConstantFacts DEF Held
<1>4. At("input", "value")' <=> At("input", "value")
  BY <1>2, ConstantFacts DEF At
<1>5. \A k \in Keys : Held(k) => task'["input"].slot = task["input"].slot /\ sent' = sent
  BY <1>1, <1>2 DEF Held, At
<1>6. task'["input"].at \in Saving => task["input"].at \in Saving
                                         /\ task'["input"].key = task["input"].key
  BY <1>2, ConstantFacts DEF Saving
<1>7. rol_status' \subseteq rol_status
           \cup {k \in Keys : task["input"].at \in Saving /\ task["input"].key = k}
  BY <1>1
<1>8. sent' = sent \/ (sent' = {} /\ ~online')
  BY <1>1
<1> QED
  BY <1>1, <1>3, <1>4, <1>5, <1>6, <1>7, <1>8, QuietStep

LEMMA KeptInit == Init => KeptInv
<1> SUFFICES ASSUME Init PROVE KeptInv
  OBVIOUS
<1>1. TypeOK /\ OneAtATime
  BY InitHolds DEF IInv
<1>2. \A k \in Keys : /\ flash[k][0] = 0 /\ flash[k][1] = None /\ proven[k] = 0
                      /\ current_used_keys[k] = 0 /\ buffers[k] = None
  BY DEF Init, AllZero, Slots
<1>3. task["input"] = Rest /\ ~online /\ issued = 0 /\ sent = {} /\ rol_status = {}
  BY DEF Init, Tasks
<1>4. \A k \in Keys : ~Held(k)
  BY <1>3, ConstantFacts DEF Held
<1>5. OneSet /\ ProvenKept
  BY <1>2, ConstantFacts DEF OneSet, ProvenKept, Slots
<1>6. OnlineKeys /\ HeldKept /\ Rewriting /\ Unwritten /\ Buffered
  BY <1>2, <1>3, <1>4 DEF OnlineKeys, HeldKept, Rewriting, Unwritten, Buffered
<1>7. NotAhead
  BY <1>2, <1>3 DEF NotAhead, Slots
<1>8. Rotated
  BY <1>3, ConstantFacts DEF Rotated, Saving
<1> QED
  BY <1>1, <1>5, <1>6, <1>7, <1>8 DEF KeptInv, Kept

LEMMA KeptStep == KeptInv /\ [Next]_vars => KeptInv'
<1> SUFFICES ASSUME KeptInv, [Next]_vars PROVE KeptInv'
  OBVIOUS
<1>1. TypeOK' /\ OneAtATime'
  BY TypeInvariant, Exclusion DEF KeptInv, Kept
<1>2. ASSUME InputStep PROVE Kept'
  <2>1. ASSUME value_erase \/ value_set PROVE Kept'
    BY <2>1, EraseKeeps, SetKeeps
  <2>2. ASSUME Save("input") \/ initialize_keys_buffers PROVE Kept'
    BY <2>2, SaveKeeps, OtherKeeps DEF Tasks
  <2> QED
    BY <1>2, <2>1, <2>2 DEF InputStep
<1>3. ASSUME ConnectionStep PROVE Kept'
  BY <1>3, ConnectKeeps, FailureKeeps, RollbackKeeps, OtherKeeps, SaveKeeps
  DEF ConnectionStep, Tasks
<1>4. ASSUME NEW k \in Keys, rotate_key(k) PROVE Kept'
  BY <1>4, RotateKeeps
<1>5. ASSUME OrderForward \/ connection_lost \/ UNCHANGED vars PROVE Kept'
  BY <1>5, OtherKeeps
<1>6. ASSUME restart PROVE Kept'
  BY <1>6, RestartKeeps
<1>7. Kept'
  BY <1>2, <1>3, <1>4, <1>5, <1>6 DEF Next
<1> QED
  BY <1>1, <1>7 DEF KeptInv, Kept

\* Whatever is rotated, undone or cut, and by however many restarts, the values the
\* hub connected with last are in flash, one in a slot of each key.
THEOREM ProvenIsKept == Spec => []ProvenKept
<1>1. KeptInv => ProvenKept
  BY DEF KeptInv, Kept
<1> QED
  BY <1>1, KeptInit, KeptStep, PTL DEF Spec
=============================================================================
