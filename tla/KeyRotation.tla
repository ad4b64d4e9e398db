---------------------------- MODULE KeyRotation ----------------------------
(***************************************************************************)
(* The keys of the connection and their rotation (src/registration.c, with *)
(* drv_nvs.c and drv_mqtt_load_keys). Each key has two slots in flash; the *)
(* metadata "keybuf" and "keylast" say which slot is in use and which was  *)
(* before. The cloud sends new keys one by one, then the order to go on    *)
(* with them; when the hub cannot reconnect it rolls back the keys it      *)
(* remembers as rotated.                                                   *)
(*                                                                         *)
(* Two tasks write: the input task, which handles the cloud's messages,    *)
(* and the connection task, which rolls back. Every write of drv_nvs_set   *)
(* is cut between its erasure and its setting, both under flash_lock: a    *)
(* restart may come in between. The values of one rotation carry its       *)
(* number. A connection is accepted when all keys carry the number of one  *)
(* rotation the cloud has a good set of keys for. Key versions, which are  *)
(* only logged, are left out.                                              *)
(***************************************************************************)
EXTENDS Naturals, FiniteSets

CONSTANTS Keys,          \* the keys drv_mqtt_load_keys loads
          None,          \* no value in a slot
          Absent,        \* no metadata in flash
          MaxRotations,  \* bound on the sets of keys the cloud sends
          MaxFaults,     \* bound on lost connections and attempts that fail without cause
          MaxBoots       \* bound on restarts

ASSUME KeysAssumption == /\ Keys # {} /\ IsFiniteSet(Keys)
                         /\ None \notin Nat /\ Absent \notin [Keys -> {0, 1}]
                         /\ MaxRotations \in Nat /\ MaxFaults \in Nat /\ MaxBoots \in Nat

\* drv_mqtt_load_keys loads MQTT_TOTAL_KEYS of them, more than one.
ASSUME SeveralKeys == \A k \in Keys : Keys # {k}

MAX_ROTATIONS_ATTEMPTS == 2

VARIABLES
  flash,              \* the value in each slot of each key
  keybuf, keylast,    \* the metadata in flash
  current_used_keys, last_used_keys,  \* ... and in RAM: a slot of each key
  rol_status,         \* keys rotated since the last start
  rotation_attempts,
  buffers,            \* the values drv_mqtt_load_keys loaded last
  online,             \* the hub is connected
  first,              \* the next attempt is a first one: no reconnection
  task,               \* where the input and the connection task are
  issued, sent, good, \* external: rotations sent, keys sent of the last one, good ones
  proven,             \* history: the values of the last connection
  faults, boots       \* bounds

ram   == <<current_used_keys, last_used_keys, rol_status, rotation_attempts, buffers, first>>
meta  == <<keybuf, keylast>>
cloud == <<issued, sent, good>>
bnds  == <<faults, boots>>
vars  == <<flash, meta, ram, online, task, cloud, proven, bnds>>

Tasks   == {"input", "connection"}
Slots   == {0, 1}
Values  == 0 .. MaxRotations
SlotMap == [Keys -> Slots]
AllZero == [k \in Keys |-> 0]

\* key: the key a task works on; slot: the slot it writes; blob: the metadata
\* it has encoded; todo: the keys the rollback has not come to.
Rest == [at |-> "rest", key |-> CHOOSE k \in Keys : TRUE, slot |-> 0, blob |-> AllZero,
         todo |-> {}]

Init ==
  /\ flash = [k \in Keys |-> [i \in Slots |-> IF i = 0 THEN 0 ELSE None]]
  /\ keybuf = AllZero /\ keylast = Absent
  /\ current_used_keys = AllZero /\ last_used_keys = AllZero
  /\ rol_status = {} /\ rotation_attempts = 0
  /\ buffers = [k \in Keys |-> None] /\ online = FALSE /\ first = TRUE
  /\ task = [t \in Tasks |-> Rest]
  /\ issued = 0 /\ sent = {} /\ good = {0}
  /\ proven = [k \in Keys |-> 0]
  /\ faults = 0 /\ boots = 0

-----------------------------------------------------------------------------
(* Writing to flash, by either task. *)

At(t, place) == task[t].at = place
Go(t, place) == task' = [task EXCEPT ![t].at = place]

\* flash_lock is held from the erasure to the setting.
Writing == {"value_set", "current_set", "last_set"}
Free == \A t \in Tasks : task[t].at \notin Writing

\* (mutant) The slot is left out of the key's name.
value_erase_plain ==
  /\ At("input", "value") /\ Free /\ Go("input", "value_set")
  /\ flash' = [flash EXCEPT ![task["input"].key][0] = None]
  /\ UNCHANGED <<meta, ram, online, cloud, proven, bnds>>

value_erase ==
  /\ At("input", "value") /\ Free /\ Go("input", "value_set")
  /\ flash' = [flash EXCEPT ![task["input"].key][task["input"].slot] = None]
  /\ UNCHANGED <<meta, ram, online, cloud, proven, bnds>>

\* The metadata is encoded before the lock is waited for.
value_set ==
  /\ At("input", "value_set")
  /\ flash' = [flash EXCEPT ![task["input"].key][task["input"].slot] = issued]
  /\ task' = [task EXCEPT !["input"].at = "current", !["input"].blob = current_used_keys]
  /\ UNCHANGED <<meta, ram, online, cloud, proven, bnds>>

save_current_erase(t) ==
  /\ At(t, "current") /\ Free /\ Go(t, "current_set")
  /\ keybuf' = Absent
  /\ UNCHANGED <<flash, keylast, ram, online, cloud, proven, bnds>>

save_current_set(t) ==
  /\ At(t, "current_set")
  /\ keybuf' = task[t].blob
  /\ task' = [task EXCEPT ![t].at = "last", ![t].blob = last_used_keys]
  /\ UNCHANGED <<flash, keylast, ram, online, cloud, proven, bnds>>

save_old_erase(t) ==
  /\ At(t, "last") /\ Free /\ Go(t, "last_set")
  /\ keylast' = Absent
  /\ UNCHANGED <<flash, keybuf, ram, online, cloud, proven, bnds>>

\* rotate_key marks the key as rotated when all is saved.
save_old_set(t) ==
  /\ At(t, "last_set")
  /\ keylast' = task[t].blob
  /\ IF t = "input"
     THEN /\ rol_status' = rol_status \cup {task[t].key}
          /\ task' = [task EXCEPT ![t] = Rest]
     ELSE UNCHANGED rol_status /\ Go(t, "roll")
  /\ UNCHANGED <<flash, keybuf, current_used_keys, last_used_keys, rotation_attempts, buffers,
                 first, online, cloud, proven, bnds>>

-----------------------------------------------------------------------------
(* The input task: registration_callback. *)

\* The first message of a rotation opens it; its keys are good, or not.
Send(k) ==
  /\ k \notin sent
  /\ IF sent = {}
     THEN /\ issued < MaxRotations /\ issued' = issued + 1
          /\ sent' = {k} /\ good' \in {good, good \cup {issued + 1}}
     ELSE sent' = sent \cup {k} /\ UNCHANGED <<issued, good>>

\* (mutant) The new value goes to the slot in use.
rotate_key_inplace(k) ==
  /\ online /\ At("input", "rest") /\ Send(k)
  /\ task' = [task EXCEPT !["input"] = [Rest EXCEPT !.at = "value", !.key = k,
                                                    !.slot = current_used_keys[k]]]
  /\ UNCHANGED <<flash, meta, ram, online, proven, bnds>>

\* dispatch_received_key: the slots change in RAM before the value is written.
rotate_key(k) ==
  /\ online /\ At("input", "rest") /\ Send(k)
  /\ last_used_keys' = [last_used_keys EXCEPT ![k] = current_used_keys[k]]
  /\ current_used_keys' = [current_used_keys EXCEPT ![k] = 1 - @]
  /\ task' = [task EXCEPT !["input"] = [Rest EXCEPT !.at = "value", !.key = k,
                                                    !.slot = 1 - current_used_keys[k]]]
  /\ UNCHANGED <<flash, meta, rol_status, rotation_attempts, buffers, first, online, proven,
                 bnds>>

\* The connection is given up, and made from the beginning.
action_forward_cb == rotation_attempts' = 0 /\ first' = TRUE /\ online' = FALSE

OrderForward ==
  /\ online /\ At("input", "rest") /\ sent = Keys
  /\ sent' = {}
  /\ action_forward_cb
  /\ UNCHANGED <<flash, meta, current_used_keys, last_used_keys, rol_status, buffers, task,
                 issued, good, proven, bnds>>

-----------------------------------------------------------------------------
(* The connection task. *)

\* drv_nvs_get leaves the buffer alone when the slot is empty.
load_keys ==
  [k \in Keys |-> LET stored == flash[k][current_used_keys[k]]
                  IN  IF stored = None THEN buffers[k] ELSE stored]

Accepted(keys) == \E g \in good : \A k \in Keys : keys[k] = g

\* The keys are loaded when no write holds flash_lock.
Attempt == /\ ~online /\ At("connection", "rest") /\ ~At("input", "boot") /\ Free
           /\ buffers' = load_keys

connect ==
  /\ Attempt /\ Accepted(load_keys)
  /\ online' = TRUE /\ first' = FALSE
  /\ proven' = load_keys
  /\ UNCHANGED <<flash, meta, current_used_keys, last_used_keys, rol_status, rotation_attempts,
                 task, cloud, bnds>>

Fails == \/ ~Accepted(load_keys) /\ UNCHANGED faults
         \/ Accepted(load_keys) /\ faults < MaxFaults /\ faults' = faults + 1

\* A first attempt that fails tells nobody.
connect_fails ==
  /\ Attempt /\ first /\ Fails
  /\ first' = FALSE
  /\ UNCHANGED <<flash, meta, current_used_keys, last_used_keys, rol_status, rotation_attempts,
                 online, task, cloud, proven, boots>>

\* A reconnection that fails calls role_forward_failed, which counts, and at
\* last rolls back: the attempts before have lasted half a minute, in which the
\* input task was done with any rotation.
role_forward_failed ==
  /\ Attempt /\ ~first /\ Fails
  /\ IF rol_status # {} /\ rotation_attempts >= MAX_ROTATIONS_ATTEMPTS
     THEN /\ At("input", "rest")
          /\ task' = [task EXCEPT !["connection"] = [Rest EXCEPT !.at = "roll", !.todo = Keys]]
     ELSE UNCHANGED task
  /\ rotation_attempts' =
       IF rol_status # {} /\ rotation_attempts < MAX_ROTATIONS_ATTEMPTS
       THEN rotation_attempts + 1 ELSE rotation_attempts
  /\ UNCHANGED <<flash, meta, current_used_keys, last_used_keys, rol_status, first, online,
                 cloud, proven, boots>>

\* (mutant) The slots are saved as they are.
rolback_key_kept(k) ==
  /\ At("connection", "roll") /\ k \in task["connection"].todo \cap rol_status
  /\ task' = [task EXCEPT !["connection"].at = "current",
                          !["connection"].blob = current_used_keys,
                          !["connection"].todo = @ \ {k}]
  /\ UNCHANGED <<flash, meta, ram, online, cloud, proven, bnds>>

rolback_key(k) ==
  /\ At("connection", "roll") /\ k \in task["connection"].todo \cap rol_status
  /\ current_used_keys' = [current_used_keys EXCEPT ![k] = last_used_keys[k]]
  /\ last_used_keys' = [last_used_keys EXCEPT ![k] = current_used_keys[k]]
  /\ task' = [task EXCEPT !["connection"].at = "current",
                          !["connection"].blob = current_used_keys',
                          !["connection"].todo = @ \ {k}]
  /\ UNCHANGED <<flash, meta, rol_status, rotation_attempts, buffers, first, online, cloud,
                 proven, bnds>>

\* rol_status is left as it is.
rolled_back ==
  /\ At("connection", "roll") /\ task["connection"].todo \cap rol_status = {}
  /\ task' = [task EXCEPT !["connection"] = Rest]
  /\ action_forward_cb
  /\ UNCHANGED <<flash, meta, current_used_keys, last_used_keys, rol_status, buffers, cloud,
                 proven, bnds>>

connection_lost ==
  /\ online /\ faults < MaxFaults /\ faults' = faults + 1
  /\ online' = FALSE
  /\ UNCHANGED <<flash, meta, ram, task, cloud, proven, boots>>

-----------------------------------------------------------------------------
(* Restarts. *)

BootSlots == IF keybuf = Absent THEN AllZero ELSE keybuf

\* initialize_keys_buffers: without metadata every key is back in slot 0, and
\* that is saved.
restart ==
  /\ boots < MaxBoots /\ boots' = boots + 1
  /\ current_used_keys' = BootSlots
  /\ last_used_keys' = IF keylast = Absent THEN AllZero ELSE keylast
  /\ rol_status' = {} /\ rotation_attempts' = 0
  /\ buffers' = [k \in Keys |-> None] /\ online' = FALSE /\ first' = TRUE
  /\ task' = [t \in Tasks |-> IF t = "input" /\ keybuf = Absent
                              THEN [Rest EXCEPT !.at = "boot"] ELSE Rest]
  /\ UNCHANGED <<flash, meta, cloud, proven, faults>>

initialize_keys_buffers ==
  /\ At("input", "boot")
  /\ keybuf' = current_used_keys
  /\ task' = [task EXCEPT !["input"] = Rest]
  /\ UNCHANGED <<flash, keylast, ram, online, cloud, proven, bnds>>

-----------------------------------------------------------------------------
Save(t) == \/ save_current_erase(t) \/ save_current_set(t)
           \/ save_old_erase(t) \/ save_old_set(t)

InputStep == value_erase \/ value_set \/ Save("input") \/ initialize_keys_buffers

ConnectionStep ==
  \/ connect \/ connect_fails \/ role_forward_failed
  \/ \E k \in Keys : rolback_key(k)
  \/ rolled_back \/ Save("connection")

Next == \/ InputStep \/ ConnectionStep
        \/ \E k \in Keys : rotate_key(k)
        \/ OrderForward \/ connection_lost \/ restart

Spec == Init /\ [][Next]_vars

\* Both tasks run. Nothing is asked of the cloud.
FairSpec == Spec /\ WF_vars(InputStep) /\ WF_vars(ConnectionStep)

-----------------------------------------------------------------------------
Places == {"rest", "boot", "value", "value_set", "current", "current_set", "last", "last_set",
           "roll"}
TaskRecord == [at : Places, key : Keys, slot : Slots, blob : SlotMap, todo : SUBSET Keys]

\* Every variable has its type: slots are 0 or 1, values are rotations or none.
TypeOK ==
  /\ flash \in [Keys -> [Slots -> Values \cup {None}]]
  /\ keybuf \in SlotMap \cup {Absent} /\ keylast \in SlotMap \cup {Absent}
  /\ current_used_keys \in SlotMap /\ last_used_keys \in SlotMap
  /\ rol_status \subseteq Keys /\ rotation_attempts \in 0 .. MAX_ROTATIONS_ATTEMPTS
  /\ buffers \in [Keys -> Values \cup {None}] /\ online \in BOOLEAN /\ first \in BOOLEAN
  /\ task \in [Tasks -> TaskRecord]
  /\ issued \in Values /\ sent \subseteq Keys /\ good \subseteq Values
  /\ proven \in [Keys -> Values \cup {None}]
  /\ faults \in 0 .. MaxFaults /\ boots \in 0 .. MaxBoots

\* registration_Newversion_isIncomplete: a key in use is missing.
Incomplete == \E k \in Keys : flash[k][current_used_keys[k]] = None

\* Wherever a rotation or a rollback is cut by the first restart, between any
\* two writes or inside one, the hub comes back with a value for every key: the
\* fallback on slot 0 when the metadata is missing must meet slots the cut
\* rotation has not erased (registration.c:417-425, drv_nvs.c:104-108).
FirstRestart == [][boots = 0 /\ boots' = 1 => ~Incomplete']_vars

\* Until the hub has connected with other keys, the values it connected with
\* last are in flash, in one of the two slots: whatever is rotated, undone or
\* cut, a way back exists (registration.c:310-346).
ProvenKept == \A k \in Keys : \E i \in Slots : flash[k][i] = proven[k]

Read(slots) == [k \in Keys |-> flash[k][slots[k]]]
Torn == ~Accepted(Read(current_used_keys)) /\ ~Accepted(Read(last_used_keys))

\* New keys on trial are either used or given up: the hub is online, or has
\* forgotten the rotation, or its keys are torn, neither those in use nor those
\* before being of one rotation (registration.c:221-246).
TrialEnds == rol_status # {} ~> online \/ rol_status = {} \/ Torn

\* What registration.c:180-181 says of the rollback, that it undoes the newly
\* installed keys after an unsuccessful rotation: the trial ends, torn or not.
\* Not kept: torn keys are swapped back and forth for ever.
RollsBack == rol_status # {} ~> online \/ rol_status = {}

=============================================================================
