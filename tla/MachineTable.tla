---------------------------- MODULE MachineTable ----------------------------
(***************************************************************************)
(* The machines of a hub: the array machines_machines in RAM, the files    *)
(* "mch-NNN" (static), "flg-NNN" (dynamic) and the number of machines      *)
(* (metadata) in flash, and the tasks that touch them.                     *)
(*                                                                         *)
(*   server    the task that deploys and clears: the message task          *)
(*             (deployment.c) or the console; one order at a time          *)
(*   marking   the tasks that change the flags of a machine: first the     *)
(*             flags, then flags_changed, under the lock but separately    *)
(*   updater   machines_update_tsk, which stores changed flags             *)
(*                                                                         *)
(* An order is cut where another task or a restart could tell: at each     *)
(* erase and each write of a key, and at each change of the RAM.           *)
(***************************************************************************)
EXTENDS Integers, FiniteSetsExt

CONSTANTS MaxMachines,        \* MACHINES_MAX_MACHINES; no order deploys more
          Resources,    \* names of machines
          Zero,         \* the name in a machine nobody has filled in
          Null,         \* no machine
          MaxOrders, MaxChanges, MaxBoots, MaxUpdates, MaxFaults

Slots   == 0 .. MaxMachines - 1
Absent  == "absent"
NoIndex == 255          \* FAILURE
NoNumber == -1          \* the number of machines is not in flash
Crash   == -1
Writers == {"message", "execution"}
\* machine_flags as far as they are told apart; calloc leaves "zero"
Flags   == {"zero", "clear", "busy"}
Machine == [res : Resources, flags : Flags, changed : BOOLEAN]

ASSUME TableAssumption ==
  /\ MaxMachines \in 1 .. NoIndex - 1
  /\ Zero \in Resources /\ Absent \notin Resources
  /\ Null \notin Machine \cup Resources
  /\ {MaxOrders, MaxChanges, MaxBoots, MaxUpdates, MaxFaults} \subseteq Nat

VARIABLES machines, nof, loaded,        \* RAM
          updating,                     \* RAM: run_activation_flags[update_run_flag]
          static, dynamic, metadata,    \* flash
          server, marking, updater,
          before,    \* history: the table when the order began
          kept,      \* history: machines answered HUB_OK and not cleared since
          harmed,    \* history: one of the ways to lose the table came about (below)
          overlap,   \* history: the updater has stored flags during a clearing
          spent      \* bounds

ram   == <<machines, nof, loaded, updating>>
flash == <<static, dynamic, metadata>>
past  == <<before, kept, harmed, overlap>>
vars  == <<ram, flash, server, marking, updater, past, spent>>

Idle == [at |-> "idle", kind |-> "none", res |-> Zero, idx |-> NoIndex,
         total |-> 0, buf |-> Absent]

Init ==
  /\ machines = [k \in Slots |-> Null] /\ nof = 0 /\ loaded = FALSE /\ updating = FALSE
  /\ static = [k \in Slots |-> Absent] /\ dynamic = [k \in Slots |-> Absent]
  /\ metadata = 0
  /\ server = Idle
  /\ marking = [w \in Writers |-> Null]
  /\ updater = [at |-> "idle", k |-> 0, total |-> 0, res |-> Zero]
  /\ before = {} /\ kept = {} /\ harmed = FALSE /\ overlap = FALSE
  /\ spent = [orders |-> 0, changes |-> 0, boots |-> 0, updates |-> 0, faults |-> 0]

Spend(what) == spent' = [spent EXCEPT ![what] = @ + 1]

-----------------------------------------------------------------------------
(* machines_machine, machines_order, machine_check_existance: the loop     *)
(* stops at the name, and faults on a pointer that was never filled in.    *)

machines_order(r) ==
  LET stops == {k \in Slots : k < nof /\ (machines[k] = Null \/ machines[k].res = r)}
  IN  CASE stops = {} /\ nof > MaxMachines   -> Crash
        [] stops = {} /\ nof <= MaxMachines  -> NoIndex
        [] stops # {} -> IF machines[Min(stops)] = Null THEN Crash ELSE Min(stops)

Known(r)   == machines_order(r) \in Slots
Unknown(r) == machines_order(r) = NoIndex

\* the machines by position, in RAM and as a restart would find them
Table  == {<<k, machines[k].res>> : k \in {j \in Slots : j < nof /\ machines[j] # Null}}
Stored == {<<k, static[k]>> : k \in {j \in Slots : j < metadata}}

-----------------------------------------------------------------------------
(* The orders. The ways to lose the table, which harmed records: an order  *)
(* in update mode, when the RAM is empty and the files are not; an order   *)
(* refused with no machine there, which takes 1 from 0; loading during an  *)
(* order; and a restart with files half moved or the number being written. *)

\* once the number has gone below 0, what is read of the array is no longer defined
Begin(kind, at, r, i) ==
  /\ nof <= MaxMachines
  /\ server.at = "idle" /\ marking["message"] = Null
  /\ spent.orders < MaxOrders /\ Spend("orders")
  /\ server' = [at |-> at, kind |-> kind, res |-> r, idx |-> i, total |-> nof,
                buf |-> Absent]
  /\ before' = Table
  /\ harmed' = (harmed \/ updating \/ (kind = "refused" /\ nof = 0))
  /\ UNCHANGED <<flash, marking, updater, overlap>>

\* machines_free looks the machine up by its name and works on that index
FreeAt(i) == IF i \in Slots /\ static[i] # Absent THEN "archive_static" ELSE "free_from_ram"

\* deployment_init_cb with a good template: machines_save files the machine
deploy(r) ==
  /\ Unknown(r) /\ nof < MaxMachines
  /\ Begin("deploy", "static_erase", r, NoIndex)
  /\ machines' = [machines EXCEPT ![nof] = [res |-> r, flags |-> "clear", changed |-> TRUE]]
  /\ UNCHANGED <<nof, loaded, updating, kept>>

Refused(name) ==
  /\ machines_order(name) # Crash
  /\ Begin("refused", FreeAt(machines_order(name)), name, machines_order(name))
  /\ UNCHANGED <<ram, kept>>

\* a name already taken is refused before it is stored: the machine has the name 0
refuse_resource(r) == Known(r) /\ Refused(Zero)

\* a fault in the signals or sequences of the template
refuse_template(r) == Unknown(r) /\ Refused(r)

\* deployment_clear_cb
clear(r) ==
  /\ Known(r)
  /\ Begin("clear", FreeAt(machines_order(r)), r, machines_order(r))
  /\ kept' = kept \ {r}
  /\ UNCHANGED ram

LastName == machines[nof - 1].res

\* machines_clear_next and machines_clear_all: machines_free of the last one, once
\* or until none is left
clear_last(kind) ==
  /\ nof \in 1 .. MaxMachines /\ machines[nof - 1] # Null /\ machines_order(LastName) # Crash
  /\ Begin(kind, FreeAt(machines_order(LastName)), LastName, machines_order(LastName))
  /\ kept' = IF kind = "all" THEN {} ELSE kept \ {LastName}
  /\ UNCHANGED ram

At(here, there) == server.at = here /\ server' = [server EXCEPT !.at = there]

Serving == UNCHANGED <<marking, updater, before, harmed, overlap, spent>>

-----------------------------------------------------------------------------
(* machines_save: machine_static_dump, machine_dynamic_dump (each key is   *)
(* erased and committed before it is written), then the number.            *)

dump_static_erase ==
  /\ At("static_erase", "static_write")
  /\ static' = [static EXCEPT ![server.total] = Absent]
  /\ UNCHANGED <<ram, dynamic, metadata, kept>> /\ Serving

dump_static_write ==
  /\ At("static_write", "dynamic_erase")
  /\ static' = [static EXCEPT ![server.total] = server.res]
  /\ UNCHANGED <<ram, dynamic, metadata, kept>> /\ Serving

dump_dynamic_erase ==
  /\ At("dynamic_erase", "dynamic_write")
  /\ dynamic' = [dynamic EXCEPT ![server.total] = Absent]
  /\ UNCHANGED <<ram, static, metadata, kept>> /\ Serving

dump_dynamic_write ==
  /\ At("dynamic_write", "count_up")
  /\ dynamic' = [dynamic EXCEPT ![server.total] = "clear"]
  /\ UNCHANGED <<ram, static, metadata, kept>> /\ Serving

\* drv_nvs_set fails, machines_save too, and the machine is freed unsaved
dump_fails_ignored ==    \* mutant: the result of the dump is not looked at
  /\ server.at \in {"static_write", "dynamic_write"}
  /\ spent.faults < MaxFaults /\ Spend("faults")
  /\ server' = [server EXCEPT !.at = "count_up"]
  /\ UNCHANGED <<ram, flash, marking, updater, past>>
dump_fails ==
  /\ server.at \in {"static_write", "dynamic_write"}
  /\ machines_order(server.res) = NoIndex
  /\ spent.faults < MaxFaults /\ Spend("faults")
  /\ server' = [server EXCEPT !.at = "free_from_ram", !.kind = "refused", !.idx = NoIndex]
  /\ harmed' = (harmed \/ nof = 0)
  /\ UNCHANGED <<ram, flash, marking, updater, before, kept, overlap>>

count_up ==
  /\ At("count_up", "meta_erase")
  /\ nof' = server.total + 1
  /\ UNCHANGED <<machines, loaded, updating, flash, kept>> /\ Serving

-----------------------------------------------------------------------------
(* machines_free: machine_free_archive, machine_free_from_ram, the number. *)

archive_static ==
  /\ At("archive_static", "archive_dynamic")
  /\ static' = [static EXCEPT ![server.idx] = Absent]
  /\ UNCHANGED <<ram, dynamic, metadata, kept>> /\ Serving

archive_dynamic ==
  /\ At("archive_dynamic", IF server.idx = server.total - 1
                           THEN "free_from_ram" ELSE "rename_static")
  /\ dynamic' = [dynamic EXCEPT ![server.idx] = Absent]
  /\ UNCHANGED <<ram, static, metadata, kept>> /\ Serving

\* drv_nvs_rename: get, clear the old key, set the new one; nothing if the old is absent
rename_static ==
  /\ server.at = "rename_static"
  /\ LET last == nof - 1 IN
       /\ server' = [server EXCEPT !.buf = static[last],
                       !.at = IF static[last] = Absent THEN "rename_dynamic"
                                                       ELSE "rename_static_set"]
       /\ static' = [static EXCEPT ![last] = Absent]
  /\ UNCHANGED <<ram, dynamic, metadata, kept>> /\ Serving

rename_static_set ==
  /\ At("rename_static_set", "rename_dynamic")
  /\ static' = [static EXCEPT ![server.idx] = server.buf]
  /\ UNCHANGED <<ram, dynamic, metadata, kept>> /\ Serving

rename_dynamic_skipped ==    \* mutant: only the static file follows its machine
  /\ At("rename_dynamic", "free_from_ram")
  /\ UNCHANGED <<ram, flash, kept>> /\ Serving
rename_dynamic ==
  /\ server.at = "rename_dynamic"
  /\ LET last == nof - 1 IN
       server' = [server EXCEPT !.buf = dynamic[last],
                    !.at = IF dynamic[last] = Absent THEN "free_from_ram"
                                                     ELSE "rename_dynamic_clear"]
  /\ UNCHANGED <<ram, flash, kept>> /\ Serving

rename_dynamic_clear ==
  /\ At("rename_dynamic_clear", "rename_dynamic_set")
  /\ dynamic' = [dynamic EXCEPT ![nof - 1] = Absent]
  /\ UNCHANGED <<ram, static, metadata, kept>> /\ Serving

rename_dynamic_set ==
  /\ At("rename_dynamic_set", "free_from_ram")
  /\ dynamic' = [dynamic EXCEPT ![server.idx] = server.buf]
  /\ UNCHANGED <<ram, static, metadata, kept>> /\ Serving

FlagsLock == updater.at # "dump"    \* machines_flags_changed_lock is free

\* the last machine takes the place of the freed one; with no index that place is
\* outside of the array, and the last machine is dropped
machine_free_from_ram_inplace ==    \* mutant: the freed place stays empty
  /\ FlagsLock
  /\ At("free_from_ram", "count_down")
  /\ machines' = [k \in Slots |-> IF k = server.idx THEN Null ELSE machines[k]]
  /\ UNCHANGED <<nof, loaded, updating, flash, kept>> /\ Serving
machine_free_from_ram ==
  /\ FlagsLock
  /\ At("free_from_ram", "count_down")
  /\ LET last == nof - 1 IN
       machines' = [k \in Slots |-> CASE k = last -> Null
                                      [] k = server.idx /\ k # last -> machines[last]
                                      [] OTHER -> machines[k]]
  /\ UNCHANGED <<nof, loaded, updating, flash, kept>> /\ Serving

count_down ==
  /\ At("count_down", "meta_erase")
  /\ nof' = (server.total - 1) % 65536
  /\ UNCHANGED <<machines, loaded, updating, flash, kept>> /\ Serving

-----------------------------------------------------------------------------
(* machines_metadata_update; then the order is over, or machines_clear_all *)
(* goes on with the next machine and at last sets the number to 0.         *)

metadata_erase ==
  /\ At("meta_erase", "meta_write")
  /\ metadata' = NoNumber
  /\ UNCHANGED <<ram, static, dynamic, kept>> /\ Serving

metadata_write ==
  /\ server.at = "meta_write"
  /\ metadata' = nof
  /\ server' = CASE server.kind = "all" /\ nof > 0  -> [server EXCEPT !.at = "next"]
                 [] server.kind = "all" /\ nof = 0  -> [server EXCEPT !.at = "meta_erase",
                                                                      !.kind = "emptied"]
                 [] server.kind # "all"             -> Idle
  /\ kept' = IF server.kind = "deploy" THEN kept \cup {server.res} ELSE kept
  /\ UNCHANGED <<ram, static, dynamic>> /\ Serving

clear_all_next ==
  /\ server.at = "next"
  /\ machines[nof - 1] # Null /\ machines_order(LastName) # Crash
  /\ server' = [server EXCEPT !.at = FreeAt(machines_order(LastName)), !.res = LastName,
                              !.idx = machines_order(LastName), !.total = nof]
  /\ before' = Table
  /\ UNCHANGED <<ram, flash, marking, updater, kept, harmed, overlap, spent>>

-----------------------------------------------------------------------------
(* Flags: machine_flags_set, then machine_update, by the pointer to the    *)
(* machine, wherever it lies by now.                                       *)

\* the slots in use: those counted, and the one of the machine being filed
Filing     == server.at \in {"static_erase", "static_write", "dynamic_erase",
                             "dynamic_write", "count_up"}
InUse(k)   == k < nof \/ (k = nof /\ Filing)
Holding(r) == {k \in Slots : InUse(k) /\ machines[k] # Null /\ machines[k].res = r}

machine_flags_set(w, k, f) ==
  /\ FlagsLock
  /\ marking[w] = Null /\ (w = "message" => server.at = "idle")
  /\ k < nof /\ machines[k] # Null /\ machines[k].flags # f
  /\ spent.changes < MaxChanges /\ Spend("changes")
  /\ machines' = [machines EXCEPT ![k].flags = f]
  /\ marking' = [marking EXCEPT ![w] = machines[k].res]
  /\ UNCHANGED <<nof, loaded, updating, flash, server, updater, past>>

machine_update(w) ==
  /\ FlagsLock
  /\ marking[w] # Null
  /\ machines' = [k \in Slots |-> IF k \in Holding(marking[w])
                                  THEN [machines[k] EXCEPT !.changed = TRUE] ELSE machines[k]]
  /\ marking' = [marking EXCEPT ![w] = Null]
  /\ UNCHANGED <<nof, loaded, updating, flash, server, updater, past, spent>>

-----------------------------------------------------------------------------
(* machines_update_changed: the number is read once per pass, the pointer  *)
(* before the lock is taken.                                               *)

Clearing == server.at \in {"archive_static", "archive_dynamic", "rename_static",
  "rename_static_set", "rename_dynamic", "rename_dynamic_clear", "rename_dynamic_set",
  "free_from_ram", "count_down"}

Updating == UNCHANGED <<nof, loaded, updating, static, metadata, server, marking, before, kept,
                        harmed, spent>>

pass_begins ==
  /\ updater.at = "idle" /\ loaded
  /\ updater' = [at |-> "pass", k |-> 0, total |-> nof, res |-> Zero]
  /\ UNCHANGED <<machines, dynamic, overlap>> /\ Updating

pass_picks ==
  /\ updater.at = "pass"
  /\ LET k == updater.k IN
       updater' = CASE k >= updater.total \/ k \notin Slots -> [updater EXCEPT !.at = "idle"]
                    [] k < updater.total /\ k \in Slots /\ machines[k] = Null ->
                         [updater EXCEPT !.k = k + 1]
                    [] k < updater.total /\ k \in Slots /\ machines[k] # Null ->
                         [updater EXCEPT !.at = "picked", !.res = machines[k].res]
  /\ UNCHANGED <<machines, dynamic, overlap>> /\ Updating

NextOne == [updater EXCEPT !.at = "pass", !.k = @ + 1]

\* single_machine_update takes the lock; drv_nvs_set erases the key first. Of a
\* machine freed or dropped since it was picked, whatever its memory holds is read.
single_machine_unchanged ==
  /\ updater.at = "picked"
  /\ \A j \in Holding(updater.res) : ~machines[j].changed
  /\ updater' = NextOne
  /\ UNCHANGED <<machines, dynamic, overlap>> /\ Updating

single_machine_update ==
  /\ updater.at = "picked"
  /\ \/ Holding(updater.res) = {}
     \/ \E j \in Holding(updater.res) : machines[j].changed
  /\ dynamic' = [dynamic EXCEPT ![updater.k] = Absent]
  /\ updater' = [updater EXCEPT !.at = "dump"]
  /\ overlap' = (overlap \/ Clearing \/ updater.k \notin Holding(updater.res))
  /\ UNCHANGED machines /\ Updating

single_machine_dump ==
  /\ updater.at = "dump"
  /\ \E f \in Flags :
       /\ \A j \in Holding(updater.res) : f = machines[j].flags
       /\ dynamic' = [dynamic EXCEPT ![updater.k] = f]
  /\ machines' = [k \in Slots |-> IF k \in Holding(updater.res)
                                  THEN [machines[k] EXCEPT !.changed = FALSE] ELSE machines[k]]
  /\ updater' = NextOne
  /\ overlap' = (overlap \/ Clearing)
  /\ Updating

-----------------------------------------------------------------------------
(* Loading, the update mode, and restarts.                                 *)

machine_load(k) ==
  [res     |-> IF static[k] = Absent THEN Zero ELSE static[k],
   flags   |-> IF dynamic[k] = Absent THEN "zero" ELSE dynamic[k],
   changed |-> static[k] # Absent]

machines_load ==
  /\ ~loaded /\ ~updating /\ nof <= MaxMachines
  /\ machines' = [k \in Slots |-> IF k < nof THEN machine_load(k) ELSE machines[k]]
  /\ loaded' = TRUE
  /\ harmed' = (harmed \/ server.at # "idle")
  /\ UNCHANGED <<nof, updating, flash, server, marking, updater, before, kept, overlap, spent>>

\* updat_Meffect: machines_update_changed, machines_clear_RAM; only a restart follows
updat_Meffect ==
  /\ loaded /\ FlagsLock /\ server.at = "idle"
  /\ spent.updates < MaxUpdates /\ Spend("updates")
  /\ dynamic' = [k \in Slots |-> IF k < nof /\ machines[k] # Null /\ machines[k].changed
                                 THEN machines[k].flags ELSE dynamic[k]]
  /\ machines' = [k \in Slots |-> Null]
  /\ nof' = 0 /\ loaded' = FALSE /\ updating' = TRUE
  /\ marking' = [w \in Writers |-> Null]
  /\ UNCHANGED <<static, metadata, server, updater, past>>

\* what a restart would not find again: files erased or moved before the number is
\* written, and the number itself while it is written
Torn == \/ server.at \in {"meta_write"}
        \/ server.idx \in Slots /\ server.at \in
             {"archive_dynamic", "rename_static", "rename_static_set", "rename_dynamic",
              "rename_dynamic_clear", "rename_dynamic_set", "free_from_ram", "count_down",
              "meta_erase"}

\* power loss, panic or esp_restart, then machines_init
restart ==
  /\ spent.boots < MaxBoots /\ Spend("boots")
  /\ harmed' = (harmed \/ Torn)
  /\ metadata' = IF metadata = NoNumber THEN 0 ELSE metadata
  /\ nof' = IF metadata = NoNumber THEN 0 ELSE metadata % 256
  /\ machines' = [k \in Slots |-> Null] /\ loaded' = FALSE /\ updating' = FALSE
  /\ server' = Idle
  /\ marking' = [w \in Writers |-> Null]
  /\ updater' = [at |-> "idle", k |-> 0, total |-> 0, res |-> Zero]
  /\ kept' = IF server.at = "idle" THEN kept ELSE kept \ {server.res}
  /\ UNCHANGED <<static, dynamic, before, overlap>>

-----------------------------------------------------------------------------
Serve ==
  \/ \E r \in Resources : deploy(r) \/ refuse_resource(r) \/ refuse_template(r) \/ clear(r)
  \/ \E kind \in {"next", "all"} : clear_last(kind)
  \/ dump_fails

Steps ==
  \/ dump_static_erase \/ dump_static_write \/ dump_dynamic_erase \/ dump_dynamic_write
  \/ count_up \/ archive_static \/ archive_dynamic \/ rename_static \/ rename_static_set
  \/ rename_dynamic \/ rename_dynamic_clear \/ rename_dynamic_set
  \/ machine_free_from_ram \/ count_down \/ metadata_erase \/ metadata_write
  \/ clear_all_next

Change ==
  \/ \E w \in Writers, k \in Slots, f \in {"clear", "busy"} : machine_flags_set(w, k, f)
  \/ \E w \in Writers : machine_update(w)

Update == \/ pass_begins \/ pass_picks
          \/ single_machine_unchanged \/ single_machine_update \/ single_machine_dump

Next == Serve \/ Steps \/ Change \/ Update \/ machines_load \/ updat_Meffect \/ restart

Spec == Init /\ [][Next]_vars

-----------------------------------------------------------------------------
(* Properties.                                                             *)

\* the types of the state
TypeOK ==
  /\ machines \in [Slots -> Machine \cup {Null}] /\ nof \in 0 .. 65535 /\ loaded \in BOOLEAN
  /\ updating \in BOOLEAN
  /\ static \in [Slots -> Resources \cup {Absent}]
  /\ dynamic \in [Slots -> Flags \cup {Absent}]
  /\ metadata \in NoNumber .. 65535
  /\ server.idx \in Slots \cup {NoIndex} /\ server.res \in Resources
  /\ marking \in [Writers -> Resources \cup {Null}]
  /\ updater.at \in {"idle", "pass", "picked", "dump"} /\ updater.res \in Resources
  /\ kept \subseteq Resources /\ harmed \in BOOLEAN /\ overlap \in BOOLEAN

\* What the flash holds between orders is the table in RAM, machine by machine:
\* machines_save and machines_free leave no other number, no other order of the
\* machines and no file missing, whatever became of the orders before and of the
\* hub in between, unless one of the ways to lose the table came about.
Mirror ==
  ~harmed /\ server.at = "idle" /\ loaded =>
    /\ metadata = nof
    /\ \A k \in Slots : k < nof =>
         /\ machines[k] # Null
         /\ static[k] = machines[k].res

\* A restart at any point of an order, outside of those where machines_free has
\* files half moved or the number is being written, finds all of a table: the one
\* before the order or the one after it.
Recoverable ==
  ~harmed /\ ~Torn /\ metadata # NoNumber =>
    /\ \A k \in Slots : k < metadata => static[k] # Absent
    /\ loaded => Stored \in {before, Table}

\* Flags that are not marked as changed, and that no task is about to mark, are the
\* ones in flash: machines_update_tsk never clears the mark of a change it has not
\* stored, and a machine that moved takes its file along.
FlagsSaved ==
  ~overlap /\ ~harmed /\ loaded /\ server.at = "idle" =>
    \A k \in Slots :
      /\ k < nof
      /\ machines[k].res \notin {marking[w] : w \in Writers}
      /\ ~machines[k].changed
      => dynamic[k] = machines[k].flags

\* What the code's comment says of a deployment: a machine answered HUB_OK is saved
\* in memory and ready to be fixed, so deployment_fix_cb finds it by its name until
\* it is cleared. It is not so: an order refused afterwards drops the last machine.
ReadyToBeFixed ==
  server.at = "idle" /\ loaded /\ ~harmed => \A r \in kept : machines_order(r) \in Slots
=============================================================================
