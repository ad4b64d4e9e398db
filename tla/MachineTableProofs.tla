------------------------- MODULE MachineTableProofs -------------------------
(***************************************************************************)
(* Proofs about MachineTable: for any number of machines a hub has room    *)
(* for, any names and every bound on orders, changes, restarts and faults, *)
(* the flash holds the table of RAM between orders (Mirror), a restart     *)
(* finds a whole table (Recoverable), and flags that are not marked as     *)
(* changed are in flash (FlagsSaved).                                      *)
(***************************************************************************)
EXTENDS MachineTable, WellFoundedInduction, TLAPS

-----------------------------------------------------------------------------
(* The inductive invariant. Typed and Course hold whatever happened to the *)
(* table: the types, and what a place of the server says of its order.     *)

Rename  == {"rename_static", "rename_static_set", "rename_dynamic",
            "rename_dynamic_clear", "rename_dynamic_set"}
Archive == {"archive_static", "archive_dynamic"} \cup Rename
Count   == {"meta_erase", "meta_write"}
Dump    == {"static_erase", "static_write", "dynamic_erase", "dynamic_write", "count_up"}
Places  == {"idle", "free_from_ram", "count_down", "next"} \cup Dump \cup Archive \cup Count
Freeing == {"refused", "clear", "next", "all"}
Kinds   == Freeing \cup {"none", "deploy", "emptied"}

Order   == [at : Places, kind : Kinds, res : Resources, idx : Slots \cup {NoIndex},
            total : 0 .. MaxMachines, buf : Resources \cup Flags \cup {Absent}]
Pass    == [at : {"idle", "pass", "picked", "dump"}, k : Nat, total : Nat, res : Resources]

Typed ==
  /\ machines \in [Slots -> Machine \cup {Null}] /\ nof \in Nat
  /\ loaded \in BOOLEAN /\ updating \in BOOLEAN
  /\ static \in [Slots -> Resources \cup {Absent}]
  /\ dynamic \in [Slots -> Flags \cup {Absent}]
  /\ metadata \in Int
  /\ server \in Order /\ updater \in Pass
  /\ marking \in [Writers -> Resources \cup {Null}]
  /\ kept \subseteq Resources /\ harmed \in BOOLEAN /\ overlap \in BOOLEAN

Course ==
  /\ server.at \in Dump => server.kind = "deploy" /\ nof = server.total /\ nof < MaxMachines
  /\ server.at \in Archive \cup {"free_from_ram", "count_down"} =>
       server.kind \in Freeing /\ nof = server.total
  /\ server.at \in Archive => server.idx \in Slots
  /\ server.idx \in Slots => server.total > 0
  /\ server.kind \in {"all", "emptied"} => server.idx \in Slots
  /\ server.at \in Count =>
       \/ server.kind = "deploy" /\ nof = server.total + 1
       \/ server.kind \in Freeing /\ nof = (server.total - 1) % 65536
       \/ server.kind = "emptied" /\ nof = 0
  /\ server.at = "next" => server.kind = "all" /\ nof = server.total - 1 /\ nof > 0
  /\ server.at = "rename_static_set" => server.buf \in Resources \cup {Absent}
  /\ server.at \in {"rename_dynamic_clear", "rename_dynamic_set"} =>
       server.buf \in Flags \cup {Absent}
  /\ server.kind = "deploy" => server.idx = NoIndex

\* Before the machines are loaded the updater rests.
Turn ==
  /\ updating => ~loaded
  /\ ~loaded /\ ~updating => updater.at = "idle"
  /\ updater.at \in {"picked", "dump"} => updater.k \in Slots

\* The slots whose machine has no file of its own at this point of an order.
Unfiled(k) ==
  \/ k = server.idx /\ server.at \in (Archive \ {"archive_static"}) \cup {"free_from_ram"}
  \/ k = nof - 1 /\ server.at \in (Rename \ {"rename_static"}) \cup {"count_down"}
  \/ k = nof - 1 /\ server.at = "free_from_ram" /\ server.idx \in Slots

Present ==
  \A k \in Slots :
    k < nof => machines[k] # Null \/ (k = nof - 1 /\ server.at = "count_down")
Filed ==
  \A k \in Slots : k < nof /\ ~Unfiled(k) => static[k] = machines[k].res
Named ==
  \A j, k \in Slots :
    /\ j < nof /\ k < nof /\ machines[j] # Null /\ machines[k] # Null
    /\ machines[j].res = machines[k].res
    => j = k
Numbered ==
  /\ nof \in 0 .. MaxMachines
  /\ server.at = "meta_write" \/ metadata \in 0 .. MaxMachines
  /\ server.at \notin Count => metadata = nof

\* The machine being deployed lies behind the last one, under a name of its own.
New ==
  server.at \in Dump =>
    /\ machines[nof] # Null /\ machines[nof].res = server.res /\ machines[nof].flags = "clear"
    /\ server.at \in {"dynamic_erase", "dynamic_write", "count_up"} => static[nof] = server.res
    /\ \A k \in Slots : k < nof => machines[k].res # server.res

\* The file of the last machine is on its way to the place that becomes free.
Takes ==
  \/ server.at \in Rename \ {"rename_static", "rename_static_set"}
  \/ server.at = "free_from_ram" /\ server.idx \in Slots /\ server.idx # nof - 1
Moved ==
  /\ server.at \in Archive \cup {"free_from_ram"} /\ server.idx \in Slots => server.idx < nof
  /\ server.at \in {"free_from_ram", "count_down"} => nof > 0
  /\ server.at \in Rename => server.idx # nof - 1
  /\ server.at = "rename_static_set" => server.buf = machines[nof - 1].res
  /\ Takes => static[server.idx] = machines[nof - 1].res

\* What a restart would find: a file under each number, no name twice, and during an
\* order the table from before it.
Stands ==
  /\ \A k \in Slots : k < metadata => static[k] # Absent
  /\ \A j, k \in Slots : j < metadata /\ k < metadata /\ static[j] = static[k] => j = k
  /\ server.at \notin {"idle", "next"} => Stored = before
Found == ~Torn => Stands

\* The table is still to be loaded, or given up to an update; or it is in RAM.
Asleep ==
  /\ ~loaded /\ server.at = "idle" /\ metadata \in 0 .. MaxMachines
  /\ nof = IF updating THEN 0 ELSE metadata
  /\ \A k \in Slots : k < nof => machines[k] = Null
Awake == ~updating /\ Present /\ Filed /\ Named /\ Numbered /\ New /\ Moved
Whole == ~harmed => Found /\ (Asleep \/ Awake)

\* Flags of a machine that are not in its file are marked, or about to be.
Marked     == {marking[w] : w \in Writers}
Waiting(k) == machines[k].res \in Marked \/ machines[k].changed
Unsaved(k) ==
  \/ k = server.idx /\ server.at \in (Archive \ {"archive_static"}) \cup {"free_from_ram"}
  \/ k = nof - 1 /\ server.at \in {"rename_dynamic_clear", "rename_dynamic_set", "count_down"}
  \/ k = nof - 1 /\ server.at = "free_from_ram" /\ server.idx \in Slots
Saved ==
  /\ \A k \in Slots : k < nof /\ ~Unsaved(k) => Waiting(k) \/ dynamic[k] = machines[k].flags
  /\ server.at \in {"rename_dynamic_clear", "rename_dynamic_set"} =>
       Waiting(nof - 1) \/ server.buf = machines[nof - 1].flags
  /\ server.at = "free_from_ram" /\ server.idx \in Slots /\ server.idx # nof - 1 =>
       Waiting(nof - 1) \/ dynamic[server.idx] = machines[nof - 1].flags
  /\ server.at = "count_up" => machines[nof].changed \/ dynamic[nof] = "clear"

\* A machine whose flags are being stored stays where it is.
Storing ==
  updater.at = "dump" =>
    /\ server.at # "count_down"
    /\ Clearing \/ updater.k \in Holding(updater.res)
Flagged == ~harmed /\ ~overlap => Storing /\ (Asleep \/ Saved)

TableInv == Typed /\ Course /\ Turn /\ Whole /\ Flagged

-----------------------------------------------------------------------------
(* Looking a machine up.                                                   *)

LEMMA Least ==
  ASSUME NEW S \in SUBSET Nat, S # {}
  PROVE  Min(S) \in S
<1>1. PICK x \in S : \A y \in S : ~(<<y, x>> \in OpToRel(<, Nat))
  BY WFMin, NatLessThanWellFounded, Zenon
<1>2. \A y \in S : ~(y < x)
  BY <1>1 DEF OpToRel
<1>3. \A y \in S : x <= y
  BY <1>2
<1> QED
  BY <1>3 DEF Min

LEMMA SlotFacts ==
  /\ \A k \in Slots : k \in Nat /\ k < MaxMachines /\ k # NoIndex /\ k # Crash
  /\ \A k \in Nat : k < MaxMachines => k \in Slots
  /\ MaxMachines \in Nat \ {0} /\ MaxMachines < NoIndex
BY TableAssumption DEF Slots, NoIndex, Crash

\* The answer of machines_order is the slot of a machine with that name, or says that
\* there is none below the number, or that a slot below it is empty.
LEMMA Ordered ==
  ASSUME NEW r, nof \in Nat
  PROVE  /\ machines_order(r) \in Slots \cup {NoIndex, Crash}
         /\ machines_order(r) \in Slots =>
              /\ machines_order(r) < nof /\ machines[machines_order(r)] # Null
              /\ machines[machines_order(r)].res = r
         /\ machines_order(r) = NoIndex =>
              \A k \in Slots : k < nof => machines[k] # Null /\ machines[k].res # r
<1> DEFINE stops == {k \in Slots : k < nof /\ (machines[k] = Null \/ machines[k].res = r)}
<1>1. CASE stops = {}
  BY <1>1, SlotFacts DEF machines_order, NoIndex, Crash
<1>2. CASE stops # {}
  <2>1. Min(stops) \in stops
    BY <1>2, Least, SlotFacts
  <2>2. machines_order(r) = IF machines[Min(stops)] = Null THEN Crash ELSE Min(stops)
    BY <1>2 DEF machines_order
  <2> HIDE DEF stops
  <2>3. Min(stops) \in Slots /\ Min(stops) < nof
    BY <2>1 DEF stops
  <2>4. machines[Min(stops)] = Null \/ machines[Min(stops)].res = r
    BY <2>1 DEF stops
  <2> QED
    BY <2>2, <2>3, <2>4, SlotFacts DEF NoIndex, Crash
<1> QED
  BY <1>1, <1>2
-----------------------------------------------------------------------------
(* What the steps of an order have in common.                              *)

\* A step from one place of an order to the next leaves the rest of the order alone.
LEMMA GoesOn ==
  ASSUME NEW here, NEW there, there \in Places, server \in Order, At(here, there)
  PROVE  /\ server.at = here /\ server'.at = there /\ server' \in Order
         /\ server'.kind = server.kind /\ server'.res = server.res
         /\ server'.idx = server.idx /\ server'.total = server.total
         /\ server'.buf = server.buf
BY DEF At, Order

\* Within an order the table is awake, so that only that half of the invariant counts.
LEMMA StepKeeps ==
  ASSUME TableInv, server.at # "idle", Typed', Course',
         UNCHANGED <<loaded, updating, updater, harmed, overlap>>,
         ~harmed /\ Found /\ Awake => Found' /\ Awake',
         ~harmed /\ ~overlap /\ Awake /\ Storing /\ Saved => Storing' /\ Saved'
  PROVE  TableInv'
<1>1. Turn'
  BY DEF TableInv, Turn
<1>2. ~harmed => Found /\ Awake
  BY DEF TableInv, Whole, Asleep
<1>3. ~harmed /\ ~overlap => Storing /\ Saved
  BY DEF TableInv, Flagged, Asleep
<1> QED
  BY <1>1, <1>2, <1>3 DEF TableInv, Whole, Flagged

\* Files beyond the number are not found by a restart.
LEMMA StandsKept ==
  ASSUME Stands, server.at \notin {"idle", "next"}, UNCHANGED <<metadata, before>>,
         \A k \in Slots : k < metadata => static'[k] = static[k]
  PROVE  Stands'
<1>1. Stored' = Stored
  BY DEF Stored
<1> QED
  BY <1>1 DEF Stands

-----------------------------------------------------------------------------
(* Filing a machine: its files are written behind those of the others.     *)

LEMMA DumpStaticEraseKeeps ==
  ASSUME TableInv, dump_static_erase
  PROVE  TableInv'
<1>1. /\ server.at = "static_erase" /\ server'.at = "static_write" /\ server' \in Order
      /\ server'.kind = server.kind /\ server'.res = server.res
      /\ server'.idx = server.idx /\ server'.total = server.total
      /\ server'.buf = server.buf
  <2>1. "static_write" \in Places
    BY DEF Places, Dump
  <2> QED
    BY <2>1, GoesOn DEF dump_static_erase, TableInv, Typed
<1>2. /\ static' = [static EXCEPT ![server.total] = Absent]
      /\ UNCHANGED <<machines, nof, loaded, updating, dynamic, metadata, kept, marking,
                     updater, before, harmed, overlap>>
  BY DEF dump_static_erase, Serving, ram
<1>3. Typed'
  BY <1>1, <1>2 DEF TableInv, Typed
<1>4. Course'
  BY <1>1, <1>2 DEF TableInv, Course, Archive, Rename, Dump, Count
<1>5. nof = server.total /\ nof < MaxMachines /\ nof \in Nat
  BY <1>1 DEF TableInv, Course, Dump, Typed
<1>6. \A k \in Slots : k < nof => static'[k] = static[k]
  BY <1>2, <1>5, SlotFacts DEF TableInv, Typed
<1>7. ASSUME ~harmed, Found, Awake PROVE Found' /\ Awake'
  <2>1. Found'
    BY <1>1, <1>2, <1>6, <1>7, StandsKept DEF Found, Torn, Awake, Numbered, Count
  <2>2. Filed'
    BY <1>1, <1>2, <1>6, <1>7 DEF Awake, Filed, Unfiled, Archive, Rename
  <2>3. New' /\ Moved'
    BY <1>1, <1>2, <1>7 DEF Awake, New, Moved, Takes, Dump, Archive, Rename
  <2>4. Present' /\ Named' /\ Numbered'
    BY <1>1, <1>2, <1>7 DEF Awake, Present, Named, Numbered, Count
  <2> QED
    BY <1>2, <1>7, <2>1, <2>2, <2>3, <2>4 DEF Awake
<1>8. ASSUME Storing, Saved PROVE Storing' /\ Saved'
  BY <1>1, <1>2, <1>8 DEF Storing, Clearing, Holding, InUse, Filing, Saved, Unsaved, Waiting,
                          Marked, Archive, Rename
<1> QED
  BY <1>1, <1>2, <1>3, <1>4, <1>7, <1>8, StepKeeps

LEMMA DumpStaticWriteKeeps ==
  ASSUME TableInv, dump_static_write
  PROVE  TableInv'
<1>1. /\ server.at = "static_write" /\ server'.at = "dynamic_erase" /\ server' \in Order
      /\ server'.kind = server.kind /\ server'.res = server.res
      /\ server'.idx = server.idx /\ server'.total = server.total
      /\ server'.buf = server.buf
  <2>1. "dynamic_erase" \in Places
    BY DEF Places, Dump
  <2> QED
    BY <2>1, GoesOn DEF dump_static_write, TableInv, Typed
<1>2. /\ static' = [static EXCEPT ![server.total] = server.res]
      /\ UNCHANGED <<machines, nof, loaded, updating, dynamic, metadata,
                     kept, marking, updater, before, harmed, overlap>>
  BY DEF dump_static_write, Serving, ram
<1>3. Typed'
  BY <1>1, <1>2 DEF TableInv, Typed, Order
<1>4. Course'
  BY <1>1, <1>2 DEF TableInv, Course, Archive, Rename, Dump, Count
<1>5. nof = server.total /\ nof < MaxMachines /\ nof \in Nat
  BY <1>1 DEF TableInv, Course, Dump, Typed
<1>6. static'[nof] = server.res /\ \A k \in Slots : k < nof => static'[k] = static[k]
  BY <1>2, <1>5, SlotFacts DEF TableInv, Typed
<1>7. ASSUME ~harmed, Found, Awake PROVE Found' /\ Awake'
  <2>1. Found'
    BY <1>1, <1>2, <1>6, <1>7, StandsKept DEF Found, Torn, Awake, Numbered, Count
  <2>2. Filed'
    BY <1>1, <1>2, <1>6, <1>7 DEF Awake, Filed, Unfiled, Archive, Rename
  <2>3. New' /\ Moved'
    BY <1>1, <1>2, <1>6, <1>7 DEF Awake, New, Moved, Takes, Dump, Archive, Rename
  <2>4. Present' /\ Named' /\ Numbered'
    BY <1>1, <1>2, <1>7 DEF Awake, Present, Named, Numbered, Count
  <2> QED
    BY <1>2, <1>7, <2>1, <2>2, <2>3, <2>4 DEF Awake
<1>8. ASSUME Storing, Saved PROVE Storing' /\ Saved'
  BY <1>1, <1>2, <1>8 DEF Storing, Clearing, Holding, InUse, Filing, Saved, Unsaved, Waiting,
                          Marked, Archive, Rename
<1> QED
  BY <1>1, <1>2, <1>3, <1>4, <1>7, <1>8, StepKeeps

LEMMA DumpDynamicEraseKeeps ==
  ASSUME TableInv, dump_dynamic_erase
  PROVE  TableInv'
<1>1. /\ server.at = "dynamic_erase" /\ server'.at = "dynamic_write" /\ server' \in Order
      /\ server'.kind = server.kind /\ server'.res = server.res
      /\ server'.idx = server.idx /\ server'.total = server.total
      /\ server'.buf = server.buf
  <2>1. "dynamic_write" \in Places
    BY DEF Places, Dump
  <2> QED
    BY <2>1, GoesOn DEF dump_dynamic_erase, TableInv, Typed
<1>2. /\ dynamic' = [dynamic EXCEPT ![server.total] = Absent]
      /\ UNCHANGED <<machines, nof, loaded, updating, static, metadata,
                     kept, marking, updater, before, harmed, overlap>>
  BY DEF dump_dynamic_erase, Serving, ram
<1>3. Typed'
  BY <1>1, <1>2 DEF TableInv, Typed
<1>4. Course'
  BY <1>1, <1>2 DEF TableInv, Course, Archive, Rename, Dump, Count
<1>5. nof = server.total /\ nof < MaxMachines /\ nof \in Nat
  BY <1>1 DEF TableInv, Course, Dump, Typed
<1>6. \A k \in Slots : k < nof => dynamic'[k] = dynamic[k]
  BY <1>2, <1>5, SlotFacts DEF TableInv, Typed
<1>7. ASSUME ~harmed, Found, Awake PROVE Found' /\ Awake'
  <2>1. Found'
    BY <1>1, <1>2, <1>7, StandsKept DEF Found, Torn, Awake, Numbered, Count
  <2>2. Filed'
    BY <1>1, <1>2, <1>7 DEF Awake, Filed, Unfiled, Archive, Rename
  <2>3. New' /\ Moved'
    BY <1>1, <1>2, <1>7 DEF Awake, New, Moved, Takes, Dump, Archive, Rename
  <2>4. Present' /\ Named' /\ Numbered'
    BY <1>1, <1>2, <1>7 DEF Awake, Present, Named, Numbered, Count
  <2> QED
    BY <1>2, <1>7, <2>1, <2>2, <2>3, <2>4 DEF Awake
<1>8. ASSUME Storing, Saved PROVE Storing' /\ Saved'
  BY <1>1, <1>2, <1>6, <1>8 DEF Storing, Clearing, Holding, InUse, Filing, Saved, Unsaved, Waiting,
                          Marked, Archive, Rename
<1> QED
  BY <1>1, <1>2, <1>3, <1>4, <1>7, <1>8, StepKeeps

LEMMA DumpDynamicWriteKeeps ==
  ASSUME TableInv, dump_dynamic_write
  PROVE  TableInv'
<1>1. /\ server.at = "dynamic_write" /\ server'.at = "count_up" /\ server' \in Order
      /\ server'.kind = server.kind /\ server'.res = server.res
      /\ server'.idx = server.idx /\ server'.total = server.total
      /\ server'.buf = server.buf
  <2>1. "count_up" \in Places
    BY DEF Places, Dump
  <2> QED
    BY <2>1, GoesOn DEF dump_dynamic_write, TableInv, Typed
<1>2. /\ dynamic' = [dynamic EXCEPT ![server.total] = "clear"]
      /\ UNCHANGED <<machines, nof, loaded, updating, static, metadata,
                     kept, marking, updater, before, harmed, overlap>>
  BY DEF dump_dynamic_write, Serving, ram
<1>3. Typed'
  BY <1>1, <1>2 DEF TableInv, Typed, Flags
<1>4. Course'
  BY <1>1, <1>2 DEF TableInv, Course, Archive, Rename, Dump, Count
<1>5. nof = server.total /\ nof < MaxMachines /\ nof \in Nat
  BY <1>1 DEF TableInv, Course, Dump, Typed
<1>6. dynamic'[nof] = "clear" /\ \A k \in Slots : k < nof => dynamic'[k] = dynamic[k]
  BY <1>2, <1>5, SlotFacts DEF TableInv, Typed
<1>7. ASSUME ~harmed, Found, Awake PROVE Found' /\ Awake'
  <2>1. Found'
    BY <1>1, <1>2, <1>7, StandsKept DEF Found, Torn, Awake, Numbered, Count
  <2>2. Filed'
    BY <1>1, <1>2, <1>7 DEF Awake, Filed, Unfiled, Archive, Rename
  <2>3. New' /\ Moved'
    BY <1>1, <1>2, <1>7 DEF Awake, New, Moved, Takes, Dump, Archive, Rename
  <2>4. Present' /\ Named' /\ Numbered'
    BY <1>1, <1>2, <1>7 DEF Awake, Present, Named, Numbered, Count
  <2> QED
    BY <1>2, <1>7, <2>1, <2>2, <2>3, <2>4 DEF Awake
<1>8. ASSUME Storing, Saved PROVE Storing' /\ Saved'
  BY <1>1, <1>2, <1>6, <1>8 DEF Storing, Clearing, Holding, InUse, Filing, Saved, Unsaved, Waiting,
                          Marked, Archive, Rename
<1> QED
  BY <1>1, <1>2, <1>3, <1>4, <1>7, <1>8, StepKeeps

LEMMA CountUpKeeps ==
  ASSUME TableInv, count_up
  PROVE  TableInv'
<1>1. /\ server.at = "count_up" /\ server'.at = "meta_erase" /\ server' \in Order
      /\ server'.kind = server.kind /\ server'.res = server.res
      /\ server'.idx = server.idx /\ server'.total = server.total
      /\ server'.buf = server.buf
  <2>1. "meta_erase" \in Places
    BY DEF Places, Count
  <2> QED
    BY <2>1, GoesOn DEF count_up, TableInv, Typed
<1>2. /\ nof' = server.total + 1
      /\ UNCHANGED <<machines, loaded, updating, static, dynamic, metadata,
                     kept, marking, updater, before, harmed, overlap>>
  BY DEF count_up, Serving, ram, flash
<1>5. nof = server.total /\ nof < MaxMachines /\ nof \in Nat /\ server.kind = "deploy"
  BY <1>1 DEF TableInv, Course, Dump, Typed
<1>3. Typed'
  BY <1>1, <1>2, <1>5 DEF TableInv, Typed
<1>4. Course'
  BY <1>1, <1>2 DEF TableInv, Course, Archive, Rename, Dump, Count
<1>6. \A k \in Slots : k \in Nat /\ (k < nof' <=> k < nof \/ k = nof)
  BY <1>2, <1>5, SlotFacts
<1>7. ASSUME ~harmed, Found, Awake PROVE Found' /\ Awake'
  <2>1. Found'
    BY <1>1, <1>2, <1>7, StandsKept DEF Found, Torn
  <2>2. New /\ Filed /\ Present /\ Named
    BY <1>7 DEF Awake
  <2>3. /\ machines[nof] # Null /\ machines[nof].res = server.res /\ static[nof] = server.res
        /\ \A k \in Slots : k < nof => machines[k].res # server.res /\ machines[k] # Null
    BY <1>1, <2>2 DEF New, Present, Dump
  <2>4. Filed' /\ Present'
    BY <1>1, <1>2, <1>6, <2>2, <2>3 DEF Filed, Unfiled, Present, Archive, Rename
  <2>5. Named'
    BY <1>1, <1>2, <1>6, <2>2, <2>3 DEF Named
  <2>6. New' /\ Moved'
    BY <1>1 DEF New, Moved, Takes, Dump, Archive, Rename
  <2>7. Numbered'
    BY <1>1, <1>2, <1>5, <1>7, SlotFacts DEF Awake, Numbered, Count
  <2> QED
    BY <1>2, <1>7, <2>1, <2>4, <2>5, <2>6, <2>7 DEF Awake
<1>8. ASSUME ~harmed, Awake, Storing, Saved PROVE Storing' /\ Saved'
  <2>1. machines[nof].flags = "clear"
    BY <1>1, <1>8 DEF Awake, New, Dump
  <2>2. Storing'
    BY <1>1, <1>2, <1>6, <1>8 DEF Storing, Clearing, Holding, InUse, Filing
  <2>3. Saved'
    BY <1>1, <1>2, <1>6, <1>8, <2>1 DEF Saved, Unsaved, Waiting, Marked, Archive, Rename
  <2> QED
    BY <2>2, <2>3
<1> QED
  BY <1>1, <1>2, <1>3, <1>4, <1>7, <1>8, StepKeeps

-----------------------------------------------------------------------------
(* Freeing a machine: its files go, those of the last machine take their   *)
(* place, then the machine in RAM, then the number.                        *)

LEMMA ArchiveStaticKeeps ==
  ASSUME TableInv, archive_static
  PROVE  TableInv'
<1>1. /\ server.at = "archive_static" /\ server'.at = "archive_dynamic" /\ server' \in Order
      /\ server'.kind = server.kind /\ server'.res = server.res
      /\ server'.idx = server.idx /\ server'.total = server.total
      /\ server'.buf = server.buf
  <2>1. "archive_dynamic" \in Places
    BY DEF Places, Archive
  <2> QED
    BY <2>1, GoesOn DEF archive_static, TableInv, Typed
<1>2. /\ static' = [static EXCEPT ![server.idx] = Absent]
      /\ UNCHANGED <<machines, nof, loaded, updating, dynamic, metadata,
                     kept, marking, updater, before, harmed, overlap>>
  BY DEF archive_static, Serving, ram
<1>3. Typed'
  BY <1>1, <1>2 DEF TableInv, Typed
<1>4. Course'
  BY <1>1, <1>2 DEF TableInv, Course, Archive, Rename, Dump, Count
<1>5. server.idx \in Slots /\ nof \in Nat
  BY <1>1 DEF TableInv, Course, Archive, Rename, Typed
<1>6. \A k \in Slots : k # server.idx => static'[k] = static[k]
  BY <1>2 DEF TableInv, Typed
<1>7. ASSUME ~harmed, Found, Awake PROVE Found' /\ Awake'
  <2>1. Found'
    BY <1>1, <1>2, <1>5 DEF Found, Torn
  <2>2. Filed'
    BY <1>1, <1>2, <1>6, <1>7 DEF Awake, Filed, Unfiled, Archive, Rename
  <2>3. New' /\ Moved'
    BY <1>1, <1>2, <1>7 DEF Awake, New, Moved, Takes, Dump, Archive, Rename
  <2>4. Present' /\ Named' /\ Numbered'
    BY <1>1, <1>2, <1>7 DEF Awake, Present, Named, Numbered, Count
  <2> QED
    BY <1>2, <1>7, <2>1, <2>2, <2>3, <2>4 DEF Awake
<1>8. ASSUME ~harmed, Awake, Storing, Saved PROVE Storing' /\ Saved'
  <2>1. Storing'
    BY <1>1, <1>2, <1>8 DEF Storing, Clearing
  <2>2. Saved'
    BY <1>1, <1>2, <1>8 DEF Saved, Unsaved, Waiting, Marked, Archive, Rename
  <2> QED
    BY <2>1, <2>2
<1> QED
  BY <1>1, <1>2, <1>3, <1>4, <1>7, <1>8, StepKeeps

LEMMA ArchiveDynamicKeeps ==
  ASSUME TableInv, archive_dynamic
  PROVE  TableInv'
<1>0. PICK to \in {"free_from_ram", "rename_static"} :
        /\ At("archive_dynamic", to)
        /\ to = "free_from_ram" <=> server.idx = server.total - 1
  BY DEF archive_dynamic
<1>1. /\ server.at = "archive_dynamic" /\ server'.at = to /\ server' \in Order
      /\ server'.kind = server.kind /\ server'.res = server.res
      /\ server'.idx = server.idx /\ server'.total = server.total
      /\ server'.buf = server.buf
  <2>1. to \in Places
    BY DEF Places, Archive, Rename
  <2> QED
    BY <1>0, <2>1, GoesOn DEF TableInv, Typed
<1>2. /\ dynamic' = [dynamic EXCEPT ![server.idx] = Absent]
      /\ UNCHANGED <<machines, nof, loaded, updating, static, metadata, kept,
                     marking, updater, before, harmed, overlap>>
  BY DEF archive_dynamic, Serving, ram
<1>3. Typed'
  BY <1>1, <1>2 DEF TableInv, Typed
<1>4. Course'
  BY <1>1, <1>2 DEF TableInv, Course, Archive, Rename, Dump, Count
<1>5. server.idx \in Slots /\ nof \in Nat /\ nof = server.total
  BY <1>1 DEF TableInv, Course, Archive, Rename, Typed
<1>6. \A k \in Slots : k # server.idx => dynamic'[k] = dynamic[k]
  BY <1>2 DEF TableInv, Typed
<1>7. ASSUME ~harmed, Found, Awake PROVE Found' /\ Awake'
  <2>1. Found'
    BY <1>1, <1>2, <1>5 DEF Found, Torn
  <2>2. Filed'
    BY <1>1, <1>2, <1>0, <1>5, <1>7 DEF Awake, Filed, Unfiled, Archive, Rename
  <2>3. New' /\ Moved'
    BY <1>1, <1>2, <1>0, <1>5, SlotFacts, <1>7 DEF Awake, New, Moved, Takes, Dump, Archive, Rename
  <2>4. Present' /\ Named' /\ Numbered'
    BY <1>1, <1>2, <1>7 DEF Awake, Present, Named, Numbered, Count
  <2> QED
    BY <1>2, <1>7, <2>1, <2>2, <2>3, <2>4 DEF Awake
<1>8. ASSUME ~harmed, Awake, Storing, Saved PROVE Storing' /\ Saved'
  <2>1. Storing'
    BY <1>1, <1>2, <1>8 DEF Storing, Clearing
  <2>2. Saved'
    BY <1>1, <1>2, <1>0, <1>5, <1>6, <1>8 DEF Saved, Unsaved, Waiting, Marked, Archive, Rename
  <2> QED
    BY <2>1, <2>2
<1> QED
  BY <1>1, <1>2, <1>3, <1>4, <1>7, <1>8, StepKeeps

LEMMA RenameStaticKeeps ==
  ASSUME TableInv, rename_static
  PROVE  TableInv'
<1>1. server.at = "rename_static" /\ server \in Order
  BY DEF rename_static, TableInv, Typed
<1>5. /\ server.idx \in Slots /\ nof \in Nat /\ nof = server.total /\ nof > 0
      /\ nof - 1 \in Slots
  BY <1>1, SlotFacts DEF TableInv, Course, Archive, Rename, Typed, Order
<1>0. PICK b \in Resources \cup {Absent}, to \in {"rename_dynamic", "rename_static_set"} :
        /\ b = static[nof - 1] /\ (to = "rename_dynamic" <=> b = Absent)
        /\ server' = [server EXCEPT !.buf = b, !.at = to]
  BY <1>5 DEF rename_static, TableInv, Typed
<1>2. /\ server'.at = to /\ server'.buf = b /\ server' \in Order
      /\ server'.kind = server.kind /\ server'.res = server.res
      /\ server'.idx = server.idx /\ server'.total = server.total
  <2>1. to \in Places
    BY DEF Places, Archive, Rename
  <2> QED
    BY <1>0, <1>1, <2>1 DEF Order
<1>3. /\ static' = [static EXCEPT ![nof - 1] = Absent]
      /\ UNCHANGED <<machines, nof, loaded, updating, dynamic, metadata, kept, marking,
                     updater, before, harmed, overlap>>
  BY DEF rename_static, Serving, ram
<1>4. Typed'
  BY <1>2, <1>3 DEF TableInv, Typed
<1>6. Course'
  BY <1>0, <1>1, <1>2, <1>3 DEF TableInv, Course, Archive, Rename, Dump, Count
<1>7. ASSUME ~harmed, Found, Awake PROVE Found' /\ Awake'
  <2>1. Found'
    BY <1>0, <1>2, <1>5 DEF Found, Torn
  <2>2. \A k \in Slots : k # nof - 1 => static'[k] = static[k]
    BY <1>3 DEF TableInv, Typed
  <2>3. Filed'
    BY <1>0, <1>1, <1>2, <1>3, <1>7, <2>2 DEF Awake, Filed, Unfiled, Archive, Rename
  <2>4. static[nof - 1] = machines[nof - 1].res
    BY <1>1, <1>5, <1>7 DEF Awake, Filed, Unfiled, Moved, Archive, Rename
  <2>5. static[nof - 1] # Absent
    <3>1. machines[nof - 1] \in Machine
      BY <1>1, <1>5, <1>7 DEF Awake, Present, TableInv, Typed
    <3> QED
      BY <2>4, <3>1, TableAssumption DEF Machine
  <2>6. New' /\ Moved'
    BY <1>0, <1>1, <1>2, <1>3, <1>5, <1>7, <2>4, <2>5
    DEF Awake, New, Moved, Takes, Dump, Archive, Rename
  <2>7. Present' /\ Named' /\ Numbered'
    BY <1>0, <1>1, <1>2, <1>3, <1>7 DEF Awake, Present, Named, Numbered, Count
  <2> QED
    BY <1>3, <1>7, <2>1, <2>3, <2>6, <2>7 DEF Awake
<1>8. ASSUME Storing, Saved PROVE Storing' /\ Saved'
  <2>1. Storing'
    BY <1>0, <1>2, <1>3, <1>8 DEF Storing, Clearing
  <2>2. Saved'
    BY <1>0, <1>1, <1>2, <1>3, <1>8 DEF Saved, Unsaved, Waiting, Marked, Archive, Rename
  <2> QED
    BY <2>1, <2>2
<1> QED
  BY <1>1, <1>3, <1>4, <1>6, <1>7, <1>8, StepKeeps

LEMMA RenameStaticSetKeeps ==
  ASSUME TableInv, rename_static_set
  PROVE  TableInv'
<1>1. /\ server.at = "rename_static_set" /\ server'.at = "rename_dynamic" /\ server' \in Order
      /\ server'.kind = server.kind /\ server'.res = server.res
      /\ server'.idx = server.idx /\ server'.total = server.total
      /\ server'.buf = server.buf
  <2>1. "rename_dynamic" \in Places
    BY DEF Places, Archive, Rename
  <2> QED
    BY <2>1, GoesOn DEF rename_static_set, TableInv, Typed
<1>2. /\ static' = [static EXCEPT ![server.idx] = server.buf]
      /\ UNCHANGED <<machines, nof, loaded, updating, dynamic, metadata,
                     kept, marking, updater, before, harmed, overlap>>
  BY DEF rename_static_set, Serving, ram
<1>3. Typed'
  <2>1. server.buf \in Resources \cup {Absent}
    BY <1>1 DEF TableInv, Course
  <2> QED
    BY <1>1, <1>2, <2>1 DEF TableInv, Typed
<1>4. Course'
  BY <1>1, <1>2 DEF TableInv, Course, Archive, Rename, Dump, Count
<1>5. /\ server.idx \in Slots /\ nof \in Nat /\ nof = server.total /\ nof > 0
      /\ nof - 1 \in Slots
  BY <1>1, SlotFacts DEF TableInv, Course, Archive, Rename, Typed, Order
<1>6. /\ \A k \in Slots : k # server.idx => static'[k] = static[k]
      /\ static'[server.idx] = server.buf
  BY <1>2, <1>5 DEF TableInv, Typed
<1>7. ASSUME ~harmed, Found, Awake PROVE Found' /\ Awake'
  <2>1. Found'
    BY <1>1, <1>2, <1>5 DEF Found, Torn
  <2>2. Filed'
    BY <1>1, <1>2, <1>6, <1>7 DEF Awake, Filed, Unfiled, Archive, Rename
  <2>3. New' /\ Moved'
    BY <1>1, <1>2, <1>6, <1>7 DEF Awake, New, Moved, Takes, Dump, Archive, Rename
  <2>4. Present' /\ Named' /\ Numbered'
    BY <1>1, <1>2, <1>7 DEF Awake, Present, Named, Numbered, Count
  <2> QED
    BY <1>2, <1>7, <2>1, <2>2, <2>3, <2>4 DEF Awake
<1>8. ASSUME ~harmed, Awake, Storing, Saved PROVE Storing' /\ Saved'
  <2>1. Storing'
    BY <1>1, <1>2, <1>8 DEF Storing, Clearing
  <2>2. Saved'
    BY <1>1, <1>2, <1>8 DEF Saved, Unsaved, Waiting, Marked, Archive, Rename
  <2> QED
    BY <2>1, <2>2
<1> QED
  BY <1>1, <1>2, <1>3, <1>4, <1>7, <1>8, StepKeeps

LEMMA RenameDynamicKeeps ==
  ASSUME TableInv, rename_dynamic
  PROVE  TableInv'
<1>1. server.at = "rename_dynamic" /\ server \in Order
  BY DEF rename_dynamic, TableInv, Typed
<1>5. /\ server.idx \in Slots /\ nof \in Nat /\ nof = server.total /\ nof > 0
      /\ nof - 1 \in Slots
  BY <1>1, SlotFacts DEF TableInv, Course, Archive, Rename, Typed, Order
<1>0. PICK b \in Flags \cup {Absent}, to \in {"free_from_ram", "rename_dynamic_clear"} :
        /\ b = dynamic[nof - 1] /\ (to = "free_from_ram" <=> b = Absent)
        /\ server' = [server EXCEPT !.buf = b, !.at = to]
  BY <1>5 DEF rename_dynamic, TableInv, Typed
<1>2. /\ server'.at = to /\ server'.buf = b /\ server' \in Order
      /\ server'.kind = server.kind /\ server'.res = server.res
      /\ server'.idx = server.idx /\ server'.total = server.total
  <2>1. to \in Places
    BY DEF Places, Archive, Rename
  <2> QED
    BY <1>0, <1>1, <2>1 DEF Order
<1>3. UNCHANGED <<machines, nof, loaded, updating, static, dynamic, metadata, kept, marking,
                  updater, before, harmed, overlap>>
  BY DEF rename_dynamic, Serving, ram, flash
<1>4. Typed'
  BY <1>2, <1>3 DEF TableInv, Typed
<1>6. Course'
  BY <1>0, <1>1, <1>2, <1>3 DEF TableInv, Course, Archive, Rename, Dump, Count
<1>7. ASSUME ~harmed, Found, Awake PROVE Found' /\ Awake'
  <2>1. Found'
    BY <1>0, <1>2, <1>5 DEF Found, Torn
  <2>2. Filed'
    BY <1>0, <1>1, <1>2, <1>3, <1>5, <1>7 DEF Awake, Filed, Unfiled, Archive, Rename
  <2>3. New' /\ Moved'
    BY <1>0, <1>1, <1>2, <1>3, <1>5, <1>7 DEF Awake, New, Moved, Takes, Dump, Archive, Rename
  <2>4. Present' /\ Named' /\ Numbered'
    BY <1>0, <1>1, <1>2, <1>3, <1>7 DEF Awake, Present, Named, Numbered, Count
  <2> QED
    BY <1>3, <1>7, <2>1, <2>2, <2>3, <2>4 DEF Awake
<1>8. ASSUME ~harmed, Awake, Storing, Saved PROVE Storing' /\ Saved'
  <2>1. Storing'
    BY <1>0, <1>2, <1>3, <1>8 DEF Storing, Clearing
  <2>2. Waiting(nof - 1) \/ dynamic[nof - 1] = machines[nof - 1].flags
    BY <1>1, <1>5, <1>8 DEF Awake, Moved, Saved, Unsaved, Archive, Rename
  <2>3. machines[nof - 1].flags # Absent
    <3>1. machines[nof - 1] \in Machine
      BY <1>1, <1>5, <1>8 DEF Awake, Present, TableInv, Typed
    <3> QED
      BY <3>1 DEF Machine, Flags, Absent
  <2>4. \A k \in Slots : Waiting(k)' = Waiting(k)
    BY <1>3 DEF Waiting, Marked
  <2>5. Saved'
    BY <1>0, <1>1, <1>2, <1>3, <1>5, <1>8, <2>2, <2>3, <2>4 DEF Saved, Unsaved, Archive, Rename
  <2> QED
    BY <2>1, <2>5
<1> QED
  BY <1>1, <1>3, <1>4, <1>6, <1>7, <1>8, StepKeeps

LEMMA RenameDynamicClearKeeps ==
  ASSUME TableInv, rename_dynamic_clear
  PROVE  TableInv'
<1>1. /\ server.at = "rename_dynamic_clear" /\ server'.at = "rename_dynamic_set" /\ server' \in Order
      /\ server'.kind = server.kind /\ server'.res = server.res
      /\ server'.idx = server.idx /\ server'.total = server.total
      /\ server'.buf = server.buf
  <2>1. "rename_dynamic_set" \in Places
    BY DEF Places, Archive, Rename
  <2> QED
    BY <2>1, GoesOn DEF rename_dynamic_clear, TableInv, Typed
<1>2. /\ dynamic' = [dynamic EXCEPT ![nof - 1] = Absent]
      /\ UNCHANGED <<machines, nof, loaded, updating, static, metadata,
                     kept, marking, updater, before, harmed, overlap>>
  BY DEF rename_dynamic_clear, Serving, ram
<1>3. Typed'
  BY <1>1, <1>2 DEF TableInv, Typed
<1>4. Course'
  BY <1>1, <1>2 DEF TableInv, Course, Archive, Rename, Dump, Count
<1>5. /\ server.idx \in Slots /\ nof \in Nat /\ nof = server.total /\ nof > 0
      /\ nof - 1 \in Slots
  BY <1>1, SlotFacts DEF TableInv, Course, Archive, Rename, Typed, Order
<1>6. \A k \in Slots : k # nof - 1 => dynamic'[k] = dynamic[k]
  BY <1>2 DEF TableInv, Typed
<1>7. ASSUME ~harmed, Found, Awake PROVE Found' /\ Awake'
  <2>1. Found'
    BY <1>1, <1>2, <1>5 DEF Found, Torn
  <2>2. Filed'
    BY <1>1, <1>2, <1>7 DEF Awake, Filed, Unfiled, Archive, Rename
  <2>3. New' /\ Moved'
    BY <1>1, <1>2, <1>7 DEF Awake, New, Moved, Takes, Dump, Archive, Rename
  <2>4. Present' /\ Named' /\ Numbered'
    BY <1>1, <1>2, <1>7 DEF Awake, Present, Named, Numbered, Count
  <2> QED
    BY <1>2, <1>7, <2>1, <2>2, <2>3, <2>4 DEF Awake
<1>8. ASSUME ~harmed, Awake, Storing, Saved PROVE Storing' /\ Saved'
  <2>1. Storing'
    BY <1>1, <1>2, <1>8 DEF Storing, Clearing
  <2>2. Saved'
    BY <1>1, <1>2, <1>6, <1>8 DEF Saved, Unsaved, Waiting, Marked, Archive, Rename
  <2> QED
    BY <2>1, <2>2
<1> QED
  BY <1>1, <1>2, <1>3, <1>4, <1>7, <1>8, StepKeeps

LEMMA RenameDynamicSetKeeps ==
  ASSUME TableInv, rename_dynamic_set
  PROVE  TableInv'
<1>1. /\ server.at = "rename_dynamic_set" /\ server'.at = "free_from_ram" /\ server' \in Order
      /\ server'.kind = server.kind /\ server'.res = server.res
      /\ server'.idx = server.idx /\ server'.total = server.total
      /\ server'.buf = server.buf
  <2>1. "free_from_ram" \in Places
    BY DEF Places, Archive, Rename
  <2> QED
    BY <2>1, GoesOn DEF rename_dynamic_set, TableInv, Typed
<1>2. /\ dynamic' = [dynamic EXCEPT ![server.idx] = server.buf]
      /\ UNCHANGED <<machines, nof, loaded, updating, static, metadata,
                     kept, marking, updater, before, harmed, overlap>>
  BY DEF rename_dynamic_set, Serving, ram
<1>3. Typed'
  <2>1. server.buf \in Flags \cup {Absent}
    BY <1>1 DEF TableInv, Course
  <2> QED
    BY <1>1, <1>2, <2>1 DEF TableInv, Typed
<1>4. Course'
  BY <1>1, <1>2 DEF TableInv, Course, Archive, Rename, Dump, Count
<1>5. /\ server.idx \in Slots /\ nof \in Nat /\ nof = server.total /\ nof > 0
      /\ nof - 1 \in Slots
  BY <1>1, SlotFacts DEF TableInv, Course, Archive, Rename, Typed, Order
<1>6. /\ \A k \in Slots : k # server.idx => dynamic'[k] = dynamic[k]
      /\ dynamic'[server.idx] = server.buf
  BY <1>2, <1>5 DEF TableInv, Typed
<1>7. ASSUME ~harmed, Found, Awake PROVE Found' /\ Awake'
  <2>1. Found'
    BY <1>1, <1>2, <1>5 DEF Found, Torn
  <2>2. Filed'
    BY <1>1, <1>2, <1>5, <1>7 DEF Awake, Filed, Unfiled, Archive, Rename
  <2>3. New' /\ Moved'
    BY <1>1, <1>2, <1>5, <1>7 DEF Awake, New, Moved, Takes, Dump, Archive, Rename
  <2>4. Present' /\ Named' /\ Numbered'
    BY <1>1, <1>2, <1>7 DEF Awake, Present, Named, Numbered, Count
  <2> QED
    BY <1>2, <1>7, <2>1, <2>2, <2>3, <2>4 DEF Awake
<1>8. ASSUME ~harmed, Awake, Storing, Saved PROVE Storing' /\ Saved'
  <2>1. Storing'
    BY <1>1, <1>2, <1>8 DEF Storing, Clearing
  <2>2. Saved'
    BY <1>1, <1>2, <1>5, <1>6, <1>8 DEF Saved, Unsaved, Waiting, Marked, Archive, Rename
  <2> QED
    BY <2>1, <2>2
<1> QED
  BY <1>1, <1>2, <1>3, <1>4, <1>7, <1>8, StepKeeps

LEMMA FreeFromRamKeeps ==
  ASSUME TableInv, machine_free_from_ram
  PROVE  TableInv'
<1>1. /\ server.at = "free_from_ram" /\ server'.at = "count_down" /\ server' \in Order
      /\ server'.kind = server.kind /\ server'.res = server.res
      /\ server'.idx = server.idx /\ server'.total = server.total
      /\ server'.buf = server.buf
  <2>1. "count_down" \in Places
    BY DEF Places
  <2> QED
    BY <2>1, GoesOn DEF machine_free_from_ram, TableInv, Typed
<1>2. UNCHANGED <<nof, loaded, updating, static, dynamic, metadata, kept, marking, updater,
                  before, harmed, overlap>>
  BY DEF machine_free_from_ram, Serving, flash
<1>3. /\ updater.at # "dump" /\ nof \in Nat
      /\ server.idx \in Slots => nof - 1 \in Slots
  BY <1>1, SlotFacts DEF machine_free_from_ram, FlagsLock, TableInv, Course, Typed, Order,
                         Archive
<1>4. machines' \in [Slots -> Machine \cup {Null}]
      /\ \A k \in Slots : machines'[k] = IF k = nof - 1 THEN Null
                                         ELSE IF k = server.idx THEN machines[nof - 1]
                                         ELSE machines[k]
  <2>1. machines' = [k \in Slots |-> IF k = nof - 1 THEN Null
                                     ELSE IF k = server.idx THEN machines[nof - 1]
                                     ELSE machines[k]]
    BY DEF machine_free_from_ram
  <2> QED
    BY <1>3, <2>1 DEF TableInv, Typed
<1>5. Typed'
  BY <1>1, <1>2, <1>4 DEF TableInv, Typed
<1>6. Course'
  BY <1>1, <1>2 DEF TableInv, Course, Archive, Rename, Dump, Count
<1>7. ASSUME ~harmed, Found, Awake PROVE Found' /\ Awake'
  <2>1. Found'
    <3>1. CASE server.idx \in Slots
      BY <1>1, <3>1 DEF Found, Torn
    <3>2. CASE server.idx \notin Slots
      BY <1>1, <1>2, <1>7, <3>2, StandsKept DEF Found, Torn
    <3> QED
      BY <3>1, <3>2
  <2>2. /\ Present /\ Filed /\ Named /\ Moved /\ nof > 0 /\ nof - 1 \in Slots
    BY <1>1, <1>3, <1>7, SlotFacts DEF Awake, Moved, Numbered
  <2>3. \A k \in Slots : k < nof => machines[k] # Null
    BY <1>1, <2>2 DEF Present
  <2>4. Present'
    BY <1>1, <1>2, <1>3, <1>4, <2>2, <2>3 DEF Present
  <2>5. Filed'
    BY <1>1, <1>2, <1>4, <2>2, <2>3 DEF Filed, Unfiled, Moved, Takes, Archive, Rename
  <2>6. Named'
    BY <1>1, <1>2, <1>3, <1>4, <2>2, <2>3, SlotFacts DEF Named, Moved
  <2>7. New' /\ Moved' /\ Numbered'
    BY <1>1, <1>2, <1>7, <2>2 DEF Awake, New, Moved, Takes, Numbered, Dump, Archive, Rename, Count
  <2> QED
    BY <1>2, <1>7, <2>1, <2>4, <2>5, <2>6, <2>7 DEF Awake
<1>8. ASSUME ~harmed, Awake, Storing, Saved PROVE Storing' /\ Saved'
  <2>1. Storing'
    BY <1>2, <1>3 DEF Storing
  <2>2. /\ nof > 0 /\ nof - 1 \in Slots
        /\ \A k \in Slots : k < nof => machines[k] # Null
        /\ server.idx \in Slots => server.idx < nof
    BY <1>1, <1>3, <1>8, SlotFacts DEF Awake, Moved, Present, Numbered
  <2>3. \A k \in Slots : k < nof /\ k # nof - 1 /\ k # server.idx => Waiting(k)' = Waiting(k)
    BY <1>2, <1>4 DEF Waiting, Marked
  <2>4. server.idx \in Slots /\ server.idx # nof - 1 => Waiting(server.idx)' = Waiting(nof - 1)
    BY <1>1, <1>2, <1>4 DEF Waiting, Marked
  <2>5. Saved'
    BY <1>1, <1>2, <1>4, <1>8, <2>2, <2>3, <2>4 DEF Saved, Unsaved, Archive, Rename
  <2> QED
    BY <2>1, <2>5
<1> QED
  BY <1>1, <1>2, <1>5, <1>6, <1>7, <1>8, StepKeeps

LEMMA CountDownKeeps ==
  ASSUME TableInv, count_down
  PROVE  TableInv'
<1>1. /\ server.at = "count_down" /\ server'.at = "meta_erase" /\ server' \in Order
      /\ server'.kind = server.kind /\ server'.res = server.res
      /\ server'.idx = server.idx /\ server'.total = server.total
      /\ server'.buf = server.buf
  <2>1. "meta_erase" \in Places
    BY DEF Places, Count
  <2> QED
    BY <2>1, GoesOn DEF count_down, TableInv, Typed
<1>2. /\ nof' = (server.total - 1) % 65536
      /\ UNCHANGED <<machines, loaded, updating, static, dynamic, metadata, kept, marking,
                     updater, before, harmed, overlap>>
  BY DEF count_down, Serving, ram, flash
<1>3. server.total \in 0 .. MaxMachines /\ nof = server.total /\ server.kind \in Freeing
  BY <1>1 DEF TableInv, Course, Typed, Order
<1>4. nof' \in Nat /\ (nof > 0 => nof' = nof - 1)
  BY <1>2, <1>3, SlotFacts DEF NoIndex
<1>5. Typed'
  BY <1>1, <1>2, <1>4 DEF TableInv, Typed
<1>6. Course'
  BY <1>1, <1>2, <1>3 DEF Course, TableInv, Archive, Rename, Dump, Count, Freeing
<1>7. ASSUME ~harmed, Found, Awake PROVE Found' /\ Awake'
  <2>1. Found'
    <3>1. CASE server.idx \in Slots
      BY <1>1, <3>1 DEF Found, Torn
    <3>2. CASE server.idx \notin Slots
      BY <1>1, <1>2, <1>7, <3>2, StandsKept DEF Found, Torn
    <3> QED
      BY <3>1, <3>2
  <2>2. nof > 0 /\ nof' = nof - 1
    BY <1>1, <1>4, <1>7 DEF Awake, Moved
  <2>3. \A k \in Slots : k \in Nat /\ (k < nof' <=> k < nof /\ k # nof - 1)
    BY <1>3, <2>2, SlotFacts
  <2>4. Present' /\ Filed'
    BY <1>1, <1>2, <1>7, <2>3 DEF Awake, Present, Filed, Unfiled, Archive, Rename
  <2>5. Named'
    BY <1>2, <1>7, <2>3 DEF Awake, Named
  <2>6. New' /\ Moved'
    BY <1>1 DEF New, Moved, Takes, Dump, Archive, Rename
  <2>7. Numbered'
    BY <1>1, <1>2, <1>3, <1>7, <2>2, SlotFacts DEF Awake, Numbered, Count
  <2> QED
    BY <1>2, <1>7, <2>1, <2>4, <2>5, <2>6, <2>7 DEF Awake
<1>8. ASSUME ~harmed, Awake, Storing, Saved PROVE Storing' /\ Saved'
  <2>1. Storing'
    BY <1>1, <1>2, <1>8 DEF Storing
  <2>2. nof > 0 /\ nof' = nof - 1
    BY <1>1, <1>4, <1>8 DEF Awake, Moved
  <2>3. \A k \in Slots : k \in Nat /\ (k < nof' <=> k < nof /\ k # nof - 1)
    BY <1>3, <2>2, SlotFacts
  <2>4. Saved'
    BY <1>1, <1>2, <1>8, <2>3 DEF Saved, Unsaved, Waiting, Marked, Archive, Rename
  <2> QED
    BY <2>1, <2>4
<1> QED
  BY <1>1, <1>2, <1>5, <1>6, <1>7, <1>8, StepKeeps

-----------------------------------------------------------------------------
(* The number is written, and the order is over or goes on.                *)

LEMMA MetadataEraseKeeps ==
  ASSUME TableInv, metadata_erase
  PROVE  TableInv'
<1>1. /\ server.at = "meta_erase" /\ server'.at = "meta_write" /\ server' \in Order
      /\ server'.kind = server.kind /\ server'.res = server.res
      /\ server'.idx = server.idx /\ server'.total = server.total
      /\ server'.buf = server.buf
  <2>1. "meta_write" \in Places
    BY DEF Places, Count
  <2> QED
    BY <2>1, GoesOn DEF metadata_erase, TableInv, Typed
<1>2. /\ metadata' = NoNumber
      /\ UNCHANGED <<machines, nof, loaded, updating, static, dynamic, kept, marking,
                     updater, before, harmed, overlap>>
  BY DEF metadata_erase, Serving, ram
<1>3. Typed'
  <2>1. NoNumber \in Int
    BY DEF NoNumber
  <2> QED
    BY <1>1, <1>2, <2>1 DEF TableInv, Typed
<1>4. Course'
  BY <1>1, <1>2 DEF TableInv, Course, Archive, Rename, Dump, Count
<1>5. ASSUME ~harmed, Found, Awake PROVE Found' /\ Awake'
  <2>1. Found'
    BY <1>1 DEF Found, Torn
  <2>2. Filed' /\ Moved' /\ New'
    BY <1>1, <1>2, <1>5 DEF Awake, Filed, Unfiled, Moved, Takes, New, Dump, Archive, Rename
  <2>3. Present' /\ Named' /\ Numbered'
    BY <1>1, <1>2, <1>5 DEF Awake, Present, Named, Numbered, Count
  <2> QED
    BY <1>2, <1>5, <2>1, <2>2, <2>3 DEF Awake
<1>6. ASSUME ~harmed, Awake, Storing, Saved PROVE Storing' /\ Saved'
  <2>1. Storing'
    BY <1>1, <1>2, <1>6 DEF Storing, Clearing, Holding, InUse, Filing
  <2>2. Saved'
    BY <1>1, <1>2, <1>6 DEF Saved, Unsaved, Waiting, Marked, Archive, Rename
  <2> QED
    BY <2>1, <2>2
<1> QED
  BY <1>1, <1>2, <1>3, <1>4, <1>5, <1>6, StepKeeps

\* Where every machine has its file, the files are the table, and a restart finds it.
LEMMA TableStored ==
  ASSUME TableInv, Awake, server.at \in {"idle", "next"}
  PROVE  Stored = Table
<1>1. \A k \in Slots : k < nof => machines[k] # Null /\ static[k] = machines[k].res
  BY DEF Awake, Present, Filed, Unfiled, Archive, Rename
<1>2. metadata = nof
  BY DEF Awake, Numbered, Count
<1> DEFINE Here == {k \in Slots : k < nof /\ machines[k] # Null}
           There == {k \in Slots : k < metadata}
<1>3. Here = There
  BY <1>1, <1>2
<1>4. \A k \in Here : <<k, machines[k].res>> = <<k, static[k]>>
  BY <1>1
<1>5. Stored = {<<k, static[k]>> : k \in There} /\ Table = {<<k, machines[k].res>> : k \in Here}
  BY DEF Stored, Table
<1> HIDE DEF Here, There
<1> QED
  BY <1>3, <1>4, <1>5

LEMMA FilesStand ==
  ASSUME TableInv, \A k \in Slots : k < nof => machines[k] # Null /\ static[k] = machines[k].res,
         Named
  PROVE  /\ \A k \in Slots : k < nof => static[k] # Absent
         /\ \A j, k \in Slots : j < nof /\ k < nof /\ static[j] = static[k] => j = k
<1>1. \A k \in Slots : k < nof => machines[k].res # Absent
  BY TableAssumption DEF TableInv, Typed, Machine
<1> QED
  BY <1>1 DEF Named

LEMMA MetadataWriteKeeps ==
  ASSUME TableInv, metadata_write
  PROVE  TableInv'
<1>1. server.at = "meta_write" /\ server \in Order /\ nof \in Nat
  BY DEF metadata_write, TableInv, Typed
<1>2. /\ metadata' = nof
      /\ UNCHANGED <<machines, nof, loaded, updating, static, dynamic, marking, updater, before,
                     harmed, overlap>>
  BY DEF metadata_write, Serving, ram
<1>3. \/ server.kind = "all" /\ nof > 0 /\ server' = [server EXCEPT !.at = "next"]
      \/ /\ server.kind = "all" /\ nof = 0
         /\ server' = [server EXCEPT !.at = "meta_erase", !.kind = "emptied"]
      \/ server.kind # "all" /\ server' = Idle
  BY <1>1 DEF metadata_write
<1>4. server' \in Order
  <2>1. {"next", "meta_erase", "idle"} \subseteq Places /\ {"emptied", "none"} \subseteq Kinds
    BY DEF Places, Kinds, Count
  <2>2. Idle \in Order
    BY <2>1, TableAssumption, SlotFacts DEF Idle, Order
  <2> QED
    BY <1>1, <1>3, <2>1, <2>2 DEF Order
<1>5. Typed'
  <2>1. kept' \subseteq Resources
    BY <1>1 DEF metadata_write, TableInv, Typed, Order
  <2> QED
    BY <1>1, <1>2, <1>4, <2>1 DEF TableInv, Typed
<1>6. server.kind = "all" => /\ server.total \in 1 .. MaxMachines /\ server.idx \in Slots
                            /\ nof = server.total - 1
  <2>1. server.kind = "all" => server.total \in 1 .. MaxMachines /\ server.idx \in Slots
    BY <1>1 DEF TableInv, Course, Order
  <2>2. server.kind = "all" => nof = (server.total - 1) % 65536
    BY <1>1 DEF TableInv, Course, Count
  <2> QED
    BY <2>1, <2>2, SlotFacts DEF NoIndex
<1>7. \/ /\ server.kind = "all" /\ nof > 0 /\ server'.at = "next" /\ server'.kind = "all"
         /\ server'.idx = server.idx /\ server'.total = server.total
      \/ /\ server.kind = "all" /\ nof = 0 /\ server'.at = "meta_erase"
         /\ server'.kind = "emptied" /\ server'.idx = server.idx /\ server'.total = server.total
      \/ /\ server'.at = "idle" /\ server'.kind = "none" /\ server'.idx = NoIndex
  <2>1. ASSUME NEW to, server' = [server EXCEPT !.at = to]
        PROVE  /\ server'.at = to /\ server'.kind = server.kind
               /\ server'.idx = server.idx /\ server'.total = server.total
    BY <1>1, <2>1 DEF Order
  <2>2. ASSUME server' = [server EXCEPT !.at = "meta_erase", !.kind = "emptied"]
        PROVE  /\ server'.at = "meta_erase" /\ server'.kind = "emptied"
               /\ server'.idx = server.idx /\ server'.total = server.total
    BY <1>1, <2>2 DEF Order
  <2>3. ASSUME server' = Idle
        PROVE  server'.at = "idle" /\ server'.kind = "none" /\ server'.idx = NoIndex
    BY <2>3 DEF Idle
  <2> QED
    BY <1>3, <2>1, <2>2, <2>3
<1>8. Course'
  BY <1>2, <1>6, <1>7, SlotFacts DEF Course, Archive, Rename, Dump, Count
<1>9. ASSUME ~harmed, Found, Awake PROVE Found' /\ Awake'
  <2>1. \A k \in Slots : k < nof => machines[k] # Null /\ static[k] = machines[k].res
    BY <1>1, <1>9 DEF Awake, Present, Filed, Unfiled, Archive, Rename
  <2>2. Stands' \/ server'.at = "meta_erase"
    BY <1>2, <1>6, <1>7, <1>9, <2>1, FilesStand DEF Stands, Awake
  <2>3. Found'
    BY <1>6, <1>7, <2>2 DEF Found, Torn
  <2>4. Filed' /\ Present' /\ Named'
    BY <1>2, <1>9, <2>1 DEF Awake, Filed, Present, Named
  <2>5. New' /\ Moved'
    BY <1>6, <1>7 DEF New, Moved, Takes, Dump, Archive, Rename
  <2>6. Numbered'
    BY <1>2, <1>9 DEF Awake, Numbered
  <2> QED
    BY <1>2, <1>9, <2>3, <2>4, <2>5, <2>6 DEF Awake
<1>A. ASSUME ~harmed, Awake, Storing, Saved PROVE Storing' /\ Saved'
  <2>1. Storing'
    BY <1>1, <1>2, <1>6, <1>7, <1>A DEF Storing, Clearing, Holding, InUse, Filing
  <2>2. Saved'
    BY <1>1, <1>2, <1>6, <1>7, <1>A DEF Saved, Unsaved, Waiting, Marked, Archive, Rename
  <2> QED
    BY <2>1, <2>2
<1> QED
  BY <1>1, <1>2, <1>5, <1>8, <1>9, <1>A, StepKeeps

\* machines_clear_all goes on: the files are the table again.
LEMMA ClearAllNextKeeps ==
  ASSUME TableInv, clear_all_next
  PROVE  TableInv'
<1>1. /\ server.at = "next" /\ server \in Order /\ nof \in 1 .. MaxMachines
      /\ nof - 1 \in Slots /\ server.kind = "all"
  <2>1. server.at = "next" /\ server \in Order /\ nof \in Nat
    BY DEF clear_all_next, TableInv, Typed
  <2>2. nof = server.total - 1 /\ nof > 0 /\ server.kind = "all"
    BY <2>1 DEF TableInv, Course
  <2> QED
    BY <2>1, <2>2, SlotFacts DEF Order
<1>2. PICK o : o = machines_order(LastName)
  OBVIOUS
<1>3. o \in Slots /\ o < nof /\ machines[o] # Null
  <2>1. machines[nof - 1] # Null /\ machines[nof - 1].res = LastName /\ o # Crash
    BY <1>2 DEF clear_all_next, LastName
  <2>2. o # NoIndex
    BY <1>1, <1>2, <2>1, Ordered
  <2> QED
    BY <1>1, <1>2, <2>1, <2>2, Ordered
<1>4. LastName \in Resources
  BY <1>1 DEF LastName, clear_all_next, TableInv, Typed, Machine
<1>5. PICK to \in {"archive_static", "free_from_ram"} :
        /\ to = FreeAt(o) /\ (static[o] # Absent => to = "archive_static")
        /\ server' = [server EXCEPT !.at = to, !.res = LastName, !.idx = o, !.total = nof]
  BY <1>2, <1>3 DEF clear_all_next, FreeAt
<1>6. /\ server'.at = to /\ server'.idx = o /\ server'.total = nof /\ server'.kind = "all"
      /\ server' \in Order
  <2>1. to \in Places
    BY DEF Places, Archive
  <2>2. nof \in 0 .. MaxMachines /\ o \in Slots \cup {NoIndex}
    BY <1>1, <1>3, SlotFacts
  <2>3. server' \in Order
    BY <1>1, <1>4, <1>5, <2>1, <2>2 DEF Order
  <2> QED
    BY <1>1, <1>5, <2>3 DEF Order
<1>7. /\ before' = Table
      /\ UNCHANGED <<machines, nof, loaded, updating, static, dynamic, metadata, kept, marking,
                     updater, harmed, overlap>>
  BY DEF clear_all_next, ram, flash
<1>8. Typed'
  BY <1>6, <1>7 DEF TableInv, Typed
<1>9. Course'
  BY <1>1, <1>3, <1>6, <1>7 DEF Course, Archive, Rename, Dump, Count, Freeing
<1>A. ASSUME ~harmed, Found, Awake PROVE Found' /\ Awake'
  <2>1. Stored' = before'
    <3>1. Stored' = Stored
      BY <1>7 DEF Stored
    <3> QED
      BY <1>1, <1>7, <1>A, <3>1, TableStored
  <2>2. Stands
    BY <1>1, <1>A DEF Found, Torn
  <2>3. Found'
    BY <1>7, <2>1, <2>2 DEF Found, Stands
  <2>4. static[o] = machines[o].res /\ machines[o] \in Machine
    BY <1>1, <1>3, <1>A DEF Awake, Filed, Unfiled, Archive, Rename, TableInv, Typed
  <2>5. to = "archive_static"
    BY <1>5, <2>4, TableAssumption DEF Machine
  <2>6. Filed' /\ Present' /\ Named'
    BY <1>1, <1>6, <1>7, <1>A, <2>5
    DEF Awake, Filed, Unfiled, Present, Named, Archive, Rename
  <2>7. New' /\ Moved' /\ Numbered'
    BY <1>1, <1>3, <1>6, <1>7, <1>A, <2>5
    DEF Awake, New, Moved, Takes, Numbered, Dump, Archive, Rename, Count
  <2> QED
    BY <1>7, <1>A, <2>3, <2>6, <2>7 DEF Awake
<1>B. ASSUME ~harmed, Awake, Storing, Saved PROVE Storing' /\ Saved'
  <2>1. Storing'
    BY <1>5, <1>6, <1>7, <1>B DEF Storing, Clearing
  <2>2. static[o] = machines[o].res /\ machines[o] \in Machine
    BY <1>1, <1>3, <1>B DEF Awake, Filed, Unfiled, Archive, Rename, TableInv, Typed
  <2>3. to = "archive_static"
    BY <1>5, <2>2, TableAssumption DEF Machine
  <2>4. Saved'
    BY <1>1, <1>6, <1>7, <1>B, <2>3 DEF Saved, Unsaved, Waiting, Marked, Archive, Rename
  <2> QED
    BY <2>1, <2>4
<1> QED
  BY <1>1, <1>7, <1>8, <1>9, <1>A, <1>B, StepKeeps

\* A machine that could not be saved is freed: it is in no slot, and the last one goes.
LEMMA DumpFailsKeeps ==
  ASSUME TableInv, dump_fails
  PROVE  TableInv'
<1>1. /\ server.at \in {"static_write", "dynamic_write"} /\ server \in Order /\ nof \in Nat
      /\ server.at # "idle"
  BY DEF dump_fails, TableInv, Typed
<1>2. /\ server' = [server EXCEPT !.at = "free_from_ram", !.kind = "refused", !.idx = NoIndex]
      /\ harmed' = (harmed \/ nof = 0)
      /\ UNCHANGED <<machines, nof, loaded, updating, static, dynamic, metadata, kept, marking,
                     updater, before, overlap>>
  BY DEF dump_fails, ram, flash
<1>3. /\ server'.at = "free_from_ram" /\ server'.kind = "refused" /\ server'.idx = NoIndex
      /\ server'.total = server.total /\ server' \in Order
  <2>1. "free_from_ram" \in Places /\ "refused" \in Kinds
    BY DEF Places, Kinds, Freeing
  <2> QED
    BY <1>1, <1>2, <2>1 DEF Order
<1>4. NoIndex \notin Slots
  BY SlotFacts
<1>5. Typed'
  BY <1>2, <1>3 DEF TableInv, Typed
<1>6. Course'
  BY <1>1, <1>2, <1>3, <1>4 DEF TableInv, Course, Archive, Rename, Dump, Count, Freeing
<1>7. Turn'
  BY <1>2 DEF TableInv, Turn
<1>8. Whole'
  <2>1. SUFFICES ASSUME ~harmed, nof # 0 PROVE Found' /\ Awake'
    BY <1>2 DEF Whole
  <2>2. Found /\ Awake
    BY <1>1, <2>1 DEF TableInv, Whole, Asleep
  <2>3. Found'
    BY <1>1, <1>2, <1>3, <1>4, <2>2, StandsKept
    DEF Found, Torn, TableInv, Course, Dump
  <2>4. Filed' /\ Present' /\ Named'
    BY <1>1, <1>2, <1>3, <1>4, <2>2
    DEF Awake, Filed, Unfiled, Present, Named, Archive, Rename
  <2>5. New' /\ Moved' /\ Numbered'
    BY <1>1, <1>2, <1>3, <1>4, <2>1, <2>2
    DEF Awake, New, Moved, Takes, Numbered, Dump, Archive, Rename, Count
  <2> QED
    BY <1>2, <2>2, <2>3, <2>4, <2>5 DEF Awake
<1>9. Flagged'
  <2>1. SUFFICES ASSUME ~harmed, ~overlap PROVE Storing' /\ Saved'
    BY <1>2 DEF Flagged
  <2>2. Storing /\ Saved
    BY <1>1, <2>1 DEF TableInv, Flagged, Asleep
  <2>3. Storing'
    BY <1>2, <1>3, <2>2 DEF Storing, Clearing
  <2>4. Saved'
    BY <1>1, <1>2, <1>3, <1>4, <2>2 DEF Saved, Unsaved, Waiting, Marked, Archive, Rename
  <2> QED
    BY <2>3, <2>4
<1> QED
  BY <1>5, <1>6, <1>7, <1>8, <1>9 DEF TableInv

-----------------------------------------------------------------------------
(* Orders begin.                                                           *)

\* An order that finds a machine, or sees that there is none, finds the table awake: of
\* a table that is not loaded every slot is empty.
LEMMA SeenAwake ==
  ASSUME TableInv, ~harmed, ~updating, server.at = "idle", nof <= MaxMachines,
         \A k \in Slots :
           k < nof /\ machines[k] = Null => \E j \in Slots : j < nof /\ machines[j] # Null
  PROVE  Awake /\ (~overlap => Storing /\ Saved)
<1>1. CASE Asleep
  <2>1. nof = 0
    <3>1. nof \in Nat
      BY DEF TableInv, Typed
    <3>2. nof > 0 => 0 \in Slots
      BY SlotFacts
    <3> QED
      BY <1>1, <3>1, <3>2 DEF Asleep
  <2>2. \A k \in Slots : ~(k < nof)
    BY <2>1, SlotFacts
  <2>3. Present /\ Filed /\ Named /\ Saved
    BY <1>1, <2>2 DEF Asleep, Present, Filed, Named, Saved
  <2>4. New /\ Moved /\ Numbered
    BY <1>1, <2>1, SlotFacts
    DEF Asleep, New, Moved, Takes, Numbered, Dump, Archive, Rename, Count
  <2> QED
    BY <2>3, <2>4 DEF Awake, TableInv, Flagged
<1>2. CASE Awake /\ ~Asleep
  BY <1>2 DEF TableInv, Flagged
<1> QED
  BY <1>1, <1>2 DEF TableInv, Whole

LEMMA BeginFacts ==
  ASSUME NEW kind, NEW at, NEW r, NEW i, Begin(kind, at, r, i)
  PROVE  /\ nof <= MaxMachines /\ server.at = "idle" /\ marking["message"] = Null
         /\ server'.at = at /\ server'.kind = kind /\ server'.res = r /\ server'.idx = i
         /\ server'.total = nof /\ server'.buf = Absent
         /\ before' = Table /\ harmed' = (harmed \/ updating \/ (kind = "refused" /\ nof = 0))
         /\ UNCHANGED <<static, dynamic, metadata, marking, updater, overlap>>
BY DEF Begin, flash

LEMMA DeployKeeps ==
  ASSUME TableInv, NEW r \in Resources, deploy(r)
  PROVE  TableInv'
<1>1. /\ Begin("deploy", "static_erase", r, NoIndex) /\ machines_order(r) = NoIndex
      /\ machines' = [machines EXCEPT ![nof] = [res |-> r, flags |-> "clear", changed |-> TRUE]]
      /\ nof < MaxMachines /\ UNCHANGED <<nof, loaded, updating, kept>>
  BY DEF deploy, Unknown
<1>2. /\ server.at = "idle" /\ server'.at = "static_erase" /\ server'.kind = "deploy"
      /\ server'.res = r /\ server'.idx = NoIndex /\ server'.total = nof
      /\ before' = Table /\ nof <= MaxMachines /\ (~harmed' => ~harmed /\ ~updating)
      /\ UNCHANGED <<static, dynamic, metadata, marking, updater, overlap>>
  BY <1>1, BeginFacts
<1>3. nof \in Nat /\ nof \in Slots /\ nof \in 0 .. MaxMachines
  BY <1>1, SlotFacts DEF TableInv, Typed
<1>4. server' \in Order
  <2>1. server' = [at |-> "static_erase", kind |-> "deploy", res |-> r, idx |-> NoIndex,
                   total |-> nof, buf |-> Absent]
    BY <1>1 DEF Begin
  <2>2. "static_erase" \in Places /\ "deploy" \in Kinds
    BY DEF Places, Dump, Kinds
  <2> QED
    BY <1>3, <2>1, <2>2 DEF Order
<1>5. /\ machines' \in [Slots -> Machine \cup {Null}]
      /\ machines'[nof] = [res |-> r, flags |-> "clear", changed |-> TRUE]
      /\ machines'[nof] \in Machine
      /\ \A k \in Slots : k # nof => machines'[k] = machines[k]
  <2>1. [res |-> r, flags |-> "clear", changed |-> TRUE] \in Machine
    BY DEF Machine, Flags
  <2> QED
    BY <1>1, <1>3, <2>1 DEF TableInv, Typed
<1>6. Typed'
  <2>1. harmed' \in BOOLEAN
    BY <1>1, BeginFacts DEF TableInv, Typed
  <2> QED
    BY <1>1, <1>2, <1>4, <1>5, <2>1 DEF TableInv, Typed
<1>7. Course'
  BY <1>1, <1>2, SlotFacts DEF Course, Archive, Rename, Dump, Count
<1>8. Turn'
  BY <1>1, <1>2 DEF TableInv, Turn
<1>9. \A k \in Slots : k < nof => machines[k] # Null /\ machines[k].res # r
  BY <1>1, <1>3, Ordered
<1>A. ~harmed' => Awake /\ (~overlap => Storing /\ Saved)
  BY <1>1, <1>2, <1>9, SeenAwake
<1>B. Whole'
  <2>1. SUFFICES ASSUME ~harmed, Awake, Found PROVE Found' /\ Awake'
    BY <1>2, <1>A DEF Whole, TableInv
  <2>2. Stored' = before'
    <3>1. Stored' = Stored
      BY <1>2 DEF Stored
    <3> QED
      BY <1>2, <2>1, <3>1, TableStored
  <2>3. Found'
    BY <1>2, <2>1, <2>2 DEF Found, Stands, Torn
  <2>4. New'
    <3>0. machines'[nof] # Null
      <4>1. Null \notin Machine
        BY TableAssumption
      <4> QED
        BY <1>5, <4>1
    <3>1. machines'[nof].res = r /\ machines'[nof].flags = "clear"
      BY <1>5
    <3>2. \A k \in Slots : k < nof => machines'[k].res # r
      BY <1>3, <1>5, <1>9
    <3> QED
      BY <1>1, <1>2, <3>0, <3>1, <3>2 DEF New
  <2>5. Filed' /\ Present' /\ Named'
    BY <1>1, <1>2, <1>3, <1>5, <2>1
    DEF Awake, Filed, Unfiled, Present, Named, Archive, Rename
  <2>6. Moved' /\ Numbered'
    BY <1>1, <1>2, <1>3, <2>1 DEF Awake, Moved, Takes, Numbered, Archive, Rename, Count
  <2> QED
    BY <1>1, <2>1, <2>3, <2>4, <2>5, <2>6 DEF Awake
<1>C. Flagged'
  <2>1. SUFFICES ASSUME Storing, Saved PROVE Storing' /\ Saved'
    BY <1>2, <1>A DEF Flagged
  <2>2. Storing'
    BY <1>1, <1>2, <1>3, <1>5, <2>1, SlotFacts
    DEF Storing, Clearing, Holding, InUse, Filing
  <2>3. Saved'
    BY <1>1, <1>2, <1>3, <1>5, <2>1 DEF Saved, Unsaved, Waiting, Marked, Archive, Rename
  <2> QED
    BY <2>2, <2>3
<1> QED
  BY <1>6, <1>7, <1>8, <1>B, <1>C DEF TableInv

\* An order that frees a machine, or one that is in no slot, which takes the last.
LEMMA FreeingBegins ==
  ASSUME TableInv, NEW kind \in Freeing, NEW r \in Resources, NEW i \in Slots \cup {NoIndex},
         Begin(kind, FreeAt(i), r, i), UNCHANGED <<machines, nof, loaded, updating>>,
         kept' \subseteq Resources,
         i \in Slots => i < nof /\ machines[i] # Null,
         i = NoIndex => kind = "refused" /\ \A k \in Slots : k < nof => machines[k] # Null
  PROVE  TableInv'
<1>1. PICK at \in {"archive_static", "free_from_ram"} :
        /\ at = FreeAt(i) /\ (at = "archive_static" => i \in Slots)
        /\ (i \in Slots /\ static[i] # Absent => at = "archive_static")
  BY DEF FreeAt
<1>2. /\ server.at = "idle" /\ server'.at = at /\ server'.kind = kind
      /\ server'.res = r /\ server'.idx = i /\ server'.total = nof /\ nof <= MaxMachines
      /\ before' = Table /\ (~harmed' => ~harmed /\ ~updating /\ (kind = "refused" => nof # 0))
      /\ UNCHANGED <<static, dynamic, metadata, marking, updater, overlap>>
  BY <1>1, BeginFacts
<1>3. nof \in Nat /\ nof \in 0 .. MaxMachines /\ NoIndex \notin Slots
      /\ (i \in Slots => nof > 0)
  BY <1>2, SlotFacts DEF TableInv, Typed
<1>4. server' \in Order
  <2>1. server' = [at |-> at, kind |-> kind, res |-> r, idx |-> i,
                   total |-> nof, buf |-> Absent]
    BY <1>1 DEF Begin
  <2>2. at \in Places /\ kind \in Kinds
    BY DEF Places, Archive, Kinds
  <2> QED
    BY <1>3, <2>1, <2>2 DEF Order
<1>5. Typed'
  <2>1. harmed' \in BOOLEAN
    BY BeginFacts DEF TableInv, Typed
  <2> QED
    BY <1>2, <1>4, <2>1 DEF TableInv, Typed
<1>6. Course'
  BY <1>1, <1>2, <1>3 DEF Course, Archive, Rename, Dump, Count, Freeing
<1>7. Turn'
  BY <1>2 DEF TableInv, Turn
<1>8. ~harmed' => Awake /\ nof > 0 /\ (~overlap => Storing /\ Saved)
  <2>1. ~harmed' => Awake /\ (~overlap => Storing /\ Saved)
    BY <1>2, <1>3, SeenAwake
  <2> QED
    BY <1>2, <1>3, <2>1
<1>9. Awake /\ i \in Slots => at = "archive_static"
  <2>1. ASSUME Awake, i \in Slots PROVE static[i] # Absent
    <3>1. static[i] = machines[i].res /\ machines[i] \in Machine
      BY <1>2, <2>1 DEF Awake, Filed, Unfiled, Archive, Rename, TableInv, Typed
    <3> QED
      BY <3>1, TableAssumption DEF Machine
  <2> QED
    BY <1>1, <2>1
<1>A. Whole'
  <2>1. SUFFICES ASSUME ~harmed, nof > 0, Awake, Found PROVE Found' /\ Awake'
    BY <1>2, <1>8 DEF Whole, TableInv
  <2>2. Stored' = before'
    <3>1. Stored' = Stored
      BY <1>2 DEF Stored
    <3> QED
      BY <1>2, <2>1, <3>1, TableStored
  <2>3. Found'
    BY <1>2, <2>1, <2>2 DEF Found, Stands, Torn
  <2>4. Filed' /\ Present' /\ Named'
    BY <1>2, <1>3, <1>9, <2>1 DEF Awake, Filed, Unfiled, Present, Named, Archive, Rename
  <2>5. Moved' /\ Numbered' /\ New'
    BY <1>1, <1>2, <1>3, <1>9, <2>1
    DEF Awake, Moved, Takes, Numbered, New, Dump, Archive, Rename, Count
  <2> QED
    BY <2>1, <2>3, <2>4, <2>5 DEF Awake
<1>B. Flagged'
  <2>1. SUFFICES ASSUME Awake, Storing, Saved PROVE Storing' /\ Saved'
    BY <1>2, <1>8 DEF Flagged
  <2>2. Storing'
    BY <1>1, <1>2, <2>1 DEF Storing, Clearing
  <2>3. Saved'
    BY <1>1, <1>2, <1>3, <1>9, <2>1 DEF Saved, Unsaved, Waiting, Marked, Archive, Rename
  <2> QED
    BY <2>2, <2>3
<1> QED
  BY <1>5, <1>6, <1>7, <1>A, <1>B DEF TableInv

LEMMA RefusedKeeps ==
  ASSUME TableInv, NEW name \in Resources, Refused(name)
  PROVE  TableInv'
<1>1. PICK i : i = machines_order(name)
  OBVIOUS
<1>2. /\ i # Crash /\ Begin("refused", FreeAt(i), name, i)
      /\ UNCHANGED <<machines, nof, loaded, updating, kept>>
  BY <1>1 DEF Refused, ram
<1>3. nof \in Nat /\ kept \subseteq Resources /\ "refused" \in Freeing
  BY DEF TableInv, Typed, Freeing
<1> QED
  BY <1>1, <1>2, <1>3, Ordered, FreeingBegins

LEMMA ClearKeeps ==
  ASSUME TableInv, NEW r \in Resources, clear(r)
  PROVE  TableInv'
<1>1. PICK i : i = machines_order(r)
  OBVIOUS
<1>2. /\ i \in Slots /\ Begin("clear", FreeAt(i), r, i) /\ kept' = kept \ {r}
      /\ UNCHANGED <<machines, nof, loaded, updating>>
  BY <1>1 DEF clear, Known, ram
<1>3. nof \in Nat /\ kept' \subseteq Resources /\ "clear" \in Freeing /\ i # NoIndex
  BY <1>2, SlotFacts DEF TableInv, Typed, Freeing
<1> QED
  BY <1>1, <1>2, <1>3, Ordered, FreeingBegins

LEMMA ClearLastKeeps ==
  ASSUME TableInv, NEW kind \in {"next", "all"}, clear_last(kind)
  PROVE  TableInv'
<1>1. PICK i : i = machines_order(LastName)
  OBVIOUS
<1>2. /\ nof \in 1 .. MaxMachines /\ machines[nof - 1] # Null /\ i # Crash
      /\ Begin(kind, FreeAt(i), LastName, i)
      /\ UNCHANGED <<machines, nof, loaded, updating>>
  BY <1>1 DEF clear_last, ram
<1>3. nof \in Nat /\ nof - 1 \in Slots /\ nof - 1 < nof /\ kind \in Freeing
  BY <1>2, SlotFacts DEF Freeing
<1>4. LastName = machines[nof - 1].res /\ LastName \in Resources
  BY <1>2, <1>3 DEF LastName, TableInv, Typed, Machine
<1>5. kept' \subseteq Resources
  BY DEF clear_last, TableInv, Typed
<1>6. i # NoIndex
  BY <1>1, <1>2, <1>3, <1>4, Ordered
<1> QED
  BY <1>1, <1>2, <1>3, <1>4, <1>5, <1>6, Ordered, FreeingBegins

-----------------------------------------------------------------------------
(* Flags: nothing here touches a name, a file of a name, or the number.    *)

SameNames ==
  /\ \A k \in Slots : machines'[k] = Null <=> machines[k] = Null
  /\ \A k \in Slots : machines[k] # Null => machines'[k].res = machines[k].res

LEMMA NamesKept ==
  ASSUME TableInv, SameNames,
         UNCHANGED <<nof, loaded, updating, static, metadata, server, before, harmed>>,
         server.at \in Dump => machines'[nof].flags = machines[nof].flags
  PROVE  Whole' /\ (Asleep => Asleep')
<1>1. Asleep => Asleep'
  BY DEF Asleep, SameNames
<1>2. Found => Found'
  <2>1. Stored' = Stored /\ Torn' = Torn
    BY DEF Stored, Torn
  <2> QED
    BY <2>1 DEF Found, Stands
<1>3. ASSUME Awake PROVE Awake'
  <2>1. \A k \in Slots : Unfiled(k)' = Unfiled(k)
    BY DEF Unfiled
  <2>2. Present'
    BY <1>3 DEF Awake, Present, SameNames
  <2>3. Filed'
    BY <1>3, <2>1 DEF Awake, Present, Filed, SameNames, Unfiled, Rename
  <2>4. Named'
    BY <1>3 DEF Awake, Named, SameNames
  <2>5. nof \in Nat /\ (server.at \in Dump => nof \in Slots)
    BY SlotFacts DEF TableInv, Typed, Course
  <2>6. New'
    BY <1>3, <2>2, <2>5 DEF Awake, Present, New, SameNames, Dump
  <2>7. ASSUME nof > 0, server.at # "count_down"
        PROVE  machines'[nof - 1].res = machines[nof - 1].res
    <3>1. nof - 1 \in Slots /\ nof - 1 < nof
      BY <1>3, <2>5, <2>7, SlotFacts DEF Awake, Numbered
    <3> QED
      BY <1>3, <2>7, <3>1 DEF Awake, Present, SameNames
  <2>8. Moved'
    <3>1. server.at \in Rename \cup {"free_from_ram"} /\ server.idx \in Slots => nof > 0
      BY <1>3, <2>5, SlotFacts DEF Awake, Moved, Archive
    <3>2. server.at \in Rename => server.idx \in Slots
      BY DEF TableInv, Course, Archive
    <3> QED
      BY <1>3, <2>7, <3>1, <3>2 DEF Awake, Moved, Takes, Archive, Rename
  <2>9. Numbered'
    BY <1>3 DEF Awake, Numbered
  <2> QED
    BY <1>3, <2>2, <2>3, <2>4, <2>6, <2>8, <2>9 DEF Awake
<1> QED
  BY <1>1, <1>2, <1>3 DEF TableInv, Whole

\* As long as the order stands still, flags stay saved where a machine's are neither
\* changed nor forgotten.
LEMMA SavedKept ==
  ASSUME TableInv, Awake, Saved, UNCHANGED <<nof, server, dynamic>>,
         \A k \in Slots : k < nof /\ machines[k] # Null =>
           \/ Waiting(k)'
           \/ machines'[k].flags = machines[k].flags /\ (Waiting(k) => Waiting(k)'),
         server.at = "count_up" /\ machines[nof].changed => machines'[nof].changed
  PROVE  Saved'
<1>1. \A k \in Slots : Unsaved(k)' = Unsaved(k)
  BY DEF Unsaved
<1>2. \A k \in Slots : k < nof /\ ~Unsaved(k) => machines[k] # Null
  BY DEF Awake, Present, Unsaved
<1>3. \A k \in Slots : k < nof /\ ~Unsaved(k)' =>
        Waiting(k)' \/ dynamic'[k] = machines'[k].flags
  BY <1>1, <1>2 DEF Saved
<1>4. nof \in Nat /\ nof <= MaxMachines
  BY SlotFacts DEF Awake, Numbered
<1>5. ASSUME server.at \in Rename \/ (server.at = "free_from_ram" /\ server.idx \in Slots)
      PROVE  nof - 1 \in Slots /\ nof - 1 < nof /\ machines[nof - 1] # Null
  <2>1. server.idx \in Slots /\ server.idx < nof
    BY <1>5 DEF TableInv, Course, Awake, Moved, Archive, Rename
  <2>2. nof - 1 \in Slots /\ nof - 1 < nof
    BY <1>4, <2>1, SlotFacts
  <2> QED
    BY <1>5, <2>2 DEF Awake, Present, Rename
<1>6. server.at \in {"rename_dynamic_clear", "rename_dynamic_set"} =>
        Waiting(nof - 1)' \/ server.buf = machines'[nof - 1].flags
  BY <1>5 DEF Saved, Rename
<1>7. server.at = "free_from_ram" /\ server.idx \in Slots /\ server.idx # nof - 1 =>
        Waiting(nof - 1)' \/ dynamic[server.idx] = machines'[nof - 1].flags
  BY <1>5 DEF Saved
<1>8. server.at = "count_up" => machines'[nof].changed \/ dynamic[nof] = "clear"
  BY DEF Saved
<1>9. nof' = nof /\ server' = server /\ dynamic' = dynamic
  OBVIOUS
<1>A. /\ server'.at \in {"rename_dynamic_clear", "rename_dynamic_set"} =>
           Waiting(nof - 1)' \/ server'.buf = machines'[nof' - 1].flags
      /\ server'.at = "free_from_ram" /\ server'.idx \in Slots /\ server'.idx # nof' - 1 =>
           Waiting(nof - 1)' \/ dynamic'[server'.idx] = machines'[nof' - 1].flags
      /\ server'.at = "count_up" => machines'[nof'].changed \/ dynamic'[nof'] = "clear"
  BY <1>6, <1>7, <1>8, <1>9
<1>B. \A k \in Slots : k < nof' /\ ~Unsaved(k)' =>
        Waiting(k)' \/ dynamic'[k] = machines'[k].flags
  BY <1>3, <1>9
<1> QED
  BY <1>A, <1>B DEF Saved

LEMMA FlagsSetKeeps ==
  ASSUME TableInv, NEW w \in Writers, NEW k \in Slots, NEW f \in Flags, machine_flags_set(w, k, f)
  PROVE  TableInv'
<1>1. /\ updater.at # "dump" /\ marking[w] = Null /\ k < nof /\ machines[k] # Null
      /\ machines' = [machines EXCEPT ![k].flags = f]
      /\ marking' = [marking EXCEPT ![w] = machines[k].res]
      /\ UNCHANGED <<nof, loaded, updating, static, dynamic, metadata, server, updater, before,
                     kept, harmed, overlap>>
  BY DEF machine_flags_set, FlagsLock, flash, past
<1>2. nof \in Nat /\ machines[k] \in Machine /\ machines \in [Slots -> Machine \cup {Null}]
  BY <1>1 DEF TableInv, Typed
<1>3. PICK m : m = [machines[k] EXCEPT !.flags = f]
  OBVIOUS
<1>4. m \in Machine /\ m.res = machines[k].res /\ m.changed = machines[k].changed
  BY <1>2, <1>3 DEF Machine
<1>5. machines' = [machines EXCEPT ![k] = m]
  BY <1>1, <1>3
<1>6. /\ machines' \in [Slots -> Machine \cup {Null}] /\ machines'[k] = m
      /\ \A j \in Slots : j # k => machines'[j] = machines[j]
  BY <1>2, <1>4, <1>5
<1>7. m # Null
  BY <1>4, TableAssumption
<1>8. Typed'
  BY <1>1, <1>4, <1>6 DEF TableInv, Typed, Machine
<1>9. Course' /\ Turn'
  BY <1>1 DEF TableInv, Course, Turn
<1>A. SameNames
  BY <1>1, <1>4, <1>6, <1>7 DEF SameNames
<1>B. server.at \in Dump => machines'[nof].flags = machines[nof].flags
  BY <1>1, <1>2, <1>6, SlotFacts DEF TableInv, Course
<1>C. Whole' /\ (Asleep => Asleep')
  BY <1>1, <1>A, <1>B, NamesKept
<1>D. \A j \in Slots : machines[j] # Null /\ Waiting(j) => Waiting(j)'
  <2>1. \A j \in Slots : machines[j] # Null => machines[j].res # Null
    BY TableAssumption DEF TableInv, Typed, Machine
  <2>2. \A x : x \in Marked /\ x # Null => x \in Marked'
    BY <1>1 DEF Marked, TableInv, Typed
  <2>3. \A j \in Slots : machines[j] # Null =>
          machines'[j].res = machines[j].res /\ machines'[j].changed = machines[j].changed
    BY <1>4, <1>6
  <2> QED
    BY <2>1, <2>2, <2>3 DEF Waiting
<1>E. Waiting(k)'
  <2>1. machines[k].res \in Marked'
    BY <1>1 DEF Marked, TableInv, Typed
  <2> QED
    BY <1>4, <1>6, <2>1 DEF Waiting
<1>F. ASSUME ~harmed, ~overlap PROVE Flagged'
  <2>1. Asleep \/ (Awake /\ Saved)
    BY <1>F DEF TableInv, Whole, Flagged
  <2>2. ASSUME Awake, Saved PROVE Saved'
    <3>1. server.at = "count_up" => machines'[nof] = machines[nof]
      BY <1>1, <1>2, <1>6, SlotFacts DEF TableInv, Course, Dump
    <3>2. \A j \in Slots : j < nof /\ machines[j] # Null =>
            \/ Waiting(j)'
            \/ machines'[j].flags = machines[j].flags /\ (Waiting(j) => Waiting(j)')
      BY <1>6, <1>D, <1>E
    <3> QED
      BY <1>1, <2>2, <3>1, <3>2, SavedKept
  <2>3. Storing'
    BY <1>1 DEF Storing
  <2> QED
    BY <1>C, <2>1, <2>2, <2>3 DEF Flagged
<1> QED
  BY <1>1, <1>8, <1>9, <1>C, <1>F DEF TableInv, Flagged

LEMMA MachineUpdateKeeps ==
  ASSUME TableInv, NEW w \in Writers, machine_update(w)
  PROVE  TableInv'
<1>1. /\ updater.at # "dump" /\ marking[w] # Null
      /\ machines' = [k \in Slots |-> IF k \in Holding(marking[w])
                                      THEN [machines[k] EXCEPT !.changed = TRUE]
                                      ELSE machines[k]]
      /\ marking' = [marking EXCEPT ![w] = Null]
      /\ UNCHANGED <<nof, loaded, updating, static, dynamic, metadata, server, updater, before,
                     kept, harmed, overlap>>
  BY DEF machine_update, FlagsLock, flash, past
<1>2. \A k \in Slots : machines[k] # Null => machines[k] \in Machine
  BY DEF TableInv, Typed
<1>3. \A k \in Slots : k \in Holding(marking[w]) =>
        machines[k] # Null /\ machines[k].res = marking[w]
  BY DEF Holding
<1>4. \A k \in Slots : k \notin Holding(marking[w]) => machines'[k] = machines[k]
  BY <1>1
<1>5. ASSUME NEW k \in Slots, k \in Holding(marking[w])
      PROVE  /\ machines'[k] \in Machine /\ machines'[k] # Null /\ machines'[k].changed
             /\ machines'[k].res = machines[k].res /\ machines'[k].flags = machines[k].flags
  <2>1. machines[k] \in Machine
    BY <1>2, <1>3, <1>5
  <2>2. machines'[k] = [machines[k] EXCEPT !.changed = TRUE]
    BY <1>1, <1>5
  <2>3. /\ machines'[k] \in Machine /\ machines'[k].changed
        /\ machines'[k].res = machines[k].res /\ machines'[k].flags = machines[k].flags
    BY <2>1, <2>2 DEF Machine
  <2> QED
    BY <2>3, TableAssumption
<1>6. machines' \in [Slots -> Machine \cup {Null}]
  <2>1. \A k \in Slots : machines'[k] \in Machine \cup {Null}
    BY <1>2, <1>4, <1>5
  <2>2. DOMAIN machines' = Slots /\ machines' = [k \in Slots |-> machines'[k]]
    BY <1>1
  <2> QED
    BY <2>1, <2>2
<1>7. Typed'
  BY <1>1, <1>6 DEF TableInv, Typed
<1>8. Course' /\ Turn'
  BY <1>1 DEF TableInv, Course, Turn
<1>9. SameNames
  <2>1. \A k \in Slots : machines'[k] = Null <=> machines[k] = Null
    BY <1>3, <1>4, <1>5
  <2>2. \A k \in Slots : machines[k] # Null => machines'[k].res = machines[k].res
    BY <1>4, <1>5
  <2> QED
    BY <2>1, <2>2 DEF SameNames
<1>A. server.at \in Dump => machines'[nof].flags = machines[nof].flags
  BY <1>4, <1>5, SlotFacts DEF TableInv, Typed, Course
<1>B. Whole' /\ (Asleep => Asleep')
  BY <1>1, <1>9, <1>A, NamesKept
<1>C. ASSUME NEW k \in Slots, k < nof, machines[k] # Null, Waiting(k) PROVE Waiting(k)'
  <2>1. CASE k \in Holding(marking[w])
    BY <1>5, <2>1 DEF Waiting
  <2>2. ASSUME k \notin Holding(marking[w]) PROVE Waiting(k)'
    <3>1. machines[k].res # marking[w]
      BY <1>C, <2>2 DEF Holding, InUse
    <3>2. machines[k].res \in Marked => machines[k].res \in Marked'
      BY <1>1, <3>1 DEF Marked, TableInv, Typed
    <3> QED
      BY <1>4, <1>C, <2>2, <3>2 DEF Waiting
  <2> QED
    BY <2>1, <2>2
<1>D. ASSUME ~harmed, ~overlap PROVE Flagged'
  <2>1. Asleep \/ (Awake /\ Saved)
    BY <1>D DEF TableInv, Whole, Flagged
  <2>2. ASSUME Awake, Saved PROVE Saved'
    <3>1. server.at = "count_up" /\ machines[nof].changed => machines'[nof].changed
      BY <1>4, <1>5, SlotFacts DEF TableInv, Typed, Course, Dump
    <3>2. \A k \in Slots : k < nof /\ machines[k] # Null =>
            machines'[k].flags = machines[k].flags /\ (Waiting(k) => Waiting(k)')
      BY <1>4, <1>5, <1>C
    <3> QED
      BY <1>1, <2>2, <3>1, <3>2, SavedKept
  <2>3. Storing'
    BY <1>1 DEF Storing
  <2> QED
    BY <1>B, <2>1, <2>2, <2>3 DEF Flagged
<1> QED
  BY <1>1, <1>7, <1>8, <1>B, <1>D DEF TableInv, Flagged

\* Of the updater only the storing matters: its walk over the machines does not.
LEMMA WalkKeeps ==
  ASSUME TableInv, updater' \in Pass, updater'.at = "dump" => updater' = updater,
         updater'.at = "picked" => updater'.k \in Slots,
         ~loaded /\ ~updating => updater'.at = "idle",
         UNCHANGED <<machines, nof, loaded, updating, static, dynamic, metadata, server, marking,
                     before, kept, harmed, overlap>>
  PROVE  TableInv'
<1>1. Typed' /\ Course' /\ Turn'
  BY DEF TableInv, Typed, Course, Turn
<1>2. Asleep = Asleep'
  BY DEF Asleep
<1>3. Found => Found'
  BY DEF Found, Stands, Stored, Torn
<1>4. Awake => Awake'
  BY DEF Awake, Present, Filed, Unfiled, Named, Numbered, New, Moved, Takes
<1>5. Saved => Saved'
  BY DEF Saved, Unsaved, Waiting, Marked
<1>6. Storing => Storing'
  BY DEF Storing, Clearing, Holding, InUse, Filing
<1> QED
  BY <1>1, <1>2, <1>3, <1>4, <1>5, <1>6 DEF TableInv, Whole, Flagged

LEMMA PassBeginsKeeps ==
  ASSUME TableInv, pass_begins
  PROVE  TableInv'
<1>1. /\ updater' = [at |-> "pass", k |-> 0, total |-> nof, res |-> Zero] /\ loaded
      /\ UNCHANGED <<machines, nof, loaded, updating, static, dynamic, metadata, server, marking,
                     before, kept, harmed, overlap>>
  BY DEF pass_begins, Updating
<1>2. updater' \in Pass
  BY <1>1, TableAssumption DEF Pass, TableInv, Typed
<1> QED
  BY <1>1, <1>2, WalkKeeps

LEMMA PassPicksKeeps ==
  ASSUME TableInv, pass_picks
  PROVE  TableInv'
<1>1. /\ updater \in Pass /\ updater.at = "pass" /\ (loaded \/ updating)
      /\ UNCHANGED <<machines, nof, loaded, updating, static, dynamic, metadata, server, marking,
                     before, kept, harmed, overlap>>
  BY DEF pass_picks, Updating, TableInv, Typed, Turn
<1>2. \/ updater' = [updater EXCEPT !.at = "idle"]
      \/ updater' = [updater EXCEPT !.k = updater.k + 1]
      \/ /\ updater.k \in Slots /\ machines[updater.k] # Null
         /\ updater' = [updater EXCEPT !.at = "picked", !.res = machines[updater.k].res]
  <2>1. \/ updater.k >= updater.total \/ updater.k \notin Slots
        \/ updater.k < updater.total /\ updater.k \in Slots /\ machines[updater.k] = Null
        \/ updater.k < updater.total /\ updater.k \in Slots /\ machines[updater.k] # Null
    BY <1>1 DEF Pass
  <2> QED
    BY <1>1, <2>1 DEF pass_picks, Pass
<1>3. ASSUME updater' = [updater EXCEPT !.at = "idle"] PROVE TableInv'
  <2>1. updater' \in Pass /\ updater'.at = "idle"
    BY <1>1, <1>3 DEF Pass
  <2> QED
    BY <1>1, <2>1, WalkKeeps
<1>4. ASSUME updater' = [updater EXCEPT !.k = updater.k + 1] PROVE TableInv'
  <2>1. updater' \in Pass /\ updater'.at = "pass"
    BY <1>1, <1>4 DEF Pass
  <2> QED
    BY <1>1, <2>1, WalkKeeps
<1>5. ASSUME updater.k \in Slots, machines[updater.k] # Null,
             updater' = [updater EXCEPT !.at = "picked", !.res = machines[updater.k].res]
      PROVE  TableInv'
  <2>1. machines[updater.k].res \in Resources
    BY <1>5 DEF TableInv, Typed, Machine
  <2>2. updater' \in Pass /\ updater'.at = "picked" /\ updater'.k = updater.k
    BY <1>1, <1>5, <2>1 DEF Pass
  <2> QED
    BY <1>1, <1>5, <2>2, WalkKeeps
<1> QED
  BY <1>2, <1>3, <1>4, <1>5

LEMMA NextOneFacts ==
  ASSUME updater \in Pass, updater' = NextOne
  PROVE  updater' \in Pass /\ updater'.at = "pass" /\ updater'.res = updater.res
<1>1. updater' = [updater EXCEPT !.at = "pass", !.k = updater.k + 1]
  BY DEF NextOne
<1>2. updater.k + 1 \in Nat
  BY DEF Pass
<1> QED
  BY <1>1, <1>2 DEF Pass

LEMMA SingleUnchangedKeeps ==
  ASSUME TableInv, single_machine_unchanged
  PROVE  TableInv'
<1>1. /\ updater' \in Pass /\ updater'.at = "pass" /\ (loaded \/ updating)
      /\ UNCHANGED <<machines, nof, loaded, updating, static, dynamic, metadata, server, marking,
                     before, kept, harmed, overlap>>
  BY NextOneFacts DEF single_machine_unchanged, Updating, TableInv, Typed, Turn
<1> QED
  BY <1>1, WalkKeeps

\* A name is held by one slot in use.
LEMMA OneHolds ==
  ASSUME TableInv, Awake, NEW r, NEW j \in Holding(r), NEW k \in Holding(r)
  PROVE  j = k
<1>1. /\ j \in Slots /\ machines[j] # Null /\ machines[j].res = r
      /\ k \in Slots /\ machines[k] # Null /\ machines[k].res = r
      /\ (j < nof \/ (j = nof /\ server.at \in Dump))
      /\ (k < nof \/ (k = nof /\ server.at \in Dump))
  BY DEF Holding, InUse, Filing, Dump
<1>2. ASSUME NEW i \in Slots, i < nof, server.at \in Dump PROVE machines[i].res # machines[nof].res
  BY <1>2 DEF Awake, New
<1> QED
  BY <1>1, <1>2 DEF Awake, Named

LEMMA SingleUpdateKeeps ==
  ASSUME TableInv, single_machine_update
  PROVE  TableInv'
<1>1. /\ updater.at = "picked" /\ updater \in Pass /\ updater.k \in Slots
      /\ dynamic' = [dynamic EXCEPT ![updater.k] = Absent]
      /\ updater' = [updater EXCEPT !.at = "dump"]
      /\ overlap' = (overlap \/ Clearing \/ updater.k \notin Holding(updater.res))
      /\ UNCHANGED <<machines, nof, loaded, updating, static, metadata, server, marking,
                     before, kept, harmed>>
  BY DEF single_machine_update, Updating, TableInv, Typed, Turn
<1>2. \/ Holding(updater.res) = {}
      \/ \E j \in Holding(updater.res) : machines[j].changed
  BY DEF single_machine_update
<1>3. /\ updater' \in Pass /\ updater'.at = "dump" /\ updater'.k = updater.k
      /\ updater'.res = updater.res
  BY <1>1 DEF Pass
<1>4. /\ dynamic' \in [Slots -> Flags \cup {Absent}]
      /\ \A k \in Slots : k # updater.k => dynamic'[k] = dynamic[k]
  BY <1>1 DEF TableInv, Typed
<1>5. overlap' \in BOOLEAN
  BY <1>1 DEF TableInv, Typed, Clearing
<1>6. Typed' /\ Course' /\ Turn'
  BY <1>1, <1>3, <1>4, <1>5 DEF TableInv, Typed, Course, Turn
<1>7. (Asleep => Asleep') /\ (Found => Found')
  BY <1>1 DEF Asleep, Found, Stands, Stored, Torn
<1>8. Awake => Awake'
  BY <1>1 DEF Awake, Present, Filed, Unfiled, Named, Numbered, New, Moved, Takes
<1>9. ASSUME ~harmed, ~overlap' PROVE Flagged'
  <2>1. ~overlap /\ ~Clearing /\ updater.k \in Holding(updater.res)
    BY <1>1, <1>9
  <2>2. Asleep \/ (Awake /\ Saved)
    BY <1>9, <2>1 DEF TableInv, Whole, Flagged
  <2>3. Holding(updater.res)' = Holding(updater.res)
    BY <1>1 DEF Holding, InUse, Filing
  <2>4. Storing'
    BY <1>1, <1>3, <2>1, <2>3 DEF Storing, Clearing
  <2>5. ASSUME Awake, Saved PROVE Saved'
    <3>1. machines[updater.k].changed
      BY <1>2, <2>1, <2>5, OneHolds
    <3>2. \A k \in Slots : Unsaved(k)' = Unsaved(k) /\ Waiting(k)' = Waiting(k)
      BY <1>1 DEF Unsaved, Waiting, Marked
    <3>3. \A k \in Slots : k < nof /\ ~Unsaved(k)' =>
            Waiting(k)' \/ dynamic'[k] = machines[k].flags
      BY <1>1, <1>4, <2>5, <3>1, <3>2 DEF Saved, Waiting
    <3>4. server.at = "count_up" => machines[nof].changed \/ dynamic'[nof] = "clear"
      <4>1. server.at = "count_up" => nof \in Slots
        BY SlotFacts DEF TableInv, Typed, Course, Dump
      <4> QED
        BY <1>4, <2>5, <3>1, <4>1 DEF Saved
    <3> QED
      BY <1>1, <2>1, <3>3, <3>4 DEF Saved, Clearing
  <2> QED
    BY <1>7, <2>2, <2>4, <2>5 DEF Flagged
<1> QED
  BY <1>1, <1>6, <1>7, <1>8, <1>9 DEF TableInv, Whole, Flagged

LEMMA SingleDumpKeeps ==
  ASSUME TableInv, single_machine_dump
  PROVE  TableInv'
<1>1. PICK f \in Flags : /\ \A j \in Holding(updater.res) : f = machines[j].flags
                         /\ dynamic' = [dynamic EXCEPT ![updater.k] = f]
  BY DEF single_machine_dump
<1>2. /\ updater.at = "dump" /\ updater \in Pass /\ updater.k \in Slots
      /\ (loaded \/ updating)
      /\ overlap' = (overlap \/ Clearing)
      /\ UNCHANGED <<nof, loaded, updating, static, metadata, server, marking,
                     before, kept, harmed>>
  BY DEF single_machine_dump, Updating, TableInv, Typed, Turn
<1>3. machines' = [k \in Slots |-> IF k \in Holding(updater.res)
                                   THEN [machines[k] EXCEPT !.changed = FALSE] ELSE machines[k]]
  BY DEF single_machine_dump
<1>4. \A k \in Slots : k \notin Holding(updater.res) => machines'[k] = machines[k]
  BY <1>3
<1>5. ASSUME NEW k \in Slots, k \in Holding(updater.res)
      PROVE  /\ machines'[k] \in Machine /\ machines'[k] # Null /\ machines[k] # Null
             /\ machines'[k].res = machines[k].res /\ machines'[k].flags = machines[k].flags
  <2>1. machines[k] # Null /\ machines[k] \in Machine
    BY <1>5 DEF Holding, TableInv, Typed
  <2>2. machines'[k] = [machines[k] EXCEPT !.changed = FALSE]
    BY <1>3, <1>5
  <2>3. /\ machines'[k] \in Machine
        /\ machines'[k].res = machines[k].res /\ machines'[k].flags = machines[k].flags
    BY <2>1, <2>2 DEF Machine
  <2> QED
    BY <2>1, <2>3, TableAssumption
<1>6. machines' \in [Slots -> Machine \cup {Null}]
  <2>1. \A k \in Slots : machines'[k] \in Machine \cup {Null}
    BY <1>4, <1>5 DEF TableInv, Typed
  <2>2. machines' = [k \in Slots |-> machines'[k]]
    BY <1>3
  <2> QED
    BY <2>1, <2>2
<1>7. updater' \in Pass /\ updater'.at = "pass"
  BY <1>2, NextOneFacts DEF single_machine_dump
<1>8. /\ dynamic' \in [Slots -> Flags \cup {Absent}] /\ dynamic'[updater.k] = f
      /\ \A k \in Slots : k # updater.k => dynamic'[k] = dynamic[k]
  BY <1>1, <1>2 DEF TableInv, Typed
<1>9. overlap' \in BOOLEAN
  BY <1>2 DEF TableInv, Typed, Clearing
<1>A. Typed' /\ Course' /\ Turn'
  BY <1>2, <1>6, <1>7, <1>8, <1>9 DEF TableInv, Typed, Course, Turn
<1>B. SameNames
  <2>1. \A k \in Slots : machines'[k] = Null <=> machines[k] = Null
    BY <1>4, <1>5
  <2>2. \A k \in Slots : machines[k] # Null => machines'[k].res = machines[k].res
    BY <1>4, <1>5
  <2> QED
    BY <2>1, <2>2 DEF SameNames
<1>C. server.at \in Dump => machines'[nof].flags = machines[nof].flags
  BY <1>4, <1>5, SlotFacts DEF TableInv, Typed, Course
<1>D. Whole' /\ (Asleep => Asleep')
  BY <1>2, <1>B, <1>C, NamesKept
<1>E. ASSUME ~harmed, ~overlap' PROVE Flagged'
  <2>1. ~overlap /\ ~Clearing
    BY <1>2, <1>E
  <2>2. Asleep \/ (Awake /\ Saved)
    BY <1>E, <2>1 DEF TableInv, Whole, Flagged
  <2>3. updater.k \in Holding(updater.res)
    BY <1>2, <1>E, <2>1 DEF TableInv, Flagged, Storing
  <2>4. Storing'
    BY <1>7 DEF Storing
  <2>5. ASSUME Awake, Saved PROVE Saved'
    <3>1. \A k \in Slots : k # updater.k => k \notin Holding(updater.res)
      BY <2>3, <2>5, OneHolds
    <3>2. \A k \in Slots : k # updater.k =>
            machines'[k] = machines[k] /\ dynamic'[k] = dynamic[k]
      BY <1>4, <1>8, <3>1
    <3>3. dynamic'[updater.k] = machines'[updater.k].flags /\ f = machines[updater.k].flags
      BY <1>1, <1>2, <1>5, <1>8, <2>3
    <3>4. \A k \in Slots : Unsaved(k)' = Unsaved(k)
      BY <1>2 DEF Unsaved
    <3>5. \A k \in Slots : k # updater.k => Waiting(k)' = Waiting(k)
      BY <1>2, <3>2 DEF Waiting, Marked
    <3>6. \A k \in Slots : k < nof /\ ~Unsaved(k)' =>
            Waiting(k)' \/ dynamic'[k] = machines'[k].flags
      BY <2>5, <3>2, <3>3, <3>4, <3>5 DEF Saved
    <3>7. server.at = "count_up" => machines'[nof].changed \/ dynamic'[nof] = "clear"
      <4>1. server.at = "count_up" => nof \in Slots /\ machines[nof].flags = "clear"
        BY <2>5, SlotFacts DEF TableInv, Typed, Course, Dump, Awake, New
      <4> QED
        BY <1>8, <2>5, <3>2, <3>3, <4>1 DEF Saved
    <3> QED
      BY <1>2, <2>1, <3>6, <3>7 DEF Saved, Clearing
  <2> QED
    BY <1>D, <2>2, <2>4, <2>5 DEF Flagged
<1> QED
  BY <1>2, <1>A, <1>D, <1>E DEF TableInv, Flagged

-----------------------------------------------------------------------------
(* Loading, the update mode, and restarts.                                 *)

LEMMA LoadKeeps ==
  ASSUME TableInv, machines_load
  PROVE  TableInv'
<1>1. /\ ~loaded /\ ~updating /\ loaded' /\ updater.at = "idle" /\ nof <= MaxMachines
      /\ machines' = [k \in Slots |-> IF k < nof THEN machine_load(k) ELSE machines[k]]
      /\ loaded' = TRUE /\ harmed' = (harmed \/ server.at # "idle")
      /\ UNCHANGED <<nof, updating, static, dynamic, metadata, server, marking, updater,
                     before, kept, overlap>>
  BY DEF machines_load, flash, TableInv, Turn
<1>2. ASSUME NEW k \in Slots
      PROVE  /\ machine_load(k) \in Machine /\ machine_load(k) # Null
             /\ static[k] # Absent =>
                  machine_load(k).res = static[k] /\ machine_load(k).changed
  <2>1. PICK r \in Resources : /\ r = IF static[k] = Absent THEN Zero ELSE static[k]
    BY TableAssumption DEF TableInv, Typed
  <2>2. PICK f \in Flags : f = IF dynamic[k] = Absent THEN "zero" ELSE dynamic[k]
    BY DEF TableInv, Typed, Flags
  <2>3. machine_load(k) = [res |-> r, flags |-> f, changed |-> static[k] # Absent]
    BY <2>1, <2>2 DEF machine_load
  <2>4. machine_load(k) \in Machine
    BY <2>3 DEF Machine
  <2>5. machine_load(k) # Null
    BY <2>4, TableAssumption
  <2>6. machine_load(k).res = r /\ machine_load(k).changed = (static[k] # Absent)
    BY <2>3
  <2> QED
    BY <2>1, <2>4, <2>5, <2>6
<1>3. machines' \in [Slots -> Machine \cup {Null}]
  BY <1>1, <1>2 DEF TableInv, Typed
<1>4. Typed' /\ Course' /\ Turn'
  <2>1. harmed' \in BOOLEAN
    BY <1>1 DEF TableInv, Typed
  <2> QED
    BY <1>1, <1>3, <2>1 DEF TableInv, Typed, Course, Turn
<1>5. ASSUME ~harmed' PROVE Found' /\ Awake' /\ Storing' /\ Saved'
  <2>1. ~harmed /\ server.at = "idle" /\ Found
    BY <1>1, <1>5 DEF TableInv, Whole
  <2>2. metadata = nof /\ metadata \in 0 .. MaxMachines
    BY <1>1, <2>1 DEF TableInv, Whole, Asleep, Awake, Numbered, Count
  <2>3. /\ \A k \in Slots : k < nof => static[k] # Absent
        /\ \A j, k \in Slots : j < nof /\ k < nof /\ static[j] = static[k] => j = k
    BY <2>1, <2>2 DEF Found, Torn, Stands
  <2>4. \A k \in Slots : k < nof =>
          machines'[k] # Null /\ machines'[k].res = static[k] /\ machines'[k].changed
    BY <1>1, <1>2, <2>3
  <2>5. Found'
    BY <1>1, <2>1 DEF Found, Stands, Stored, Torn
  <2>6. Present' /\ Filed' /\ Named'
    BY <1>1, <2>3, <2>4 DEF Present, Filed, Named
  <2>7. Numbered' /\ New' /\ Moved'
    BY <1>1, <2>1, <2>2 DEF Numbered, New, Moved, Takes, Dump, Archive, Rename
  <2>8. Storing'
    BY <1>1 DEF Storing
  <2>9. Saved'
    BY <1>1, <2>1, <2>4 DEF Saved, Waiting
  <2> QED
    BY <1>1, <2>5, <2>6, <2>7, <2>8, <2>9 DEF Awake
<1> QED
  BY <1>4, <1>5 DEF TableInv, Whole, Flagged

LEMMA UpdateModeKeeps ==
  ASSUME TableInv, updat_Meffect
  PROVE  TableInv'
<1>1. /\ loaded /\ updater.at # "dump" /\ server.at = "idle"
      /\ machines' = [k \in Slots |-> Null] /\ nof' = 0 /\ loaded' = FALSE /\ updating' = TRUE
      /\ marking' = [w \in Writers |-> Null]
      /\ UNCHANGED <<static, metadata, server, updater, before, kept, harmed, overlap>>
  BY DEF updat_Meffect, FlagsLock, past
<1>2. dynamic' = [k \in Slots |-> IF k < nof /\ machines[k] # Null /\ machines[k].changed
                                  THEN machines[k].flags ELSE dynamic[k]]
  BY DEF updat_Meffect
<1>3. dynamic' \in [Slots -> Flags \cup {Absent}]
  <2>1. ASSUME NEW k \in Slots, machines[k] # Null PROVE machines[k].flags \in Flags
    BY <2>1 DEF TableInv, Typed, Machine
  <2> QED
    BY <1>2, <2>1 DEF TableInv, Typed
<1>4. Typed'
  BY <1>1, <1>3 DEF TableInv, Typed
<1>5. Course' /\ Turn'
  BY <1>1 DEF TableInv, Course, Turn, Dump, Archive, Rename, Count
<1>6. ASSUME ~harmed PROVE Found' /\ Asleep'
  <2>1. Found /\ Awake
    BY <1>1, <1>6 DEF TableInv, Whole, Asleep
  <2>2. Found'
    BY <1>1, <2>1 DEF Found, Stands, Stored, Torn
  <2>3. Asleep'
    BY <1>1, <2>1 DEF Asleep, Awake, Numbered
  <2> QED
    BY <2>2, <2>3
<1>7. Storing'
  BY <1>1 DEF Storing
<1> QED
  BY <1>1, <1>4, <1>5, <1>6, <1>7 DEF TableInv, Whole, Flagged

LEMMA RestartKeeps ==
  ASSUME TableInv, restart
  PROVE  TableInv'
<1>1. /\ harmed' = (harmed \/ Torn)
      /\ metadata' = IF metadata = NoNumber THEN 0 ELSE metadata
      /\ nof' = IF metadata = NoNumber THEN 0 ELSE metadata % 256
      /\ machines' = [k \in Slots |-> Null] /\ loaded' = FALSE /\ updating' = FALSE
      /\ server' = Idle /\ marking' = [w \in Writers |-> Null]
      /\ updater' = [at |-> "idle", k |-> 0, total |-> 0, res |-> Zero]
      /\ UNCHANGED <<static, dynamic, before, overlap>>
  BY DEF restart
<1>2. kept' \subseteq Resources
  BY DEF restart, TableInv, Typed
<1>3. /\ server'.at = "idle" /\ server'.kind = "none" /\ server'.idx = NoIndex
      /\ updater'.at = "idle"
  BY <1>1 DEF Idle
<1>4. server' \in Order /\ updater' \in Pass
  <2>1. "idle" \in Places /\ "none" \in Kinds
    BY DEF Places, Kinds
  <2> QED
    BY <1>1, <2>1, TableAssumption, SlotFacts DEF Idle, Order, Pass
<1>5. Typed'
  <2>1. harmed' \in BOOLEAN /\ metadata' \in Int /\ nof' \in Nat
    BY <1>1 DEF TableInv, Typed, Torn
  <2> QED
    BY <1>1, <1>2, <1>4, <2>1 DEF TableInv, Typed
<1>6. Course' /\ Turn'
  BY <1>1, <1>3, SlotFacts DEF Course, Turn, Dump, Archive, Rename, Count
<1>7. ASSUME ~harmed' PROVE Found' /\ Asleep'
  <2>1. ~harmed /\ ~Torn
    BY <1>1, <1>7
  <2>2. Found /\ (Asleep \/ Awake) /\ server.at # "meta_write"
    BY <2>1 DEF TableInv, Whole, Torn
  <2>3. metadata \in 0 .. MaxMachines
    BY <2>2 DEF Asleep, Awake, Numbered
  <2>4. metadata' = metadata /\ nof' = metadata
    BY <1>1, <2>3, SlotFacts DEF NoIndex, NoNumber
  <2>5. Stands
    BY <2>1, <2>2 DEF Found
  <2>6. Found'
    BY <1>1, <1>3, <2>4, <2>5 DEF Found, Stands
  <2>7. Asleep'
    BY <1>1, <1>3, <2>3, <2>4 DEF Asleep
  <2> QED
    BY <2>6, <2>7
<1>8. Storing'
  BY <1>3 DEF Storing
<1> QED
  BY <1>5, <1>6, <1>7, <1>8 DEF TableInv, Whole, Flagged

-----------------------------------------------------------------------------
(* The invariant holds in every state.                                     *)

LEMMA TableBegins == Init => TableInv
<1> SUFFICES ASSUME Init PROVE TableInv
  OBVIOUS
<1>1. /\ machines = [k \in Slots |-> Null] /\ nof = 0 /\ loaded = FALSE /\ updating = FALSE
      /\ static = [k \in Slots |-> Absent] /\ dynamic = [k \in Slots |-> Absent]
      /\ metadata = 0 /\ server = Idle /\ marking = [w \in Writers |-> Null]
      /\ updater = [at |-> "idle", k |-> 0, total |-> 0, res |-> Zero]
      /\ kept = {} /\ harmed = FALSE /\ overlap = FALSE
  BY DEF Init
<1>2. /\ server.at = "idle" /\ server.kind = "none" /\ server.idx = NoIndex
      /\ updater.at = "idle"
  BY <1>1 DEF Idle
<1>3. server \in Order /\ updater \in Pass
  <2>1. "idle" \in Places /\ "none" \in Kinds
    BY DEF Places, Kinds
  <2> QED
    BY <1>1, <2>1, TableAssumption, SlotFacts DEF Idle, Order, Pass
<1>4. Typed
  <2>1. machines \in [Slots -> Machine \cup {Null}]
    BY <1>1
  <2>2. static \in [Slots -> Resources \cup {Absent}]
    BY <1>1
  <2>3. dynamic \in [Slots -> Flags \cup {Absent}]
    BY <1>1
  <2>4. marking \in [Writers -> Resources \cup {Null}]
    BY <1>1
  <2>5. nof \in Nat /\ metadata \in Int
    BY <1>1
  <2>6. loaded \in BOOLEAN /\ updating \in BOOLEAN /\ harmed \in BOOLEAN /\ overlap \in BOOLEAN
    BY <1>1
  <2>7. kept \subseteq Resources
    BY <1>1
  <2> QED
    BY <1>3, <2>1, <2>2, <2>3, <2>4, <2>5, <2>6, <2>7 DEF Typed
<1>5. Course /\ Turn
  BY <1>1, <1>2, SlotFacts DEF Course, Turn, Dump, Archive, Rename, Count
<1>6. \A k \in Slots : ~(k < nof) /\ ~(k < metadata)
  BY <1>1, SlotFacts
<1>7. Found /\ Asleep
  BY <1>1, <1>2, <1>6, SlotFacts DEF Found, Stands, Asleep
<1>8. Storing
  BY <1>2 DEF Storing
<1> QED
  BY <1>4, <1>5, <1>7, <1>8 DEF TableInv, Whole, Flagged

LEMMA TableStep == TableInv /\ [Next]_vars => TableInv'
<1> SUFFICES ASSUME TableInv, [Next]_vars PROVE TableInv'
  OBVIOUS
<1>1. ASSUME Serve PROVE TableInv'
  <2>1. ASSUME NEW r \in Resources,
               deploy(r) \/ refuse_resource(r) \/ refuse_template(r) \/ clear(r)
        PROVE  TableInv'
    BY <2>1, TableAssumption, DeployKeeps, RefusedKeeps, ClearKeeps
    DEF refuse_resource, refuse_template
  <2> QED
    BY <1>1, <2>1, ClearLastKeeps, DumpFailsKeeps DEF Serve
<1>2. ASSUME Steps PROVE TableInv'
  BY <1>2, DumpStaticEraseKeeps, DumpStaticWriteKeeps, DumpDynamicEraseKeeps,
     DumpDynamicWriteKeeps, CountUpKeeps, ArchiveStaticKeeps, ArchiveDynamicKeeps,
     RenameStaticKeeps, RenameStaticSetKeeps, RenameDynamicKeeps, RenameDynamicClearKeeps,
     RenameDynamicSetKeeps, FreeFromRamKeeps, CountDownKeeps, MetadataEraseKeeps,
     MetadataWriteKeeps, ClearAllNextKeeps
  DEF Steps
<1>3. ASSUME Change PROVE TableInv'
  <2>1. {"clear", "busy"} \subseteq Flags
    BY DEF Flags
  <2> QED
    BY <1>3, <2>1, FlagsSetKeeps, MachineUpdateKeeps DEF Change
<1>4. ASSUME Update PROVE TableInv'
  BY <1>4, PassBeginsKeeps, PassPicksKeeps, SingleUnchangedKeeps, SingleUpdateKeeps,
     SingleDumpKeeps
  DEF Update
<1>5. ASSUME UNCHANGED vars PROVE TableInv'
  <2>1. UNCHANGED <<machines, nof, loaded, updating, static, dynamic, metadata, server, updater,
                    marking, before, kept, harmed, overlap>>
    BY <1>5 DEF vars, ram, flash, past
  <2> QED
    BY <2>1, WalkKeeps DEF TableInv, Typed, Turn
<1> QED
  BY <1>1, <1>2, <1>3, <1>4, <1>5, LoadKeeps, UpdateModeKeeps, RestartKeeps DEF Next

LEMMA TableHolds == Spec => []TableInv
BY TableBegins, TableStep, PTL DEF Spec

-----------------------------------------------------------------------------
(* What follows.                                                           *)

\* Between orders the number in flash and the files are the table in RAM, machine by
\* machine: machines_save and machines_free leave no other number or order, whatever
\* orders, dumps that failed, flag updates and restarts came before (harmed names the
\* ways in which the code does lose the table).
THEOREM MirrorHolds == Spec => []Mirror
<1>1. TableInv => Mirror
  <2> SUFFICES ASSUME TableInv, ~harmed, server.at = "idle", loaded
               PROVE  /\ metadata = nof
                      /\ \A k \in Slots :
                           k < nof => machines[k] # Null /\ static[k] = machines[k].res
    BY DEF Mirror
  <2>1. Awake
    BY DEF TableInv, Whole, Asleep
  <2> QED
    BY <2>1 DEF Awake, Present, Filed, Unfiled, Numbered, Archive, Rename, Count
<1> QED
  BY <1>1, TableHolds, PTL

\* Wherever an order is cut short, except where machines_free has files half moved or the
\* number is being written, machines_init and machines_load find a whole table: a file
\* under every number, and the machines from before the order or those from after it.
THEOREM RecoverableHolds == Spec => []Recoverable
<1>1. TableInv => Recoverable
  <2> SUFFICES ASSUME TableInv, ~harmed, ~Torn
               PROVE  /\ \A k \in Slots : k < metadata => static[k] # Absent
                      /\ loaded => Stored \in {before, Table}
    BY DEF Recoverable
  <2>1. Stands /\ (loaded => Awake)
    BY DEF TableInv, Whole, Found, Asleep
  <2>2. loaded /\ server.at \in {"idle", "next"} => Stored = Table
    BY <2>1, TableStored
  <2>3. server.at \notin {"idle", "next"} => Stored = before
    BY <2>1 DEF Stands
  <2> QED
    BY <2>1, <2>2, <2>3 DEF Stands
<1> QED
  BY <1>1, TableHolds, PTL

\* Between orders the flags of a machine that is neither marked as changed nor about to be
\* marked are in its file: machines_update_tsk clears no mark of a change it has not stored,
\* and machines_free takes the file of the machine it moves along. (overlap says that the
\* updater has worked on a machine while it was being freed.)
THEOREM FlagsAreSaved == Spec => []FlagsSaved
<1>1. TableInv => FlagsSaved
  <2> SUFFICES ASSUME TableInv, ~overlap, ~harmed, loaded, server.at = "idle",
                      NEW k \in Slots, k < nof, machines[k].res \notin Marked,
                      ~machines[k].changed
               PROVE  dynamic[k] = machines[k].flags
    BY DEF FlagsSaved, Marked
  <2>1. Saved
    BY DEF TableInv, Flagged, Asleep
  <2>2. ~Unsaved(k) /\ ~Waiting(k)
    BY DEF Unsaved, Waiting, Archive, Rename
  <2> QED
    BY <2>1, <2>2 DEF Saved
<1> QED
  BY <1>1, TableHolds, PTL
=============================================================================
