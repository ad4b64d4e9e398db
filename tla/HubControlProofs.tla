-------------------------- MODULE HubControlProofs --------------------------
(***************************************************************************)
(* What holds of mode control for every set of tasks, every set of stimuli *)
(* and every bound: the types of the state, that an access point hub stays *)
(* off the network, that leaving the events of connection and validation   *)
(* out of HubControl leaves nothing out; further down, the phases; and at  *)
(* the end, for a hub whose button nobody holds down, that its modes are   *)
(* entered whole and saved.                                                *)
(***************************************************************************)
EXTENDS HubControl, SequenceTheorems, TLAPS

-----------------------------------------------------------------------------
(* The tables.                                                             *)

LEMMA Rows ==
  /\ \A s \in MStates : DOMAIN Exits[s] \subseteq MStates
  /\ \A s \in MStates : DOMAIN Triggers[s] \subseteq Effects
<1>1. ASSUME NEW s \in MStates
      PROVE  DOMAIN Exits[s] \subseteq MStates /\ DOMAIN Triggers[s] \subseteq Effects
  <2>1. CASE s = "flash" BY <2>1 DEF Exits, Triggers, MStates, Effects
  <2>2. CASE s = "regis" BY <2>2 DEF Exits, Triggers, MStates, Effects
  <2>3. CASE s = "engag" BY <2>3 DEF Exits, Triggers, MStates, Effects
  <2>4. CASE s = "runn" BY <2>4 DEF Exits, Triggers, MStates, Effects
  <2>5. CASE s = "diseng" BY <2>5 DEF Exits, Triggers, MStates, Effects
  <2>6. CASE s = "engup" BY <2>6 DEF Exits, Triggers, MStates, Effects
  <2>7. CASE s = "updat" BY <2>7 DEF Exits, Triggers, MStates, Effects
  <2>8. CASE s = "engap" BY <2>8 DEF Exits, Triggers, MStates, Effects
  <2>9. CASE s = "apSet" BY <2>9 DEF Exits, Triggers, MStates, Effects
  <2>10. CASE s = "enfba" BY <2>10 DEF Exits, Triggers, MStates, Effects
  <2>11. CASE s = "fbset" BY <2>11 DEF Exits, Triggers, MStates, Effects
  <2>12. CASE s = "enidl" BY <2>12 DEF Exits, Triggers, MStates, Effects
  <2>13. CASE s = "idset" BY <2>13 DEF Exits, Triggers, MStates, Effects
  <2>14. CASE s = "error" BY <2>14 DEF Exits, Triggers, MStates, Effects
  <2>15. QED BY <2>1, <2>2, <2>3, <2>4, <2>5, <2>6, <2>7, <2>8, <2>9, <2>10,
                <2>11, <2>12, <2>13, <2>14 DEF MStates
<1>2. QED BY <1>1

\* A column lookup gives the default or a name of the row.
LEMMA ColumnRange ==
  ASSUME NEW row, NEW event, NEW default
  PROVE  Column(row, event, default) \in DOMAIN row \cup {default}
BY DEF Column

LEMMA TableTypes ==
  ASSUME NEW s \in MStates, NEW e
  PROVE  nextState(s, e) \in MStates /\ nextEffect(s, e) \in Effects
<1>1. nextState(s, e) \in DOMAIN Exits[s] \cup {s}
  BY ColumnRange DEF nextState
<1>2. nextEffect(s, e) \in DOMAIN Triggers[s] \cup {"noop"}
  BY ColumnRange DEF nextEffect
<1>3. "noop" \in Effects
  BY DEF Effects
<1>4. QED BY <1>1, <1>2, <1>3, Rows

\* cnnctd, cnter and vldsync, which connection and validation queue and
\* HubControl leaves out, never change the state or start an effect: they only
\* take up half a second of the state machine's time.
THEOREM NoiseIgnored ==
  ASSUME NEW s \in MStates, NEW e \in {"cnnctd", "cnter", "vldsync"}
  PROVE  nextState(s, e) = s /\ nextEffect(s, e) = "noop"
<1>1. \A c \in DOMAIN Exits[s] : e \notin Exits[s][c]
  <2>1. CASE s \in {"flash", "regis", "engag", "runn", "diseng", "engup", "updat"}
    BY <2>1 DEF Exits
  <2>2. CASE s \in {"engap", "apSet", "enfba", "fbset", "enidl", "idset", "error"}
    BY <2>2 DEF Exits
  <2>3. QED BY <2>1, <2>2 DEF MStates
<1>2. \A c \in DOMAIN Triggers[s] : e \notin Triggers[s][c]
  <2>1. CASE s \in {"flash", "regis", "engag", "runn", "diseng", "engup", "updat"}
    BY <2>1 DEF Triggers
  <2>2. CASE s \in {"engap", "apSet", "enfba", "fbset", "enidl", "idset", "error"}
    BY <2>2 DEF Triggers
  <2>3. QED BY <2>1, <2>2 DEF MStates
<1>3. QED BY <1>1, <1>2 DEF nextState, nextEffect, Column

-----------------------------------------------------------------------------
(* The types.                                                              *)

LEMMA ModeTypes ==
  /\ \A m \in Modes : ModeTasks[m] \subseteq Tasks
  /\ \A m \in Modes : EngageRequest[m] \subseteq Tasks
  /\ \A m \in Modes : DisengageRequest[m] \subseteq Tasks
  /\ \A m \in Modes : Outcome[m] \in MEvents
<1>1. {"execute", "fallback"} \subseteq Tasks
  BY HubAssumption DEF AllTasks
<1>2. QED
  BY <1>1 DEF Modes, ModeTasks, EngageRequest, DisengageRequest, Outcome, MEvents

LEMMA EffectType ==
  ASSUME NEW name \in Effects, NEW f \in CtlType
  PROVE  Effect(name, f) \in CtlType
<1> USE DEF CtlType, Modes
<1>1. CASE name \in {"noop", "erro"} BY <1>1 DEF Effect
<1>2. CASE name = "rgstr" BY <1>2 DEF Effect, rgstr_Meffect
<1>3. CASE name = "engag" BY <1>3 DEF Effect, engag_Meffect
<1>4. CASE name = "disen" BY <1>4 DEF Effect, disen_Meffect
<1>5. CASE name = "trgRunning" BY <1>5, ModeTypes DEF Effect, trgRunning
<1>6. CASE name = "updat" BY <1>6 DEF Effect, updat_Meffect
<1>7. CASE name = "apeng" BY <1>7 DEF Effect, apeng_Meffect
<1>8. CASE name = "apdng" BY <1>8 DEF Effect, apdng_Meffect
<1>9. CASE name = "fbdis" BY <1>9 DEF Effect, fbdis_Meffect, disen_Meffect
<1>10. CASE name = "trgfb" BY <1>10 DEF Effect, trgfb_Meffect
<1>11. CASE name = "fbSet" BY <1>11, ModeTypes DEF Effect, fbSet_Meffect
<1>12. CASE name = "trgid" BY <1>12 DEF Effect, trgid_Meffect
<1>13. CASE name = "idset" BY <1>13, ModeTypes DEF Effect, idset_Meffect
<1>14. CASE name = "iddis" BY <1>14 DEF Effect, iddis_Meffect
<1>15. QED BY <1>1, <1>2, <1>3, <1>4, <1>5, <1>6, <1>7, <1>8, <1>9, <1>10,
              <1>11, <1>12, <1>13, <1>14 DEF Effects

LEMMA QueueType ==
  ASSUME evtQ \in Seq(MEvents), NEW e \in MEvents, Queue(e)
  PROVE  evtQ' \in Seq(MEvents)
BY AppendProperties DEF Queue

\* A step of the state machine: Tail of a queue that is not empty, an effect.
LEMMA FSMType ==
  ASSUME TypeOK, runMasterFSM
  PROVE  TypeOK'
<1> DEFINE event  == Head(evtQ)
           effect == nextEffect(masterState, event)
<1>1. event \in MEvents /\ Tail(evtQ) \in Seq(MEvents)
  BY HeadTailProperties DEF TypeOK, runMasterFSM
<1>2. nextState(masterState, event) \in MStates /\ effect \in Effects
  BY TableTypes DEF TypeOK
<1>3. SavedMode(effect) \in {"runmod", "fbkmod"}
  BY DEF SavedMode, TypeOK
<1>4. ctl' \in CtlType
  BY <1>2, EffectType DEF TypeOK, runMasterFSM
<1>5. regAhead' \in Nat
  BY DEF TypeOK, runMasterFSM
<1>6. QED
  BY <1>1, <1>2, <1>3, <1>4, <1>5 DEF TypeOK, runMasterFSM, lnch, bnds

LEMMA LauncherType ==
  ASSUME TypeOK, Launcher
  PROVE  TypeOK'
<1> USE DEF LauncherUnchanged, envv, bnds
<1>1. launcher.mode \in Modes /\ ctl.desired \in Modes
  BY DEF TypeOK, CtlType
<1>2. ASSUME NEW m \in Modes, Request(m) \/ Withdraw(m)
      PROVE  engageFlag' \subseteq Tasks /\ disengageFlag' \subseteq Tasks
  <2>1. EngageRequest[m] \subseteq Tasks /\ DisengageRequest[m] \subseteq Tasks
    BY ModeTypes
  <2>2. QED BY <1>2, <2>1 DEF Request, Withdraw, TypeOK
<1>3. CASE launcher_task
  BY <1>1, <1>2, <1>3 DEF launcher_task, TypeOK
<1>4. CASE launch_start
  BY <1>1, <1>2, <1>4 DEF launch_start, TypeOK
<1>5. CASE updateCurrent
  BY <1>5 DEF updateCurrent, TypeOK
<1>6. CASE launch_outcome
  <2>1. evtQ' \in Seq(MEvents)
    BY <1>1, <1>6, ModeTypes, QueueType DEF launch_outcome, TypeOK
  <2>2. QED BY <1>1, <1>2, <1>6, <2>1 DEF launch_outcome, TypeOK
<1>7. CASE launch_idle_wait
  BY <1>7 DEF launch_idle_wait, TypeOK
<1>8. QED BY <1>3, <1>4, <1>5, <1>6, <1>7 DEF Launcher

LEMMA TaskType ==
  ASSUME TypeOK, NEW t \in Tasks, Task(t)
  PROVE  TypeOK'
<1> USE DEF TypeOK, TaskUnchanged, hub, lnch, envv, bnds, Goes, TaskPoints,
            Confirmed, Released
<1>1. CASE task_engage(t) BY <1>1 DEF task_engage
<1>2. CASE task_engage_slowly(t) BY <1>2 DEF task_engage_slowly
<1>3. CASE task_engagement_done(t) BY <1>3 DEF task_engagement_done
<1>4. CASE task_isRun(t) BY <1>4 DEF task_isRun
<1>5. CASE task_run(t) BY <1>5 DEF task_run
<1>6. CASE task_disengage(t) BY <1>6 DEF task_disengage
<1>7. CASE task_disengagement_done(t) BY <1>7 DEF task_disengagement_done
<1>8. CASE t = "deploy" /\ deployment_loaded BY <1>8 DEF deployment_loaded
<1>9. CASE t = "execute" /\ wait_for_deployment BY <1>9 DEF wait_for_deployment
<1>10. QED BY <1>1, <1>2, <1>3, <1>4, <1>5, <1>6, <1>7, <1>8, <1>9 DEF Task

LEMMA RegistrationType ==
  ASSUME TypeOK, registration_task \/ check_publish \/ registration_skip
  PROVE  TypeOK'
<1> USE DEF TypeOK, hub, task, lnch, bnds
<1>1. CASE registration_task BY <1>1 DEF registration_task
<1>2. CASE check_publish
  <2>1. StartEvent \in MEvents
    BY DEF StartEvent, MEvents
  <2>2. evtQ' \in Seq(MEvents)
    BY <1>2, <2>1, QueueType DEF check_publish
  <2>3. regAhead' \in Nat
    BY <1>2, LenProperties DEF check_publish
  <2>4. QED BY <1>2, <2>2, <2>3 DEF check_publish
<1>3. CASE registration_skip BY <1>3 DEF registration_skip
<1>4. QED BY <1>1, <1>2, <1>3

LEMMA PowerUpType ==
  /\ PowerUp.masterState \in MStates /\ PowerUp.evtQ \in Seq(MEvents)
  /\ PowerUp.ctl \in CtlType
  /\ PowerUp.launcher \in [at : {"idle", "wait", "poll", "waitIdle"}, mode : Modes]
  /\ PowerUp.at \in [Tasks -> TaskPoints]
BY DEF PowerUp, MStates, MEvents, CtlType, Modes, TaskPoints

LEMMA RestartType ==
  ASSUME TypeOK, Restart
  PROVE  TypeOK'
<1>1. boots' \in Nat
  BY DEF TypeOK, Restart
<1>2. QED BY <1>1, PowerUpType DEF Restart, TypeOK

LEMMA NetworkType ==
  ASSUME TypeOK, connection_task \/ connection_reset_cb
  PROVE  TypeOK'
<1> USE DEF NetUnchanged, hub, task, lnch
<1>1. drops' \in Nat
  BY DEF TypeOK, connection_task, connection_reset_cb
<1>2. online' \in BOOLEAN /\ noInternet' \in BOOLEAN
  BY DEF TypeOK, connection_task, connection_reset_cb
<1>3. QED
  BY <1>1, <1>2 DEF TypeOK, connection_task, connection_reset_cb

LEMMA AStimulus ==
  ASSUME \/ ap_mode_pisr \/ fallback_mode_pisr \/ order_fallback \/ order_bootup
         \/ update_success_cb \/ cmd_set_layout \/ cmd_erase_layout
  PROVE  \E s \in AllStimuli : Stimulus(s)
BY DEF AllStimuli, ap_mode_pisr, fallback_mode_pisr, order_fallback, order_bootup,
       update_success_cb, cmd_set_layout, cmd_erase_layout

LEMMA StimulusType ==
  ASSUME TypeOK,
         \/ ap_mode_pisr \/ fallback_mode_pisr \/ order_fallback \/ order_bootup
         \/ update_success_cb \/ cmd_set_layout \/ cmd_erase_layout
  PROVE  TypeOK'
<1> USE DEF ap_mode_pisr, fallback_mode_pisr, order_fallback, order_bootup,
            update_success_cb, cmd_set_layout, cmd_erase_layout
<1>1. \E s \in AllStimuli : Stimulus(s)
  BY AStimulus
<1>2. stimuli' \in Nat
  BY <1>1 DEF Stimulus, TypeOK
<1>3. evtQ' \in Seq(MEvents)
  <2>1. {"apSet", "trgfb", "trgup", "flashOk"} \subseteq MEvents
    BY DEF MEvents
  <2>2. UNCHANGED evtQ \/ \E e \in {"apSet", "trgfb", "trgup", "flashOk"} : Queue(e)
    OBVIOUS
  <2>3. QED BY <2>1, <2>2, QueueType DEF TypeOK
<1>4. hwSelected' \in BOOLEAN /\ updateUrl' \in BOOLEAN
  BY DEF TypeOK
<1>5. nvs' \in [mode : {"runmod", "fbkmod"}, layout : BOOLEAN]
  BY DEF TypeOK
<1>6. QED
  BY <1>1, <1>2, <1>3, <1>4, <1>5 DEF Stimulus, TypeOK, task, lnch

\* The types hold for every set of tasks and stimuli and every bound.
THEOREM TypeCorrect == Spec => []TypeOK
<1>1. Init => TypeOK
  <2> SUFFICES ASSUME Init PROVE TypeOK
    OBVIOUS
  <2>1. regAhead \in Nat /\ stimuli \in Nat /\ boots \in Nat /\ drops \in Nat
    BY DEF Init
  <2>2. QED BY <2>1, PowerUpType DEF Init, TypeOK
<1>2. TypeOK /\ [Next]_vars => TypeOK'
  <2> SUFFICES ASSUME TypeOK, [Next]_vars PROVE TypeOK'
    OBVIOUS
  <2>1. CASE runMasterFSM BY <2>1, FSMType
  <2>2. CASE Launcher BY <2>2, LauncherType
  <2>3. CASE \E t \in Tasks : Task(t) BY <2>3, TaskType
  <2>4. CASE registration_task \/ check_publish \/ registration_skip
    BY <2>4, RegistrationType
  <2>5. CASE connection_task \/ connection_reset_cb BY <2>5, NetworkType
  <2>6. CASE update_task \/ PowerCycle
    BY <2>6, RestartType DEF update_task, PowerCycle
  <2>7. CASE \/ ap_mode_pisr \/ fallback_mode_pisr \/ order_fallback \/ order_bootup
             \/ update_success_cb \/ cmd_set_layout \/ cmd_erase_layout
    BY <2>7, StimulusType
  <2>8. CASE UNCHANGED vars
    BY <2>8 DEF TypeOK, vars, hub, task, lnch, envv, bnds
  <2>9. QED
    BY <2>1, <2>2, <2>3, <2>4, <2>5, <2>6, <2>7, <2>8 DEF Next, Launcher
<1>3. QED BY <1>1, <1>2, PTL DEF Spec

-----------------------------------------------------------------------------
(* The access point is off the network.                                    *)

\* The only event that enters apSet starts apeng_Meffect, which takes the
\* network down; and no event in apSet starts an effect that lets it up again
\* unless it leaves the state.
LEMMA EnteringAP ==
  ASSUME NEW s \in MStates, NEW e, nextState(s, e) = "apSet"
  PROVE  \/ nextEffect(s, e) = "apeng"
         \/ s = "apSet" /\ nextEffect(s, e) \in {"noop", "erro", "apdng"}
<1>1. CASE s = "apSet"
  <2>1. DOMAIN Triggers[s] = {"apdng", "erro"}
    BY <1>1 DEF Triggers
  <2>2. QED BY <1>1, <2>1, ColumnRange DEF nextEffect
<1>2. CASE s # "apSet"
  <2>1. "apSet" \in DOMAIN Exits[s] /\ e \in Exits[s]["apSet"]
    BY <1>2 DEF nextState, Column
  <2>2. s = "engap"
    <3>1. CASE s \in {"flash", "regis", "engag", "runn", "diseng", "engup", "updat"}
      BY <2>1, <3>1 DEF Exits
    <3>2. CASE s \in {"enfba", "fbset", "enidl", "idset", "error"}
      BY <2>1, <3>2 DEF Exits
    <3>3. QED BY <1>2, <3>1, <3>2 DEF MStates
  <2>3. e = "diseng"
    BY <2>1, <2>2 DEF Exits
  <2>4. nextEffect(s, e) = "apeng"
    BY <2>2, <2>3 DEF nextEffect, Column, Triggers
  <2>5. QED BY <2>4
<1>3. QED BY <1>1, <1>2

\* Whatever happens, a hub in access point mode does not go online: the
\* connection task is switched off, and stays off until the mode is left.
THEOREM APStaysOffline == Spec => []APOffline
<1>1. Init => APOffline
  BY DEF Init, APOffline, PowerUp
<1>2. TypeOK /\ APOffline /\ [Next]_vars => APOffline'
  <2> SUFFICES ASSUME TypeOK, APOffline, [Next]_vars, masterState' = "apSet"
               PROVE  ~online' /\ ~ctl'.net
    BY DEF APOffline
  <2> USE DEF APOffline
  <2>1. CASE runMasterFSM
    <3> DEFINE effect == nextEffect(masterState, Head(evtQ))
    <3>1. \/ effect = "apeng"
          \/ masterState = "apSet" /\ effect \in {"noop", "erro", "apdng"}
      BY <2>1, EnteringAP DEF runMasterFSM, TypeOK
    <3>2. ~Effect(effect, ctl).net
      BY <3>1 DEF Effect, apeng_Meffect, apdng_Meffect, TypeOK, CtlType
    <3>3. QED BY <2>1, <3>1, <3>2 DEF runMasterFSM
  <2>2. CASE Launcher
    BY <2>2 DEF Launcher, launcher_task, launch_start, updateCurrent, launch_outcome,
                launch_idle_wait, LauncherUnchanged, envv
  <2>3. CASE \E t \in Tasks : Task(t)
    BY <2>3 DEF Task, task_engage, task_engage_slowly, task_engagement_done,
                task_isRun, task_run, task_disengage, task_disengagement_done,
                deployment_loaded, wait_for_deployment, TaskUnchanged, hub, envv
  <2>4. CASE registration_task \/ check_publish \/ registration_skip
    BY <2>4 DEF registration_task, check_publish, registration_skip, hub
  <2>5. CASE connection_task \/ connection_reset_cb
    BY <2>5 DEF connection_task, connection_reset_cb, NetUnchanged, hub
  <2>6. CASE update_task \/ PowerCycle
    BY <2>6 DEF update_task, PowerCycle, Restart, PowerUp
  <2>7. CASE \/ ap_mode_pisr \/ fallback_mode_pisr \/ order_fallback \/ order_bootup
             \/ update_success_cb \/ cmd_set_layout \/ cmd_erase_layout
    <3>1. \E s \in AllStimuli : Stimulus(s)
      BY <2>7, AStimulus
    <3>2. UNCHANGED <<masterState, ctl, online>>
      BY <3>1 DEF Stimulus
    <3>3. QED BY <3>2
  <2>8. CASE UNCHANGED vars
    BY <2>8 DEF vars, hub, envv
  <2>9. QED
    BY <2>1, <2>2, <2>3, <2>4, <2>5, <2>6, <2>7, <2>8 DEF Next, Launcher
<1>3. QED BY <1>1, <1>2, TypeCorrect, PTL DEF Spec

-----------------------------------------------------------------------------
(***************************************************************************)
(* The phases of mode control: why execution and fallback never drive the  *)
(* outputs together, why nobody works on the machines while an update or   *)
(* the access point runs, and by which events alone the hub fails, for     *)
(* every set of tasks and stimuli and for every bound but Backlog, which   *)
(* must be 0: registration looks at flash again only when the state        *)
(* machine has taken its last event.                                       *)
(*                                                                         *)
(* The state machine and the launcher run a protocol: an effect asks for a *)
(* mode, the launcher raises flags, the tasks confirm, the outcome comes   *)
(* back through the queue, an effect raises run flags. Other orders may    *)
(* overtake it at each step. PhaseInv lists the phases this leads to.      *)
(***************************************************************************)


-----------------------------------------------------------------------------
(* What is queued.                                                         *)

\* The events of the button, the cloud, the console and of registration that ask
\* for something at any time. The others answer a step of the protocol.
Orders == {"flashOk", "apSet", "trgfb", "trgup"}

\* The answers in queue q: none, e alone, or e and behind it f.
Bare(q)      == \A i \in DOMAIN q : q[i] \in Orders
One(q, e)    == \E i \in DOMAIN q : /\ q[i] = e
                                    /\ \A j \in DOMAIN q \ {i} : q[j] \in Orders
Two(q, e, f) == \E i, j \in DOMAIN q : /\ i < j /\ q[i] = e /\ q[j] = f
                                       /\ \A k \in DOMAIN q \ {i, j} : q[k] \in Orders

-----------------------------------------------------------------------------
(* What the tasks and the launcher are up to.                              *)

\* Task t has confirmed, or is on its way through its engagement or run section.
Live(t) == t \in confirmation \/ at[t] \in {"engage", "engaged", "run"}

ExecuteOut  == "execute" \notin ctl.run /\ ~Live("execute")
FallbackOut == "fallback" \notin ctl.run /\ at["fallback"] # "run"

\* The tasks of idle alone may be live.
IdleOnly == /\ ~Live("deploy") /\ ~Live("execute") /\ ~Live("fallback")
            /\ confirmed \subseteq ModeTasks.idle

\* Run flags are up, and tasks work, only where a task has confirmed.
Sound == /\ ctl.run \subseteq confirmation
         /\ \A t \in Tasks : at[t] \in {"engaged", "run"} => t \in confirmation

NoneEngaging == \A t \in Tasks : at[t] = "engage" => t \in confirmation

\* The launcher knows what the tasks have confirmed, and none is about to.
Rested == confirmed = confirmation /\ Sound /\ NoneEngaging

Resting == launcher.at = "idle" /\ Rested

\* The launcher has launched the mode desired and rests.
Quiet(mode) == ctl.desired = mode /\ confirmed = ModeTasks[mode] /\ Resting

Waiting(mode) == launcher = [at |-> "wait", mode |-> mode]
Polling(mode) == launcher = [at |-> "poll", mode |-> mode]

\* A launch of fallback, or the rest before it or after it. While it polls, the
\* launcher knows of every task but execute no more than is so, and if execute
\* is live the launcher knows it.
LaunchingFallback ==
  \/ Resting
  \/ Waiting("fallback") /\ Rested
  \/ /\ Polling("fallback") /\ Sound
     /\ confirmed \ {"execute"} \subseteq confirmation
     /\ Live("execute") => "execute" \in confirmed
     /\ at["execute"] = "engage" => "execute" \in confirmation

\* The same of a launch of running, which fallback must leave.
LaunchingRunning ==
  \/ Resting
  \/ Waiting("running") /\ Rested
  \/ /\ Polling("running") /\ Sound
     /\ confirmed \ {"fallback"} \subseteq confirmation
     /\ Live("fallback") => "fallback" \in confirmed

\* A launch of fallback goes on though another mode is desired by now.
Overtaken == Waiting("fallback") \/ Polling("fallback")

-----------------------------------------------------------------------------
(* The phases.                                                             *)

InFlash == /\ masterState = "flash" /\ Quiet("none")
           /\ Bare(evtQ) /\ evtQ # <<>> /\ Head(evtQ) = "flashOk"

AtRest == masterState \in {"apSet", "updat"} /\ Quiet("none") /\ Bare(evtQ)

Registering == /\ masterState = "regis" /\ Quiet("none")
               /\ Bare(evtQ) \/ One(evtQ, "crtld") \/ One(evtQ, "idtrg")

EngagingStage ==
  \/ (Bare(evtQ) \/ One(evtQ, "fbset")) /\ LaunchingRunning
  \/ Bare(evtQ) /\ Overtaken /\ ~Live("execute") /\ "execute" \notin confirmed
  \/ (One(evtQ, "engaged") \/ Two(evtQ, "fbset", "engaged")) /\ Quiet("running")

Engaging == /\ masterState \in {"engag", "diseng"} /\ ctl.desired = "running"
            /\ FallbackOut /\ "execute" \notin ctl.run /\ Sound
            /\ EngagingStage

Running == masterState = "runn" /\ FallbackOut /\ Quiet("running") /\ Bare(evtQ)

\* Answers to what was asked before fallback was.
Late == {"crtld", "idtrg", "diseng"}

FallingBackStage ==
  \/ Bare(evtQ) /\ LaunchingFallback
  \/ /\ \E e \in Late : One(evtQ, e)
     /\ ExecuteOut /\ "execute" \notin confirmed /\ LaunchingFallback
     /\ launcher.at = "idle" => confirmed = {}
  \/ /\ One(evtQ, "fbset") \/ \E e \in Late : Two(evtQ, e, "fbset")
     /\ Quiet("fallback")
  \/ /\ Bare(evtQ) /\ Polling("none")
     /\ Sound /\ ExecuteOut /\ ctl.run = {}
     /\ ~Live("deploy") /\ "deploy" \notin confirmed

FallingBack == /\ masterState \in {"regis", "enfba"} /\ ctl.desired = "fallback"
               /\ FallbackOut /\ "execute" \notin ctl.run
               /\ FallingBackStage

FallbackStage ==
  \/ Bare(evtQ) /\ LaunchingFallback
  \/ One(evtQ, "fbset") /\ Quiet("fallback")

Fallback == masterState = "fbset" /\ ctl.desired = "fallback" /\ ExecuteOut /\ FallbackStage

IdlingStage ==
  \/ Bare(evtQ) /\ launcher.at = "idle" /\ ~ctl.launcher
  \/ Bare(evtQ) /\ Resting /\ FallbackOut /\ IdleOnly
  \/ /\ Bare(evtQ) \/ One(evtQ, "fbset")
     /\ Polling("idle") /\ "deploy" \in confirmed \cap confirmation
  \/ /\ Bare(evtQ) /\ Sound /\ NoneEngaging /\ FallbackOut /\ IdleOnly
     /\ confirmed \subseteq confirmation
     /\ \/ Polling("idle")
        \/ launcher = [at |-> "waitIdle", mode |-> "idle"] /\ confirmed = ModeTasks.idle
  \/ Bare(evtQ) /\ Overtaken
  \/ One(evtQ, "fbset") /\ launcher.at = "idle" /\ confirmed = ModeTasks.idle
  \/ One(evtQ, "fbset") /\ Resting /\ confirmed = ModeTasks.fallback
  \/ One(evtQ, "idset") /\ Quiet("idle") /\ FallbackOut

Idling == masterState = "enidl" /\ ctl.desired = "idle" /\ ExecuteOut /\ IdlingStage

Idle == /\ masterState = "idset" /\ Quiet("idle") /\ Bare(evtQ)
        /\ FallbackOut /\ "execute" \notin ctl.run

\* From idle the hub leaves without an answer to an earlier launch in the queue.
LeavingStage ==
  \/ /\ Bare(evtQ) \/ (One(evtQ, "fbset") /\ masterState # "idset")
     /\ \/ Resting
        \/ launcher.at = "idle" /\ confirmed = {} /\ masterState # "idset"
        \/ Polling("none") /\ confirmation \subseteq confirmed /\ NoneEngaging
  \/ Bare(evtQ) /\ Overtaken /\ masterState # "idset"
  \/ /\ One(evtQ, "diseng") \/ (Two(evtQ, "fbset", "diseng") /\ masterState # "idset")
     /\ Quiet("none")

Leaving == /\ masterState \in {"diseng", "engup", "engap", "fbset", "idset"}
           /\ ctl.desired = "none" /\ ctl.run = {} /\ Sound
           /\ masterState = "idset" => IdleOnly
           /\ LeavingStage

Phase == \/ InFlash \/ AtRest \/ Registering \/ Engaging \/ Running
         \/ FallingBack \/ Fallback \/ Idling \/ Idle \/ Leaving
         \/ masterState = "error"

-----------------------------------------------------------------------------
(* What holds in every phase.                                              *)

\* Every flag that is raised for a task is one of the launch under way.
FlagsOfLaunch ==
  /\ launcher.at \in {"poll", "waitIdle"} =>
       /\ engageFlag \subseteq EngageRequest[launcher.mode]
       /\ disengageFlag \subseteq DisengageRequest[launcher.mode]
  /\ launcher.at \in {"idle", "wait"} => engageFlag = {} /\ disengageFlag = {}

SlowTasks == \A t \in Tasks : at[t] = "engage" => t \in {"deploy", "execute"}

\* Registration has the word in regis only, while no mode is desired.
RegistersInRegis == ctl.registration => \/ masterState = "error"
                                        \/ masterState = "regis" /\ ctl.desired = "none"

\* It looks at flash only while it has the word, with none of its events before it.
OneRegistration ==
  /\ regAt = "checking" => ctl.registration /\ regAhead = 0
  /\ \A i \in DOMAIN evtQ : evtQ[i] \in {"crtld", "idtrg"} => i <= regAhead

\* The run flags and the run sections of execution and fallback exclude each other.
Apart == /\ ~("execute" \in ctl.run /\ "fallback" \in ctl.run)
         /\ "fallback" \in ctl.run => at["execute"] # "run"
         /\ "execute" \in ctl.run => at["fallback"] # "run"
         /\ OneDriver

\* Once it is asked for, an update waits in a hub that has come to rest.
Updating == ctl.update => masterState \in {"updat", "error"} /\ Quiet("none")

Rules == RegistersInRegis /\ Apart /\ Updating

PhaseInv == FlagsOfLaunch /\ SlowTasks /\ OneRegistration /\ Rules /\ Phase

-----------------------------------------------------------------------------
(* The queue.                                                              *)

\* An order behind the answers changes none of them.
LEMMA OrderQueued ==
  ASSUME NEW q \in Seq(MEvents), NEW o \in Orders
  PROVE  /\ Bare(q) => Bare(Append(q, o))
         /\ \A e : One(q, e) => One(Append(q, o), e)
         /\ \A e, f : Two(q, e, f) => Two(Append(q, o), e, f)
<1> DEFINE r == Append(q, o)
<1>1. /\ Len(q) \in Nat /\ DOMAIN q = 1..Len(q) /\ DOMAIN r = 1..(Len(q) + 1)
      /\ r[Len(q) + 1] = o /\ \A i \in 1..Len(q) : r[i] = q[i]
  OBVIOUS
<1>2. Bare(q) => Bare(r)
  BY <1>1 DEF Bare
<1>3. ASSUME NEW e, One(q, e) PROVE One(r, e)
  BY <1>1, <1>3 DEF One
<1>4. ASSUME NEW e, NEW f, Two(q, e, f) PROVE Two(r, e, f)
  BY <1>1, <1>4 DEF Two
<1>5. QED BY <1>2, <1>3, <1>4

\* An answer stands behind the answers that are there.
LEMMA AnswerQueued ==
  ASSUME NEW q \in Seq(MEvents), NEW a
  PROVE  /\ Bare(q) => One(Append(q, a), a)
         /\ \A e : One(q, e) => Two(Append(q, a), e, a)
<1> DEFINE r == Append(q, a)
<1>1. /\ Len(q) \in Nat /\ DOMAIN q = 1..Len(q) /\ DOMAIN r = 1..(Len(q) + 1)
      /\ r[Len(q) + 1] = a /\ \A i \in 1..Len(q) : r[i] = q[i]
  OBVIOUS
<1>2. Bare(q) => One(r, a)
  BY <1>1 DEF Bare, One
<1>3. ASSUME NEW e, One(q, e) PROVE Two(r, e, a)
  BY <1>1, <1>3 DEF One, Two
<1>4. QED BY <1>2, <1>3

\* What may be the oldest event, and what is left behind it.
LEMMA OldestTaken ==
  ASSUME NEW q \in Seq(MEvents), q # <<>>
  PROVE  /\ Bare(q) => Head(q) \in Orders /\ Bare(Tail(q))
         /\ \A e : One(q, e) /\ e \notin Orders =>
              \/ Head(q) \in Orders /\ One(Tail(q), e)
              \/ Head(q) = e /\ Bare(Tail(q))
         /\ \A e, f : Two(q, e, f) /\ {e, f} \cap Orders = {} =>
              \/ Head(q) \in Orders /\ Two(Tail(q), e, f)
              \/ Head(q) = e /\ One(Tail(q), f)
<1> DEFINE r == Tail(q)
           h == Head(q)
<1>1. /\ Len(q) \in Nat /\ Len(q) > 0 /\ DOMAIN q = 1..Len(q) /\ DOMAIN r = 1..(Len(q) - 1)
      /\ h = q[1] /\ \A i \in 1..(Len(q) - 1) : r[i] = q[i + 1]
  OBVIOUS
<1> HIDE DEF r, h
<1>2. Bare(q) => h \in Orders /\ Bare(r)
  BY <1>1 DEF Bare
<1>3. ASSUME NEW e, One(q, e), e \notin Orders
      PROVE  (h \in Orders /\ One(r, e)) \/ (h = e /\ Bare(r))
  <2>1. PICK i \in DOMAIN q : q[i] = e /\ \A j \in DOMAIN q \ {i} : q[j] \in Orders
    BY <1>3 DEF One
  <2>2. CASE i = 1
    BY <1>1, <2>1, <2>2 DEF Bare
  <2>3. CASE i # 1
    <3>1. i - 1 \in DOMAIN r /\ r[i - 1] = e /\ h \in Orders
      BY <1>1, <2>1, <2>3
    <3>2. \A j \in DOMAIN r \ {i - 1} : r[j] \in Orders
      BY <1>1, <2>1, <2>3
    <3>3. QED BY <3>1, <3>2 DEF One
  <2>4. QED BY <2>2, <2>3
<1>4. ASSUME NEW e, NEW f, Two(q, e, f), {e, f} \cap Orders = {}
      PROVE  (h \in Orders /\ Two(r, e, f)) \/ (h = e /\ One(r, f))
  <2>1. PICK i \in DOMAIN q, j \in DOMAIN q :
          i < j /\ q[i] = e /\ q[j] = f /\ \A k \in DOMAIN q \ {i, j} : q[k] \in Orders
    BY <1>4 DEF Two
  <2>2. j - 1 \in DOMAIN r /\ r[j - 1] = f
    BY <1>1, <2>1
  <2>3. ASSUME NEW k \in DOMAIN r \ {i - 1, j - 1} PROVE r[k] \in Orders
    <3>1. k \in 1..(Len(q) - 1) /\ k # i - 1 /\ k # j - 1
      BY <1>1
    <3>2. i \in Int /\ j \in Int
      BY <1>1
    <3>3. k + 1 \in 1..Len(q)
      BY <1>1, <3>1
    <3>4. k + 1 # i /\ k + 1 # j
      BY <3>1, <3>2
    <3>5. QED BY <1>1, <2>1, <3>1, <3>3, <3>4
  <2>4. CASE i = 1
    BY <1>1, <2>1, <2>2, <2>3, <2>4 DEF One
  <2>5. CASE i # 1
    <3>1. i - 1 \in DOMAIN r /\ r[i - 1] = e /\ h \in Orders /\ i - 1 < j - 1
      BY <1>1, <2>1, <2>5
    <3>2. QED BY <2>2, <2>3, <3>1 DEF Two
  <2>6. QED BY <2>4, <2>5
<1>5. QED BY <1>2, <1>3, <1>4 DEF r, h

-----------------------------------------------------------------------------
(* The state machine.                                                      *)

Turn(s, e, next, effect) == nextState(s, e) = next /\ nextEffect(s, e) = effect

\* The cells of the tables that orders and answers reach in the phases.
LEMMA Cells ==
  /\ Turn("flash", "flashOk", "regis", "rgstr")
  /\ \A e \in {"apSet", "trgfb"} : Turn("apSet", e, "regis", "apdng")
  /\ Turn("apSet", "trgup", "apSet", "noop")
  /\ \A e \in {"apSet", "trgfb", "trgup"} : Turn("updat", e, "updat", "noop")
  /\ Turn("regis", "crtld", "engag", "engag")
  /\ Turn("regis", "idtrg", "enidl", "trgid")
  /\ Turn("regis", "trgfb", "enfba", "trgfb")
  /\ \A e \in {"apSet", "flashOk", "fbset"} : Turn("regis", e, "regis", "noop")
  /\ Turn("engag", "flashOk", "diseng", "noop")
  /\ \A e \in {"apSet", "trgfb", "trgup", "fbset"} : Turn("engag", e, "engag", "noop")
  /\ Turn("engag", "engaged", "runn", "trgRunning")
  /\ Turn("runn", "flashOk", "diseng", "disen")
  /\ Turn("runn", "trgup", "engup", "disen")
  /\ Turn("runn", "apSet", "engap", "disen")
  /\ Turn("runn", "trgfb", "enfba", "trgfb")
  /\ \A e \in {"trgfb", "trgup"} : Turn("enfba", e, "enfba", "noop")
  /\ \A e \in {"apSet", "diseng"} : Turn("enfba", e, "regis", "noop")
  /\ Turn("enfba", "crtld", "enfba", "erro")
  /\ Turn("enfba", "idtrg", "fbset", "noop")
  /\ Turn("enfba", "fbset", "fbset", "fbSet")
  /\ Turn("fbset", "flashOk", "diseng", "disen")
  /\ Turn("fbset", "trgfb", "diseng", "fbdis")
  /\ Turn("fbset", "trgup", "engup", "disen")
  /\ Turn("fbset", "apSet", "fbset", "disen")
  /\ Turn("fbset", "fbset", "fbset", "noop")
  /\ Turn("fbset", "diseng", "regis", "erro")
  /\ \A e \in {"apSet", "trgfb", "trgup"} : Turn("enidl", e, "enidl", "noop")
  /\ Turn("enidl", "fbset", "enidl", "fbSet")
  /\ Turn("enidl", "idset", "idset", "idset")
  /\ Turn("idset", "trgup", "engup", "disen")
  /\ Turn("idset", "apSet", "idset", "disen")
  /\ Turn("idset", "trgfb", "enfba", "trgfb")
  /\ Turn("idset", "diseng", "idset", "erro")
  /\ Turn("diseng", "diseng", "regis", "rgstr")
  /\ Turn("engup", "diseng", "updat", "updat")
  /\ Turn("engap", "diseng", "apSet", "apeng")
  /\ \A e \in {"apSet", "trgfb", "trgup", "fbset"} :
       /\ Turn("diseng", e, "diseng", "noop")
       /\ Turn("engup", e, "engup", "noop")
       /\ Turn("engap", e, "engap", "noop")
<1> USE DEF Turn, nextState, nextEffect, Column, Exits, Triggers
<1>1. Turn("flash", "flashOk", "regis", "rgstr")
  OBVIOUS
<1>2. /\ \A e \in {"apSet", "trgfb"} : Turn("apSet", e, "regis", "apdng")
      /\ Turn("apSet", "trgup", "apSet", "noop")
  OBVIOUS
<1>3. \A e \in {"apSet", "trgfb", "trgup"} : Turn("updat", e, "updat", "noop")
  OBVIOUS
<1>4. /\ Turn("regis", "crtld", "engag", "engag")
      /\ Turn("regis", "idtrg", "enidl", "trgid")
      /\ Turn("regis", "trgfb", "enfba", "trgfb")
      /\ \A e \in {"apSet", "flashOk", "fbset"} : Turn("regis", e, "regis", "noop")
  OBVIOUS

<1>5. /\ Turn("engag", "flashOk", "diseng", "noop")
      /\ \A e \in {"apSet", "trgfb", "trgup", "fbset"} : Turn("engag", e, "engag", "noop")
      /\ Turn("engag", "engaged", "runn", "trgRunning")
  OBVIOUS
<1>6. /\ Turn("runn", "flashOk", "diseng", "disen")
      /\ Turn("runn", "trgup", "engup", "disen")
      /\ Turn("runn", "apSet", "engap", "disen")
      /\ Turn("runn", "trgfb", "enfba", "trgfb")
  OBVIOUS
<1>7. /\ \A e \in {"trgfb", "trgup"} : Turn("enfba", e, "enfba", "noop")
      /\ \A e \in {"apSet", "diseng"} : Turn("enfba", e, "regis", "noop")
      /\ Turn("enfba", "crtld", "enfba", "erro")
      /\ Turn("enfba", "idtrg", "fbset", "noop")
      /\ Turn("enfba", "fbset", "fbset", "fbSet")
  OBVIOUS
<1>8. /\ Turn("fbset", "flashOk", "diseng", "disen")
      /\ Turn("fbset", "trgfb", "diseng", "fbdis")
      /\ Turn("fbset", "trgup", "engup", "disen")
      /\ Turn("fbset", "apSet", "fbset", "disen")
      /\ Turn("fbset", "fbset", "fbset", "noop")
      /\ Turn("fbset", "diseng", "regis", "erro")
  OBVIOUS
<1>9. /\ \A e \in {"apSet", "trgfb", "trgup"} : Turn("enidl", e, "enidl", "noop")
      /\ Turn("enidl", "fbset", "enidl", "fbSet")
      /\ Turn("enidl", "idset", "idset", "idset")
  OBVIOUS
<1>10. /\ Turn("idset", "trgup", "engup", "disen")
       /\ Turn("idset", "apSet", "idset", "disen")
       /\ Turn("idset", "trgfb", "enfba", "trgfb")
       /\ Turn("idset", "diseng", "idset", "erro")
  OBVIOUS
<1>11. /\ Turn("diseng", "diseng", "regis", "rgstr")
       /\ Turn("engup", "diseng", "updat", "updat")
       /\ Turn("engap", "diseng", "apSet", "apeng")
  OBVIOUS
<1>12. \A e \in {"apSet", "trgfb", "trgup", "fbset"} : Turn("diseng", e, "diseng", "noop")
  OBVIOUS
<1>13. \A e \in {"apSet", "trgfb", "trgup", "fbset"} : Turn("engup", e, "engup", "noop")
  OBVIOUS
<1>14. \A e \in {"apSet", "trgfb", "trgup", "fbset"} : Turn("engap", e, "engap", "noop")
  OBVIOUS
<1> HIDE DEF Turn
<1>15. QED BY <1>1, <1>2, <1>3, <1>4, <1>5, <1>6, <1>7, <1>8, <1>9, <1>10, <1>11,
              <1>12, <1>13, <1>14

\* The same for the orders and answers that lead to the error state, and for the
\* events in that state.
Fails(s, e) == nextState(s, e) = "error" /\ nextEffect(s, e) \in {"noop", "erro"}

\* The orders and answers that lead to the error state.
LEMMA ErrorCells ==
  /\ \A s \in {"apSet", "updat", "diseng", "engup", "engap", "enfba", "enidl", "idset"} :
       Fails(s, "flashOk")
  /\ Fails("regis", "trgup") /\ Fails("regis", "diseng") /\ Fails("diseng", "engaged")
  /\ \A e : Fails("error", e)
<1> USE DEF Fails, nextState, nextEffect, Column
<1>1. Fails("apSet", "flashOk") /\ Fails("updat", "flashOk") /\ Fails("diseng", "flashOk")
  BY DEF Exits, Triggers
<1>2. Fails("engup", "flashOk") /\ Fails("engap", "flashOk") /\ Fails("enfba", "flashOk")
  BY DEF Exits, Triggers
<1>3. Fails("enidl", "flashOk") /\ Fails("idset", "flashOk")
  BY DEF Exits, Triggers
<1>4. Fails("regis", "trgup") /\ Fails("regis", "diseng") /\ Fails("diseng", "engaged")
  BY DEF Exits, Triggers
<1>5. ASSUME NEW e PROVE Fails("error", e)
  <2>1. Exits["error"] = [error |-> {}]
    BY DEF Exits
  <2>2. DOMAIN Triggers["error"] = {"erro"}
    BY DEF Triggers
  <2>3. QED BY <2>1, <2>2
<1>6. QED BY <1>1, <1>2, <1>3, <1>4, <1>5

\* What an effect does to the flags.
LEMMA EffectRuns ==
  ASSUME NEW f \in CtlType
  PROVE  /\ \A n \in {"noop", "erro"} : Effect(n, f) = f
         /\ \A n \in {"rgstr", "apdng", "engag", "trgfb", "trgid", "apeng", "updat"} :
              Effect(n, f).run \subseteq f.run
         /\ \A n \in {"rgstr", "apdng", "apeng", "updat", "trgRunning", "fbSet", "idset"} :
              Effect(n, f).desired = f.desired
         /\ \A n \in {"disen", "fbdis"} :
              Effect(n, f).run = {} /\ Effect(n, f).desired = "none"
         /\ Effect("engag", f).desired = "running"
         /\ Effect("trgfb", f).desired = "fallback" /\ "execute" \notin Effect("trgfb", f).run
         /\ Effect("trgid", f).desired = "idle" /\ "execute" \notin Effect("trgid", f).run
         /\ Effect("trgRunning", f).run = f.run \cup ModeTasks.running
         /\ Effect("fbSet", f).run = f.run \cup ModeTasks.fallback
         /\ ~Effect("fbSet", f).launcher
         /\ Effect("idset", f).run = f.run \cup ModeTasks.idle
<1> USE DEF Effect, CtlType, rgstr_Meffect, engag_Meffect, disen_Meffect, trgRunning,
            updat_Meffect, apeng_Meffect, apdng_Meffect, fbdis_Meffect, trgfb_Meffect,
            fbSet_Meffect, trgid_Meffect, idset_Meffect
<1>1. \A n \in {"noop", "erro"} : Effect(n, f) = f
  OBVIOUS
<1>2. /\ \A n \in {"rgstr", "apdng", "engag", "trgfb", "trgid", "apeng", "updat"} :
           Effect(n, f).run \subseteq f.run
      /\ \A n \in {"rgstr", "apdng", "apeng", "updat", "trgRunning", "fbSet", "idset"} :
           Effect(n, f).desired = f.desired
  OBVIOUS
<1>3. \A n \in {"disen", "fbdis"} : Effect(n, f).run = {} /\ Effect(n, f).desired = "none"
  OBVIOUS
<1>4. /\ Effect("engag", f).desired = "running"
      /\ Effect("trgfb", f).desired = "fallback" /\ "execute" \notin Effect("trgfb", f).run
      /\ Effect("trgid", f).desired = "idle" /\ "execute" \notin Effect("trgid", f).run
  OBVIOUS
<1>5. /\ Effect("trgRunning", f).run = f.run \cup ModeTasks.running
      /\ Effect("fbSet", f).run = f.run \cup ModeTasks.fallback
      /\ ~Effect("fbSet", f).launcher
      /\ Effect("idset", f).run = f.run \cup ModeTasks.idle
  OBVIOUS
<1>6. QED BY <1>1, <1>2, <1>3, <1>4, <1>5

\* What an effect does to the flags of registration and update.
LEMMA EffectWords ==
  ASSUME NEW f \in CtlType, NEW n \in Effects
  PROVE  /\ n \notin {"rgstr", "apdng", "iddis"} /\ Effect(n, f).registration => f.registration
         /\ n \in {"engag", "trgfb", "trgid"} => ~Effect(n, f).registration
         /\ n # "updat" => Effect(n, f).update = f.update
<1> USE DEF Effect, CtlType, rgstr_Meffect, engag_Meffect, disen_Meffect, trgRunning,
            updat_Meffect, apeng_Meffect, apdng_Meffect, fbdis_Meffect, trgfb_Meffect,
            fbSet_Meffect, trgid_Meffect, idset_Meffect, iddis_Meffect
<1>1. CASE n \in {"noop", "erro", "rgstr", "apdng", "iddis"} BY <1>1
<1>2. CASE n \in {"engag", "trgfb", "trgid"} BY <1>2
<1>3. CASE n \in {"disen", "fbdis", "trgRunning"} BY <1>3
<1>4. CASE n \in {"updat", "apeng", "fbSet", "idset"} BY <1>4
<1>5. QED BY <1>1, <1>2, <1>3, <1>4 DEF Effects

\* A turn of the state machine.
LEMMA ATurn ==
  ASSUME TypeOK, runMasterFSM, NEW next, NEW effect,
         Turn(masterState, Head(evtQ), next, effect)
  PROVE  masterState' = next /\ ctl' = Effect(effect, ctl)
BY DEF runMasterFSM, Turn

\* It leaves the launcher and the tasks where they are.
LEMMA TurnKeeps ==
  ASSUME runMasterFSM
  PROVE  /\ UNCHANGED <<engageFlag, disengageFlag, confirmation, confirmed, launcher, at, regAt>>
         /\ evtQ # <<>> /\ evtQ' = Tail(evtQ)
         /\ \A t : Live(t)' = Live(t)
         /\ NoneEngaging' = NoneEngaging
BY DEF runMasterFSM, lnch, Live, NoneEngaging

\* Rest and launches last when run flags are lowered, or raised for tasks that
\* have confirmed.
LEMMA StillSound ==
  ASSUME runMasterFSM,
         ctl'.run \subseteq ctl.run \cup confirmation
  PROVE  /\ Sound => Sound'
         /\ Rested => Rested'
         /\ Resting => Resting'
         /\ LaunchingFallback => LaunchingFallback'
         /\ LaunchingRunning => LaunchingRunning'
<1>1. Sound => Sound'
  BY TurnKeeps DEF Sound
<1>2. Rested => Rested'
  BY <1>1, TurnKeeps DEF Rested
<1>3. Resting => Resting'
  BY <1>2, TurnKeeps DEF Resting
<1>4. LaunchingFallback => LaunchingFallback'
  BY <1>1, <1>2, <1>3, TurnKeeps DEF LaunchingFallback, Waiting, Polling
<1>5. LaunchingRunning => LaunchingRunning'
  BY <1>1, <1>2, <1>3, TurnKeeps DEF LaunchingRunning, Waiting, Polling
<1>6. QED BY <1>1, <1>2, <1>3, <1>4, <1>5

\* The queue loses its oldest event.
LEMMA TurnQueue ==
  ASSUME TypeOK, runMasterFSM
  PROVE  /\ Bare(evtQ) => Head(evtQ) \in Orders /\ Bare(evtQ')
         /\ \A e : One(evtQ, e) /\ e \notin Orders =>
              \/ Head(evtQ) \in Orders /\ One(evtQ', e)
              \/ Head(evtQ) = e /\ Bare(evtQ')
         /\ \A e, f : Two(evtQ, e, f) /\ {e, f} \cap Orders = {} =>
              \/ Head(evtQ) \in Orders /\ Two(evtQ', e, f)
              \/ Head(evtQ) = e /\ One(evtQ', f)
<1>1. evtQ # <<>> /\ evtQ' = Tail(evtQ) /\ evtQ \in Seq(MEvents)
  BY TurnKeeps DEF TypeOK
<1>2. QED BY <1>1, OldestTaken

-----------------------------------------------------------------------------
(* The phases under a turn of the state machine.                           *)

\* The tasks of each mode, as far as the phases tell them apart.
LEMMA ModeFacts ==
  /\ ModeTasks["none"] = {}
  /\ {"deploy", "execute", "fallback"} \cap ModeTasks["idle"] = {}
  /\ {"deploy", "execute", "fallback"} \cap ModeTasks["running"] = {"deploy", "execute"}
  /\ {"deploy", "execute", "fallback"} \cap ModeTasks["fallback"] = {"deploy", "fallback"}
  /\ \A S \in SUBSET Tasks :
       {"deploy", "execute", "fallback"} \cap S = {} => S \subseteq ModeTasks["idle"]
  /\ {"deploy", "execute", "fallback"} \subseteq Tasks
BY HubAssumption DEF ModeTasks, AllTasks

\* All tasks but fallback run in running, all but execution in fallback.
LEMMA AllButOne ==
  /\ Tasks \ {"fallback"} = ModeTasks["running"]
  /\ Tasks \ {"execute"} = ModeTasks["fallback"]
BY HubAssumption DEF ModeTasks, AllTasks

\* Rest that the launcher has nothing to add to stays so when desired does.
LEMMA StillQuiet ==
  ASSUME runMasterFSM, NEW mode, Quiet(mode),
         ctl'.run \subseteq ctl.run \cup confirmation, ctl'.desired = ctl.desired
  PROVE  Quiet(mode)'
BY StillSound, TurnKeeps DEF Quiet

\* What holds in every phase, when no run flag is raised.
LEMMA StillApart ==
  ASSUME runMasterFSM, Apart, ctl'.run \subseteq ctl.run
  PROVE  Apart'
BY TurnKeeps DEF Apart, OneDriver

\* The turns that give nobody the word and raise no run flag keep the rules.
LEMMA Ordinary ==
  ASSUME TypeOK, runMasterFSM, Rules, masterState \notin {"updat", "error"}, NEW next,
         NEW effect \in {"noop", "erro", "engag", "disen", "fbdis", "trgfb", "trgid", "apeng"},
         Turn(masterState, Head(evtQ), next, effect),
         \/ masterState # "regis" \/ ctl.desired # "none"
         \/ effect \in {"engag", "trgfb", "trgid"}
         \/ next = "regis" /\ effect = "noop"
  PROVE  Rules'
<1>1. /\ masterState' = next /\ ctl' = Effect(effect, ctl) /\ ctl \in CtlType
      /\ effect \in Effects
  BY ATurn DEF TypeOK, Effects
<1>2. ctl'.run \subseteq ctl.run
  BY <1>1, EffectRuns
<1>3. ctl'.update = ctl.update /\ ~ctl.update
  BY <1>1, EffectWords DEF Rules, Updating
<1>4. RegistersInRegis'
  <2>1. CASE next = "regis" /\ effect = "noop" /\ masterState = "regis"
    BY <1>1, <2>1, EffectRuns DEF Rules, RegistersInRegis
  <2>2. CASE effect \in {"engag", "trgfb", "trgid"}
    BY <1>1, <2>2, EffectWords DEF Rules, RegistersInRegis
  <2>3. CASE masterState # "regis" \/ ctl.desired # "none"
    BY <1>1, <2>3, EffectWords DEF Rules, RegistersInRegis
  <2>4. QED BY <2>1, <2>2, <2>3
<1>5. QED BY <1>2, <1>3, <1>4, StillApart DEF Rules, Updating

\* A turn into the error state changes no flag.
LEMMA Failure ==
  ASSUME TypeOK, runMasterFSM, Rules, Fails(masterState, Head(evtQ))
  PROVE  Rules' /\ Phase'
<1>1. masterState' = "error" /\ ctl' = ctl
  BY EffectRuns DEF runMasterFSM, Fails, TypeOK
<1>2. Quiet("none") => Quiet("none")'
  BY <1>1, StillQuiet
<1>3. QED
  BY <1>1, <1>2, StillApart DEF Rules, RegistersInRegis, Updating, Phase

\* The first event gives registration the word.
LEMMA TurnInFlash ==
  ASSUME TypeOK, Rules, runMasterFSM, InFlash
  PROVE  Rules' /\ Phase'
<1>1. /\ masterState' = "regis" /\ ctl' = Effect("rgstr", ctl) /\ ctl \in CtlType
      /\ "rgstr" \in Effects
  BY ATurn, Cells DEF InFlash, TypeOK, Effects
<1>2. ctl'.run \subseteq ctl.run /\ ctl'.desired = "none" /\ ~ctl'.update
  BY <1>1, EffectRuns, EffectWords DEF InFlash, Quiet, Rules, Updating
<1>3. Quiet("none")' /\ Bare(evtQ')
  BY <1>2, StillQuiet, TurnQueue DEF InFlash, Quiet
<1>4. QED
  BY <1>1, <1>2, <1>3, StillApart DEF Rules, RegistersInRegis, Updating, Phase, Registering

\* A hub at rest stays there, or registration gets the word.
LEMMA TurnAtRest ==
  ASSUME TypeOK, Rules, runMasterFSM, AtRest
  PROVE  Rules' /\ Phase'
<1> DEFINE e == Head(evtQ)
<1>1. e \in Orders /\ Bare(evtQ') /\ ctl \in CtlType
  BY TurnQueue DEF AtRest, TypeOK
<1>2. CASE e = "flashOk"
  BY <1>2, ErrorCells, Failure DEF AtRest
<1>3. CASE masterState = "updat" /\ e \in {"apSet", "trgfb", "trgup"}
  <2>1. masterState' = "updat" /\ ctl' = ctl
    BY <1>1, <1>3, ATurn, Cells, EffectRuns
  <2>2. Quiet("none")'
    BY <2>1, StillQuiet DEF AtRest
  <2>3. QED
    BY <1>1, <1>3, <2>1, <2>2, StillApart
       DEF Rules, RegistersInRegis, Updating, Phase, AtRest
<1>4. CASE masterState = "apSet" /\ e = "trgup"
  <2>1. Turn(masterState, e, "apSet", "noop")
    BY <1>4, Cells
  <2>2. masterState' = "apSet" /\ ctl' = ctl
    BY <1>1, <2>1, ATurn, EffectRuns
  <2>3. Quiet("none")' /\ Rules'
    BY <1>4, <2>1, <2>2, StillQuiet, Ordinary DEF AtRest
  <2>4. QED BY <1>1, <2>2, <2>3 DEF Phase, AtRest
<1>5. CASE masterState = "apSet" /\ e \in {"apSet", "trgfb"}
  <2>1. masterState' = "regis" /\ ctl' = Effect("apdng", ctl) /\ "apdng" \in Effects
    BY <1>5, ATurn, Cells DEF Effects
  <2>2. ctl'.run \subseteq ctl.run /\ ctl'.desired = "none" /\ ~ctl'.update
    BY <1>1, <1>5, <2>1, EffectRuns, EffectWords DEF AtRest, Quiet, Rules, Updating
  <2>3. Quiet("none")'
    BY <2>2, StillQuiet DEF AtRest, Quiet
  <2>4. QED
    BY <1>1, <2>1, <2>2, <2>3, StillApart
       DEF Rules, RegistersInRegis, Updating, Phase, Registering
<1>6. QED BY <1>1, <1>2, <1>3, <1>4, <1>5 DEF AtRest, Orders

\* Nothing is live where nothing is confirmed.
LEMMA CalmIsOut ==
  ASSUME TypeOK, Rested, confirmed = {}
  PROVE  /\ ctl.run = {} /\ IdleOnly /\ ExecuteOut /\ FallbackOut
         /\ \A t \in Tasks : ~Live(t)
<1>1. confirmation = {} /\ ctl.run = {}
  BY DEF Rested, Sound
<1>2. ASSUME NEW t \in Tasks PROVE ~Live(t)
  BY <1>1 DEF Rested, Sound, NoneEngaging, Live
<1>3. QED
  BY <1>1, <1>2, ModeFacts DEF IdleOnly, ExecuteOut, FallbackOut, Live

\* registration_task has the word: its events choose the mode, or an order does.
LEMMA TurnRegistering ==
  ASSUME TypeOK, Rules, runMasterFSM, Registering
  PROVE  Rules' /\ Phase'
<1> DEFINE e == Head(evtQ)
<1>1. /\ masterState = "regis" /\ ctl \in CtlType /\ confirmed = {} /\ Resting
      /\ ctl.desired = "none" /\ Rested /\ launcher.at = "idle"
  BY ModeFacts DEF TypeOK, Registering, Quiet, Resting
<1>2. ctl.run = {} /\ IdleOnly /\ ExecuteOut /\ FallbackOut
  BY <1>1, CalmIsOut
<1>3. \/ e \in Orders /\ (Bare(evtQ') \/ One(evtQ', "crtld") \/ One(evtQ', "idtrg"))
      \/ e \in {"crtld", "idtrg"} /\ Bare(evtQ')
  BY TurnQueue DEF Registering, Orders
<1>4. CASE e \in {"apSet", "flashOk"}
  <2>1. Turn(masterState, e, "regis", "noop")
    BY <1>1, <1>4, Cells
  <2>2. masterState' = "regis" /\ ctl' = ctl
    BY <1>1, <2>1, ATurn, EffectRuns
  <2>3. Quiet("none")' /\ Rules'
    BY <1>1, <2>1, <2>2, StillQuiet, Ordinary DEF Registering
  <2>4. QED BY <1>3, <1>4, <2>2, <2>3 DEF Phase, Registering, Orders
<1>5. CASE e = "trgup"
  BY <1>1, <1>5, ErrorCells, Failure
<1>6. CASE e = "trgfb"
  <2>1. Turn(masterState, e, "enfba", "trgfb")
    BY <1>1, <1>6, Cells
  <2>2. /\ masterState' = "enfba" /\ ctl'.desired = "fallback"
        /\ ctl'.run \subseteq ctl.run /\ "execute" \notin ctl'.run
    BY <1>1, <2>1, ATurn, EffectRuns
  <2>3. Resting' /\ Rules' /\ launcher' = launcher /\ confirmed' = {}
    BY <1>1, <2>1, <2>2, StillSound, Ordinary, TurnKeeps
  <2>4. ExecuteOut' /\ FallbackOut'
    BY <1>2, <2>2, TurnKeeps DEF ExecuteOut, FallbackOut
  <2>5. FallingBackStage'
    BY <1>3, <1>6, <2>3, <2>4 DEF FallingBackStage, LaunchingFallback, Late, Orders
  <2>6. QED BY <2>2, <2>3, <2>4, <2>5 DEF Phase, FallingBack
<1>7. CASE e = "crtld"
  <2>1. Turn(masterState, e, "engag", "engag")
    BY <1>1, <1>7, Cells
  <2>2. /\ masterState' = "engag" /\ ctl'.desired = "running" /\ ctl'.run \subseteq ctl.run
    BY <1>1, <2>1, ATurn, EffectRuns
  <2>3. Resting' /\ Rules'
    BY <1>1, <2>1, <2>2, StillSound, Ordinary
  <2>4. FallbackOut' /\ "execute" \notin ctl'.run
    BY <1>2, <2>2, TurnKeeps DEF FallbackOut
  <2>5. EngagingStage'
    BY <1>3, <1>7, <2>3 DEF EngagingStage, LaunchingRunning, Orders
  <2>6. QED BY <2>2, <2>3, <2>4, <2>5 DEF Phase, Engaging, Resting, Rested
<1>8. CASE e = "idtrg"
  <2>1. Turn(masterState, e, "enidl", "trgid")
    BY <1>1, <1>8, Cells
  <2>2. /\ masterState' = "enidl" /\ ctl'.desired = "idle" /\ ctl'.run \subseteq ctl.run
    BY <1>1, <2>1, ATurn, EffectRuns
  <2>3. Resting' /\ Rules'
    BY <1>1, <2>1, <2>2, StillSound, Ordinary
  <2>4. FallbackOut' /\ ExecuteOut' /\ IdleOnly'
    BY <1>2, <2>2, TurnKeeps DEF FallbackOut, ExecuteOut, IdleOnly
  <2>5. IdlingStage'
    BY <1>3, <1>8, <2>3, <2>4 DEF IdlingStage, Orders
  <2>6. QED BY <2>2, <2>3, <2>4, <2>5 DEF Phase, Idling
<1>9. QED BY <1>3, <1>4, <1>5, <1>6, <1>7, <1>8 DEF Orders

\* What a launch of running comes to: crtld, overtaken by other answers or not.
LEMMA TurnEngaging ==
  ASSUME TypeOK, Rules, runMasterFSM, Engaging
  PROVE  Rules' /\ Phase'
<1> DEFINE e == Head(evtQ)
<1>1. /\ masterState \in {"engag", "diseng"} /\ ctl \in CtlType /\ ctl.desired = "running"
      /\ FallbackOut /\ "execute" \notin ctl.run /\ Sound
  BY DEF TypeOK, Engaging
<1>2. CASE e \in {"apSet", "trgfb", "trgup", "fbset"} \/ (e = "flashOk" /\ masterState = "engag")
  <2>1. PICK s \in {"engag", "diseng"} : Turn(masterState, e, s, "noop")
    BY <1>1, <1>2, Cells
  <2>2. masterState' = s /\ ctl' = ctl
    BY <1>1, <2>1, ATurn, EffectRuns
  <2>3. Rules' /\ FallbackOut' /\ Sound'
    BY <1>1, <2>1, <2>2, StillSound, Ordinary, TurnKeeps DEF FallbackOut
  <2>4. /\ LaunchingRunning => LaunchingRunning'
        /\ Quiet("running") => Quiet("running")'
    BY <2>2, StillSound, StillQuiet
  <2>5. EngagingStage'
    <3>1. CASE /\ Bare(evtQ) \/ One(evtQ, "fbset")
               /\ LaunchingRunning
      BY <2>4, <3>1, TurnQueue DEF EngagingStage, Orders
    <3>2. CASE Bare(evtQ) /\ Overtaken /\ ~Live("execute") /\ "execute" \notin confirmed
      BY <3>2, TurnQueue, TurnKeeps DEF EngagingStage, Overtaken, Waiting, Polling
    <3>3. CASE /\ One(evtQ, "engaged") \/ Two(evtQ, "fbset", "engaged")
               /\ Quiet("running")
      <4>1. One(evtQ', "engaged") \/ Two(evtQ', "fbset", "engaged")
        BY <1>2, <3>3, TurnQueue DEF Orders
      <4>2. QED BY <2>4, <3>3, <4>1 DEF EngagingStage
    <3>4. QED BY <3>1, <3>2, <3>3 DEF Engaging, EngagingStage
  <2>6. QED BY <1>1, <2>2, <2>3, <2>5 DEF Phase, Engaging
<1>3. CASE masterState = "diseng" /\ e \in {"flashOk", "engaged"}
  BY <1>3, ErrorCells, Failure
<1>4. CASE masterState = "engag" /\ e = "engaged"
  <2>1. Turn(masterState, e, "runn", "trgRunning") /\ "trgRunning" \in Effects
    BY <1>4, Cells DEF Effects
  <2>2. /\ masterState' = "runn" /\ ctl' = Effect("trgRunning", ctl)
        /\ ctl'.run = ctl.run \cup ModeTasks.running /\ ctl'.desired = ctl.desired
        /\ ~ctl'.update /\ ~ctl'.registration
    BY <1>1, <1>4, <2>1, ATurn, EffectRuns, EffectWords
       DEF Rules, Updating, RegistersInRegis
  <2>3. Quiet("running") /\ Bare(evtQ')
    BY <1>4, TurnQueue DEF Engaging, EngagingStage, Orders
  <2>4. ctl'.run \subseteq ctl.run \cup confirmation
    BY <2>2, <2>3 DEF Quiet, Resting, Rested
  <2>5. Quiet("running")' /\ FallbackOut'
    BY <1>1, <2>2, <2>3, <2>4, StillQuiet, ModeFacts, TurnKeeps DEF FallbackOut
  <2>6. Apart'
    BY <1>1, <2>5, TurnKeeps DEF Apart, OneDriver, FallbackOut
  <2>7. QED
    BY <2>2, <2>3, <2>5, <2>6 DEF Rules, RegistersInRegis, Updating, Phase, Running
<1>5. e \in Orders \cup {"fbset", "engaged"}
  BY TurnQueue DEF Engaging, EngagingStage, Orders
<1>6. QED BY <1>1, <1>2, <1>3, <1>4, <1>5 DEF Orders

\* A hub that has come to rest goes through disen_Meffect or fbdis_Meffect.
LEMMA Dismissed ==
  ASSUME TypeOK, Rules, runMasterFSM, Sound, masterState \in {"runn", "fbset", "idset"},
         NEW next \in {"diseng", "engup", "engap", "fbset", "idset"},
         NEW effect \in {"disen", "fbdis"}, Turn(masterState, Head(evtQ), next, effect)
  PROVE  /\ masterState' = next /\ ctl'.desired = "none" /\ ctl'.run = {}
         /\ Sound' /\ Rules'
         /\ Resting => Resting'
         /\ Quiet("none") => Quiet("none")'
<1>1. masterState' = next /\ ctl'.run = {} /\ ctl'.desired = "none"
  BY ATurn, EffectRuns DEF TypeOK
<1>2. Sound' /\ (Resting => Resting')
  BY <1>1, StillSound
<1>3. Rules'
  BY Ordinary
<1>4. Quiet("none") => Quiet("none")'
  BY <1>1, StillQuiet DEF Quiet
<1>5. QED BY <1>1, <1>2, <1>3, <1>4

\* Fallback is asked for: execution loses its run flag.
LEMMA FallbackAsked ==
  ASSUME TypeOK, Rules, runMasterFSM, FallbackOut,
         masterState \in {"runn", "idset", "regis", "enfba"},
         NEW effect \in {"trgfb"}, Turn(masterState, Head(evtQ), "enfba", effect)
  PROVE  /\ masterState' = "enfba" /\ ctl'.desired = "fallback" /\ ctl'.run \subseteq ctl.run
         /\ "execute" \notin ctl'.run /\ FallbackOut' /\ Rules'
         /\ LaunchingFallback => LaunchingFallback'
         /\ Resting => Resting'
         /\ Sound => Sound'
<1>1. /\ masterState' = "enfba" /\ ctl'.desired = "fallback" /\ ctl'.run \subseteq ctl.run
      /\ "execute" \notin ctl'.run
  BY ATurn, EffectRuns DEF TypeOK
<1>2. Rules'
  BY Ordinary
<1>3. QED
  BY <1>1, <1>2, StillSound, TurnKeeps DEF FallbackOut

\* From running the hub leaves, or falls back.
LEMMA TurnRunning ==
  ASSUME TypeOK, Rules, runMasterFSM, Running
  PROVE  Rules' /\ Phase'
<1> DEFINE e == Head(evtQ)
<1>1. /\ masterState = "runn" /\ Resting /\ Sound /\ FallbackOut
      /\ e \in Orders /\ Bare(evtQ')
  BY TurnQueue DEF Running, Quiet, Resting, Rested
<1>2. CASE e \in {"flashOk", "trgup", "apSet"}
  <2>1. PICK s \in {"diseng", "engup", "engap"} : Turn(masterState, e, s, "disen")
    BY <1>1, <1>2, Cells
  <2>2. /\ masterState' = s /\ ctl'.desired = "none" /\ ctl'.run = {}
        /\ Sound' /\ Rules' /\ Resting'
    BY <1>1, <2>1, Dismissed
  <2>3. QED BY <1>1, <2>2 DEF Phase, Leaving, LeavingStage
<1>3. CASE e = "trgfb"
  <2>1. Turn(masterState, e, "enfba", "trgfb")
    BY <1>1, <1>3, Cells
  <2>2. /\ masterState' = "enfba" /\ ctl'.desired = "fallback" /\ "execute" \notin ctl'.run
        /\ FallbackOut' /\ Rules' /\ Resting'
    BY <1>1, <2>1, FallbackAsked
  <2>3. QED
    BY <1>1, <2>2 DEF Phase, FallingBack, FallingBackStage, LaunchingFallback
<1>4. QED BY <1>1, <1>2, <1>3 DEF Orders

\* So it does from idle.
LEMMA TurnIdle ==
  ASSUME TypeOK, Rules, runMasterFSM, Idle
  PROVE  Rules' /\ Phase'
<1> DEFINE e == Head(evtQ)
<1>1. /\ masterState = "idset" /\ Resting /\ Sound /\ FallbackOut /\ confirmed = ModeTasks.idle
      /\ confirmed = confirmation /\ NoneEngaging
      /\ e \in Orders /\ Bare(evtQ')
  BY TurnQueue DEF Idle, Quiet, Resting, Rested
<1>2. CASE e = "flashOk"
  BY <1>1, <1>2, ErrorCells, Failure
<1>3. CASE e \in {"trgup", "apSet"}
  <2>1. PICK s \in {"engup", "idset"} : Turn(masterState, e, s, "disen")
    BY <1>1, <1>3, Cells
  <2>2. /\ masterState' = s /\ ctl'.desired = "none" /\ ctl'.run = {}
        /\ Sound' /\ Rules' /\ Resting'
    BY <1>1, <2>1, Dismissed
  <2>3. IdleOnly'
    <3>1. \A t \in {"deploy", "execute", "fallback"} : ~Live(t)
      BY <1>1, ModeFacts DEF Live, Sound, NoneEngaging
    <3>2. QED BY <1>1, <3>1, TurnKeeps DEF IdleOnly
  <2>4. QED BY <1>1, <2>2, <2>3 DEF Phase, Leaving, LeavingStage
<1>4. CASE e = "trgfb"
  <2>1. Turn(masterState, e, "enfba", "trgfb")
    BY <1>1, <1>4, Cells
  <2>2. /\ masterState' = "enfba" /\ ctl'.desired = "fallback" /\ "execute" \notin ctl'.run
        /\ FallbackOut' /\ Rules' /\ Resting'
    BY <1>1, <2>1, FallbackAsked
  <2>3. QED
    BY <1>1, <2>2 DEF Phase, FallingBack, FallingBackStage, LaunchingFallback
<1>5. QED BY <1>1, <1>2, <1>3, <1>4 DEF Orders

\* In enfba and in fbset, a launch of fallback that is not over is overtaken.
LEMMA OrRests ==
  ASSUME LaunchingFallback
  PROVE  Sound /\ (Resting \/ Overtaken)
BY DEF LaunchingFallback, Resting, Rested, Overtaken

\* A hub in fallback leaves it, whether its last launch is over or not.
LEMMA TurnFallback ==
  ASSUME TypeOK, Rules, runMasterFSM, Fallback
  PROVE  Rules' /\ Phase'
<1> DEFINE e == Head(evtQ)
<1>1. /\ masterState = "fbset" /\ ctl.desired = "fallback" /\ ExecuteOut /\ Sound
      /\ Quiet("fallback") => Resting
  BY OrRests DEF Fallback, FallbackStage, Quiet, Resting, Rested
<1>2. \/ e \in Orders /\ Bare(evtQ') /\ (Resting \/ Overtaken) /\ LaunchingFallback
      \/ e \in Orders /\ One(evtQ', "fbset") /\ Quiet("fallback")
      \/ e = "fbset" /\ Bare(evtQ') /\ Quiet("fallback")
  BY TurnQueue, OrRests DEF Fallback, FallbackStage, Orders
<1>3. CASE e \in {"flashOk", "trgfb", "trgup", "apSet"}
  <2>1. PICK s \in {"diseng", "engup", "fbset"}, n \in {"disen", "fbdis"} :
          Turn(masterState, e, s, n)
    BY <1>1, <1>3, Cells
  <2>2. /\ masterState' = s /\ ctl'.desired = "none" /\ ctl'.run = {}
        /\ Sound' /\ Rules' /\ (Resting => Resting')
    BY <1>1, <2>1, Dismissed
  <2>3. Overtaken => Overtaken'
    BY TurnKeeps DEF Overtaken, Waiting, Polling
  <2>4. LeavingStage'
    BY <1>1, <1>2, <1>3, <2>2, <2>3 DEF LeavingStage
  <2>5. QED BY <2>2, <2>4 DEF Phase, Leaving
<1>4. CASE e = "fbset"
  <2>1. Turn(masterState, e, "fbset", "noop")
    BY <1>1, <1>4, Cells
  <2>2. masterState' = "fbset" /\ ctl' = ctl
    BY <1>1, <2>1, ATurn, EffectRuns DEF TypeOK
  <2>3. Rules' /\ LaunchingFallback' /\ ExecuteOut'
    BY <1>1, <1>2, <1>4, <2>1, <2>2, StillSound, Ordinary, TurnKeeps
       DEF LaunchingFallback, ExecuteOut, Orders
  <2>4. QED
    BY <1>1, <1>2, <1>4, <2>2, <2>3 DEF Phase, Fallback, FallbackStage, Orders
<1>5. QED BY <1>2, <1>3, <1>4 DEF Orders

\* What is queued while fallback is on its way, and what is left of it.
LEMMA QueueFallingBack ==
  ASSUME TypeOK, runMasterFSM, FallingBack
  PROVE  \/ Head(evtQ) \in Orders
         \/ Head(evtQ) = "fbset" /\ Bare(evtQ') /\ Quiet("fallback")
         \/ /\ Head(evtQ) \in Late
            /\ \/ /\ Bare(evtQ') /\ ExecuteOut /\ "execute" \notin confirmed
                  /\ LaunchingFallback /\ (launcher.at = "idle" => confirmed = {})
               \/ One(evtQ', "fbset") /\ Quiet("fallback")
BY TurnQueue DEF FallingBack, FallingBackStage, Late, Orders

\* An order leaves fallback on its way.
LEMMA OrderFallingBack ==
  ASSUME TypeOK, runMasterFSM, FallingBack, Head(evtQ) \in Orders,
         masterState' \in {"regis", "enfba"}, ctl'.desired = "fallback",
         ctl'.run \subseteq ctl.run
  PROVE  FallingBackStage'
<1>1. UNCHANGED <<launcher, confirmed, confirmation, at>> /\ \A t : Live(t)' = Live(t)
  BY TurnKeeps
<1>2. /\ LaunchingFallback => LaunchingFallback'
      /\ Sound => Sound'
      /\ Quiet("fallback") => Quiet("fallback")'
  BY StillSound, StillQuiet DEF FallingBack
<1>3. ExecuteOut => ExecuteOut'
  BY <1>1 DEF ExecuteOut
<1>4. CASE Bare(evtQ) /\ LaunchingFallback
  BY <1>2, <1>4, TurnQueue DEF FallingBackStage
<1>5. ASSUME NEW e \in Late, One(evtQ, e), ExecuteOut, "execute" \notin confirmed,
             LaunchingFallback, launcher.at = "idle" => confirmed = {}
      PROVE  FallingBackStage'
  <2>1. One(evtQ', e)
    BY <1>5, TurnQueue DEF Late, Orders
  <2>2. QED BY <1>1, <1>2, <1>3, <1>5, <2>1 DEF FallingBackStage
<1>6. CASE One(evtQ, "fbset") /\ Quiet("fallback")
  BY <1>2, <1>6, TurnQueue DEF FallingBackStage, Orders
<1>7. ASSUME NEW e \in Late, Two(evtQ, e, "fbset"), Quiet("fallback")
      PROVE  FallingBackStage'
  <2>1. Two(evtQ', e, "fbset")
    BY <1>7, TurnQueue DEF Late, Orders
  <2>2. QED BY <1>2, <1>7, <2>1 DEF FallingBackStage
<1>8. CASE /\ Bare(evtQ) /\ Polling("none")
           /\ Sound /\ ExecuteOut /\ ctl.run = {}
           /\ ~Live("deploy") /\ "deploy" \notin confirmed
  <2>1. Bare(evtQ') /\ Polling("none")' /\ ctl'.run = {}
    BY <1>1, <1>8, TurnQueue DEF Polling
  <2>2. QED BY <1>1, <1>2, <1>3, <1>8, <2>1 DEF FallingBackStage
<1>9. QED BY <1>4, <1>5, <1>6, <1>7, <1>8 DEF FallingBack, FallingBackStage

\* Fallback on its way: the late answers of what it has overtaken, and its own.
LEMMA TurnFallingBack ==
  ASSUME TypeOK, Rules, runMasterFSM, FallingBack
  PROVE  Rules' /\ Phase'
<1> DEFINE e == Head(evtQ)
<1>1. /\ masterState \in {"regis", "enfba"} /\ ctl.desired = "fallback" /\ FallbackOut
      /\ "execute" \notin ctl.run /\ ctl \in CtlType
  BY DEF FallingBack, TypeOK
<1>2. Quiet("fallback") =>
        /\ ExecuteOut /\ Resting /\ Sound /\ confirmed = ModeTasks.fallback
        /\ confirmation = ModeTasks.fallback
  BY <1>1, ModeFacts
     DEF Quiet, Resting, Rested, Sound, NoneEngaging, ExecuteOut, Live
<1>3. CASE \/ masterState = "regis" /\ e \in {"trgup", "diseng"}
           \/ masterState = "enfba" /\ e = "flashOk"
  BY <1>3, ErrorCells, Failure
<1>4. CASE e = "trgfb" /\ masterState = "regis"
  <2>1. Turn(masterState, e, "enfba", "trgfb")
    BY <1>4, Cells
  <2>2. /\ masterState' = "enfba" /\ ctl'.desired = "fallback" /\ ctl'.run \subseteq ctl.run
        /\ "execute" \notin ctl'.run /\ FallbackOut' /\ Rules'
    BY <1>1, <2>1, FallbackAsked
  <2>3. FallingBackStage'
    BY <1>4, <2>2, OrderFallingBack DEF Orders
  <2>4. QED BY <2>2, <2>3 DEF Phase, FallingBack
<1>5. CASE \/ masterState = "regis" /\ e \in {"apSet", "flashOk", "fbset"}
           \/ masterState = "enfba" /\ e \in {"apSet", "trgfb", "trgup", "crtld", "diseng"}
  <2>1. PICK s \in {"regis", "enfba"}, n \in {"noop", "erro"} : Turn(masterState, e, s, n)
    BY <1>5, Cells
  <2>2. masterState' = s /\ ctl' = ctl
    BY <1>1, <2>1, ATurn, EffectRuns
  <2>3. Rules' /\ FallbackOut'
    BY <1>1, <2>1, <2>2, Ordinary, TurnKeeps DEF FallbackOut
  <2>4. FallingBackStage'
    <3>1. CASE e \in Orders
      BY <1>1, <2>2, <3>1, OrderFallingBack
    <3>2. CASE e \notin Orders
      <4>1. /\ LaunchingFallback => LaunchingFallback'
            /\ Quiet("fallback") => Quiet("fallback")'
        BY <2>2, StillSound, StillQuiet
      <4>2. \/ Bare(evtQ') /\ (LaunchingFallback \/ Quiet("fallback"))
            \/ One(evtQ', "fbset") /\ Quiet("fallback")
        BY <3>2, QueueFallingBack
      <4>3. QED BY <1>2, <4>1, <4>2 DEF FallingBackStage, LaunchingFallback
    <3>3. QED BY <3>1, <3>2
  <2>5. QED BY <1>1, <2>2, <2>3, <2>4 DEF Phase, FallingBack
<1>6. CASE masterState = "enfba" /\ e = "fbset"
  <2>1. Turn(masterState, e, "fbset", "fbSet") /\ "fbSet" \in Effects
    BY <1>6, Cells DEF Effects
  <2>2. /\ masterState' = "fbset" /\ ctl' = Effect("fbSet", ctl)
        /\ ctl'.run = ctl.run \cup ModeTasks.fallback /\ ctl'.desired = ctl.desired
        /\ ~ctl'.update /\ ~ctl'.registration
    BY <1>1, <1>6, <2>1, ATurn, EffectRuns, EffectWords
       DEF Rules, Updating, RegistersInRegis
  <2>3. Bare(evtQ') /\ Quiet("fallback")
    BY <1>6, QueueFallingBack DEF Orders, Late
  <2>4. LaunchingFallback' /\ ExecuteOut'
    BY <1>1, <1>2, <2>2, <2>3, StillSound, ModeFacts, TurnKeeps
       DEF LaunchingFallback, ExecuteOut
  <2>5. Apart'
    BY <1>1, <1>2, <2>3, <2>4, TurnKeeps DEF Apart, OneDriver, ExecuteOut, Live
  <2>6. QED
    BY <1>1, <2>2, <2>3, <2>4, <2>5
       DEF Rules, RegistersInRegis, Updating, Phase, Fallback, FallbackStage
<1>7. CASE masterState = "enfba" /\ e = "idtrg"
  <2>1. Turn(masterState, e, "fbset", "noop")
    BY <1>7, Cells
  <2>2. masterState' = "fbset" /\ ctl' = ctl
    BY <1>1, <2>1, ATurn, EffectRuns
  <2>3. Rules'
    BY <1>1, <2>1, Ordinary
  <2>4. /\ LaunchingFallback => LaunchingFallback'
        /\ Quiet("fallback") => Quiet("fallback")'
    BY <2>2, StillSound, StillQuiet
  <2>5. FallbackStage' /\ ExecuteOut'
    BY <1>2, <1>7, <2>2, <2>4, QueueFallingBack, TurnKeeps
       DEF FallbackStage, ExecuteOut, Orders, Late
  <2>6. QED BY <1>1, <2>2, <2>3, <2>5 DEF Phase, Fallback
<1>8. CASE masterState = "regis" /\ e = "crtld"
  <2>1. Turn(masterState, e, "engag", "engag")
    BY <1>8, Cells
  <2>2. /\ masterState' = "engag" /\ ctl'.desired = "running" /\ ctl'.run \subseteq ctl.run
    BY <1>1, <2>1, ATurn, EffectRuns
  <2>3. Rules'
    BY <1>1, <2>1, <2>2, Ordinary
  <2>4. FallbackOut' /\ "execute" \notin ctl'.run
    BY <1>1, <2>2, TurnKeeps DEF FallbackOut
  <2>5. Sound' /\ EngagingStage'
    <3>1. CASE Resting
      BY <1>8, <2>2, <3>1, StillSound, QueueFallingBack
         DEF EngagingStage, LaunchingRunning, Orders, Late, Resting, Rested
    <3>2. CASE ~Resting
      <4>1. /\ Bare(evtQ') /\ Overtaken /\ Sound /\ ~Live("execute")
            /\ "execute" \notin confirmed
        BY <1>2, <1>8, <3>2, QueueFallingBack, OrRests DEF Orders, Late, ExecuteOut
      <4>2. QED
        BY <2>2, <4>1, StillSound, TurnKeeps
           DEF EngagingStage, Overtaken, Waiting, Polling
    <3>3. QED BY <3>1, <3>2
  <2>6. QED BY <2>2, <2>3, <2>4, <2>5 DEF Phase, Engaging
<1>9. CASE masterState = "regis" /\ e = "idtrg"
  <2>1. Turn(masterState, e, "enidl", "trgid")
    BY <1>9, Cells
  <2>2. /\ masterState' = "enidl" /\ ctl'.desired = "idle" /\ ctl'.run \subseteq ctl.run
    BY <1>1, <2>1, ATurn, EffectRuns
  <2>3. Rules'
    BY <1>1, <2>1, <2>2, Ordinary
  <2>4. FallbackOut' /\ ExecuteOut'
    BY <1>1, <1>2, <1>9, <2>2, QueueFallingBack, TurnKeeps
       DEF FallbackOut, ExecuteOut, Orders, Late
  <2>5. IdlingStage'
    <3>1. CASE One(evtQ', "fbset") /\ Quiet("fallback")
      BY <1>2, <2>2, <3>1, StillSound, TurnKeeps DEF IdlingStage
    <3>2. CASE Bare(evtQ') /\ Resting /\ confirmed = {}
      <4>1. IdleOnly'
        BY <3>2, CalmIsOut, TurnKeeps DEF Resting, IdleOnly
      <4>2. QED BY <2>2, <2>4, <3>2, <4>1, StillSound DEF IdlingStage
    <3>3. CASE Bare(evtQ') /\ Overtaken
      BY <3>3, TurnKeeps DEF IdlingStage, Overtaken, Waiting, Polling
    <3>4. QED
      BY <1>9, <3>1, <3>2, <3>3, QueueFallingBack, OrRests DEF Orders, Late, Resting
  <2>6. QED BY <2>2, <2>3, <2>4, <2>5 DEF Phase, Idling
<1>10. e \in Orders \cup Late \cup {"fbset"}
  BY QueueFallingBack
<1>11. QED
  BY <1>1, <1>3, <1>4, <1>5, <1>6, <1>7, <1>8, <1>9, <1>10 DEF Orders, Late

\* What is queued while idle is on its way, and what is left of it.
LEMMA QueueIdling ==
  ASSUME TypeOK, runMasterFSM, Idling
  PROVE  \/ Head(evtQ) \in Orders
         \/ /\ Head(evtQ) = "fbset" /\ Bare(evtQ')
            /\ \/ launcher.at = "idle"
               \/ Polling("idle") /\ "deploy" \in confirmed \cap confirmation
         \/ Head(evtQ) = "idset" /\ Bare(evtQ') /\ Quiet("idle") /\ FallbackOut
BY TurnQueue DEF Idling, IdlingStage, Orders, Resting

\* An order is ignored.
LEMMA OrderIdling ==
  ASSUME TypeOK, runMasterFSM, Idling, Head(evtQ) \in Orders, ctl' = ctl
  PROVE  ExecuteOut' /\ IdlingStage'
<1>1. UNCHANGED <<launcher, confirmed, confirmation, at>> /\ \A t : Live(t)' = Live(t)
  BY TurnKeeps
<1>2. /\ Resting => Resting'
      /\ Sound => Sound'
      /\ Quiet("idle") => Quiet("idle")'
      /\ FallbackOut => FallbackOut'
      /\ IdleOnly => IdleOnly'
      /\ NoneEngaging => NoneEngaging'
  BY <1>1, StillSound, StillQuiet, TurnKeeps DEF FallbackOut, IdleOnly
<1>3. /\ Bare(evtQ) => Bare(evtQ')
      /\ One(evtQ, "fbset") => One(evtQ', "fbset")
      /\ One(evtQ, "idset") => One(evtQ', "idset")
  BY TurnQueue DEF Orders
<1>4. ExecuteOut'
  BY <1>1 DEF Idling, ExecuteOut
<1>5. CASE Bare(evtQ) /\ launcher.at = "idle" /\ ~ctl.launcher
  BY <1>1, <1>3, <1>4, <1>5 DEF IdlingStage
<1>6. CASE Bare(evtQ) /\ Resting /\ FallbackOut /\ IdleOnly
  BY <1>2, <1>3, <1>4, <1>6 DEF IdlingStage
<1>7. CASE /\ Bare(evtQ) \/ One(evtQ, "fbset")
           /\ Polling("idle") /\ "deploy" \in confirmed \cap confirmation
  BY <1>1, <1>3, <1>4, <1>7 DEF IdlingStage, Polling
<1>8. CASE /\ Bare(evtQ) /\ Sound /\ NoneEngaging /\ FallbackOut /\ IdleOnly
           /\ confirmed \subseteq confirmation
           /\ \/ Polling("idle")
              \/ launcher = [at |-> "waitIdle", mode |-> "idle"] /\ confirmed = ModeTasks.idle
  BY <1>1, <1>2, <1>3, <1>4, <1>8 DEF IdlingStage, Polling
<1>9. CASE Bare(evtQ) /\ Overtaken
  BY <1>1, <1>3, <1>4, <1>9 DEF IdlingStage, Overtaken, Polling, Waiting
<1>10. CASE One(evtQ, "fbset") /\ launcher.at = "idle" /\ confirmed = ModeTasks.idle
  BY <1>1, <1>3, <1>4, <1>10 DEF IdlingStage
<1>11. CASE One(evtQ, "fbset") /\ Resting /\ confirmed = ModeTasks.fallback
  BY <1>1, <1>2, <1>3, <1>4, <1>11 DEF IdlingStage
<1>12. CASE One(evtQ, "idset") /\ Quiet("idle") /\ FallbackOut
  BY <1>2, <1>3, <1>4, <1>12 DEF IdlingStage
<1>13. QED
  BY <1>5, <1>6, <1>7, <1>8, <1>9, <1>10, <1>11, <1>12 DEF Idling, IdlingStage

\* Idle on its way, with a launch of fallback overtaken or not.
LEMMA TurnIdling ==
  ASSUME TypeOK, Rules, runMasterFSM, Idling
  PROVE  Rules' /\ Phase'
<1> DEFINE e == Head(evtQ)
<1>1. masterState = "enidl" /\ ctl.desired = "idle" /\ ExecuteOut /\ ctl \in CtlType
  BY DEF Idling, TypeOK
<1>2. CASE e = "flashOk"
  BY <1>1, <1>2, ErrorCells, Failure
<1>3. CASE e \in {"apSet", "trgfb", "trgup"}
  <2>1. Turn(masterState, e, "enidl", "noop")
    BY <1>1, <1>3, Cells
  <2>2. masterState' = "enidl" /\ ctl' = ctl
    BY <1>1, <2>1, ATurn, EffectRuns
  <2>3. Rules' /\ ExecuteOut' /\ IdlingStage'
    BY <1>1, <1>3, <2>1, <2>2, Ordinary, OrderIdling DEF Orders
  <2>4. QED BY <1>1, <2>2, <2>3 DEF Phase, Idling
<1>4. CASE e = "fbset"
  <2>1. Turn(masterState, e, "enidl", "fbSet") /\ "fbSet" \in Effects
    BY <1>1, <1>4, Cells DEF Effects
  <2>2. /\ masterState' = "enidl" /\ ctl' = Effect("fbSet", ctl) /\ ~ctl'.launcher
        /\ ctl'.run = ctl.run \cup ModeTasks.fallback /\ ctl'.desired = ctl.desired
        /\ ~ctl'.update /\ ~ctl'.registration
    BY <1>1, <2>1, ATurn, EffectRuns, EffectWords
       DEF Rules, Updating, RegistersInRegis
  <2>3. ExecuteOut'
    BY <1>1, <2>2, ModeFacts, TurnKeeps DEF ExecuteOut
  <2>4. IdlingStage'
    BY <1>4, <2>2, QueueIdling, TurnKeeps DEF IdlingStage, Polling, Orders
  <2>5. Apart'
    BY <2>3 DEF Apart, OneDriver, ExecuteOut, Live
  <2>6. QED
    BY <1>1, <2>2, <2>3, <2>4, <2>5
       DEF Rules, RegistersInRegis, Updating, Phase, Idling
<1>5. CASE e = "idset"
  <2>1. Turn(masterState, e, "idset", "idset") /\ "idset" \in Effects
    BY <1>1, <1>5, Cells DEF Effects
  <2>2. /\ masterState' = "idset" /\ ctl' = Effect("idset", ctl)
        /\ ctl'.run = ctl.run \cup ModeTasks.idle /\ ctl'.desired = ctl.desired
        /\ ~ctl'.update /\ ~ctl'.registration
    BY <1>1, <2>1, ATurn, EffectRuns, EffectWords
       DEF Rules, Updating, RegistersInRegis
  <2>3. Bare(evtQ') /\ Quiet("idle") /\ FallbackOut
    BY <1>5, QueueIdling DEF Orders
  <2>4. ctl'.run \subseteq ctl.run \cup confirmation
    BY <2>2, <2>3 DEF Quiet, Resting, Rested
  <2>5. Quiet("idle")' /\ FallbackOut' /\ "execute" \notin ctl'.run
    BY <1>1, <2>2, <2>3, <2>4, StillQuiet, ModeFacts, TurnKeeps DEF FallbackOut, ExecuteOut
  <2>6. Apart'
    BY <2>5, <1>1, TurnKeeps DEF Apart, OneDriver, FallbackOut
  <2>7. QED
    BY <2>2, <2>3, <2>5, <2>6 DEF Rules, RegistersInRegis, Updating, Phase, Idle
<1>6. QED BY <1>2, <1>3, <1>4, <1>5, QueueIdling DEF Orders

\* What is queued while the hub leaves a mode, and what is left of it.
LEMMA QueueLeaving ==
  ASSUME TypeOK, runMasterFSM, Leaving
  PROVE  /\ Head(evtQ) \in Orders \cup {"fbset", "diseng"}
         /\ Head(evtQ) = "diseng" => Bare(evtQ') /\ Quiet("none")
         /\ Head(evtQ) = "fbset" => masterState # "idset"
BY TurnQueue DEF Leaving, LeavingStage, Orders

\* Any other event than its outcome leaves the launch as it is.
LEMMA StillLeaving ==
  ASSUME TypeOK, runMasterFSM, Leaving, Head(evtQ) # "diseng",
         masterState' = "idset" => masterState = "idset",
         ctl'.desired = "none", ctl'.run = {}
  PROVE  LeavingStage'
<1>1. UNCHANGED <<launcher, confirmed, confirmation, at>> /\ NoneEngaging' = NoneEngaging
  BY TurnKeeps
<1>2. /\ Resting => Resting'
      /\ Quiet("none") => Quiet("none")'
  BY StillSound, StillQuiet DEF Leaving
<1>3. CASE /\ Bare(evtQ) \/ (One(evtQ, "fbset") /\ masterState # "idset")
           /\ \/ Resting
              \/ launcher.at = "idle" /\ confirmed = {} /\ masterState # "idset"
              \/ Polling("none") /\ confirmation \subseteq confirmed /\ NoneEngaging
  <2>1. Bare(evtQ') \/ (One(evtQ', "fbset") /\ masterState' # "idset")
    BY <1>3, TurnQueue DEF Orders
  <2>2. \/ Resting'
        \/ launcher'.at = "idle" /\ confirmed' = {} /\ masterState' # "idset"
        \/ Polling("none")' /\ confirmation' \subseteq confirmed' /\ NoneEngaging'
    BY <1>1, <1>2, <1>3 DEF Polling
  <2>3. QED BY <2>1, <2>2 DEF LeavingStage
<1>4. CASE Bare(evtQ) /\ Overtaken /\ masterState # "idset"
  BY <1>1, <1>4, TurnQueue DEF LeavingStage, Overtaken, Polling, Waiting
<1>5. CASE /\ One(evtQ, "diseng") \/ (Two(evtQ, "fbset", "diseng") /\ masterState # "idset")
           /\ Quiet("none")
  BY <1>2, <1>5, TurnQueue DEF LeavingStage, Orders
<1>6. QED BY <1>3, <1>4, <1>5 DEF Leaving, LeavingStage

\* A hub that leaves a mode waits for its disengagement.
LEMMA TurnLeaving ==
  ASSUME TypeOK, Rules, runMasterFSM, Leaving
  PROVE  Rules' /\ Phase'
<1> DEFINE e == Head(evtQ)
<1>1. /\ masterState \in {"diseng", "engup", "engap", "fbset", "idset"}
      /\ ctl.desired = "none" /\ ctl.run = {} /\ Sound /\ ctl \in CtlType
      /\ masterState = "idset" => IdleOnly
  BY DEF Leaving, TypeOK
<1>2. CASE e = "flashOk" /\ masterState # "fbset"
  BY <1>1, <1>2, ErrorCells, Failure
<1>3. CASE \/ masterState = "fbset" /\ e \in {"flashOk", "trgfb", "trgup", "apSet"}
           \/ masterState = "idset" /\ e \in {"trgup", "apSet"}
  <2>1. PICK s \in {"diseng", "engup", "fbset", "idset"}, n \in {"disen", "fbdis"} :
          Turn(masterState, e, s, n) /\ (s = "idset" => masterState = "idset")
    BY <1>3, Cells
  <2>2. /\ masterState' = s /\ ctl'.desired = "none" /\ ctl'.run = {}
        /\ Sound' /\ Rules'
    BY <1>1, <1>3, <2>1, Dismissed
  <2>3. LeavingStage'
    BY <1>3, <2>1, <2>2, StillLeaving
  <2>4. masterState' = "idset" => IdleOnly'
    BY <1>1, <2>1, <2>2, TurnKeeps DEF IdleOnly
  <2>5. QED BY <2>2, <2>3, <2>4 DEF Phase, Leaving
<1>4. CASE \/ /\ masterState \in {"diseng", "engup", "engap"}
              /\ e \in {"apSet", "trgfb", "trgup", "fbset"}
           \/ masterState = "fbset" /\ e = "fbset"
  <2>1. Turn(masterState, e, masterState, "noop")
    BY <1>4, Cells
  <2>2. masterState' = masterState /\ ctl' = ctl
    BY <1>1, <2>1, ATurn, EffectRuns
  <2>3. Rules' /\ Sound'
    BY <1>1, <1>4, <2>1, <2>2, StillSound, Ordinary
  <2>4. LeavingStage'
    BY <1>1, <1>4, <2>2, StillLeaving
  <2>5. QED BY <1>1, <1>4, <2>2, <2>3, <2>4 DEF Phase, Leaving
<1>5. CASE masterState = "idset" /\ e = "trgfb"
  <2>1. Turn(masterState, e, "enfba", "trgfb")
    BY <1>5, Cells
  <2>2. IdleOnly /\ FallbackOut /\ ExecuteOut /\ "deploy" \notin confirmed
    BY <1>1, <1>5, ModeFacts DEF IdleOnly, FallbackOut, ExecuteOut, Live
  <2>3. /\ masterState' = "enfba" /\ ctl'.desired = "fallback" /\ ctl'.run = {}
        /\ "execute" \notin ctl'.run /\ FallbackOut' /\ Rules' /\ Sound'
        /\ (Resting => Resting')
    BY <1>1, <1>5, <2>1, <2>2, FallbackAsked
  <2>4. ExecuteOut' /\ ~Live("deploy")' /\ "deploy" \notin confirmed'
    BY <2>2, <2>3, TurnKeeps DEF ExecuteOut, IdleOnly
  <2>5. FallingBackStage'
    <3>1. CASE Bare(evtQ) /\ Resting
      BY <2>3, <3>1, TurnQueue DEF FallingBackStage, LaunchingFallback
    <3>2. CASE Bare(evtQ) /\ Polling("none")
      BY <2>3, <2>4, <3>2, TurnQueue, TurnKeeps DEF FallingBackStage, Polling
    <3>3. CASE One(evtQ, "diseng") /\ Quiet("none")
      <4>1. One(evtQ', "diseng") /\ Resting' /\ confirmed' = {}
        BY <1>5, <2>3, <3>3, ModeFacts, TurnQueue, TurnKeeps DEF Quiet, Orders
      <4>2. QED
        BY <2>4, <4>1 DEF FallingBackStage, LaunchingFallback, Late
    <3>4. QED BY <1>5, <3>1, <3>2, <3>3 DEF Leaving, LeavingStage
  <2>6. QED BY <2>3, <2>5 DEF Phase, FallingBack
<1>6. CASE e = "diseng"
  <2>1. Bare(evtQ') /\ Quiet("none") /\ Resting /\ ~ctl.update /\ ~ctl.registration
    BY <1>1, <1>6, QueueLeaving DEF Quiet, Orders, Rules, Updating, RegistersInRegis
  <2>2. PICK s \in {"regis", "updat", "apSet", "idset"},
             n \in {"rgstr", "updat", "apeng", "erro"} :
          /\ Turn(masterState, e, s, n)
          /\ n = "rgstr" => s = "regis"
          /\ n = "updat" => s = "updat"
          /\ s = "idset" => masterState = "idset"
    BY <1>1, <1>6, Cells
  <2>3. masterState' = s /\ ctl' = Effect(n, ctl) /\ n \in Effects
    BY <2>2, ATurn DEF Effects
  <2>4. ctl'.run \subseteq ctl.run /\ ctl'.desired = "none"
    BY <1>1, <2>3, EffectRuns
  <2>5. Quiet("none")' /\ Apart'
    BY <1>1, <2>1, <2>4, StillQuiet, StillApart DEF Rules
  <2>6. RegistersInRegis' /\ Updating'
    BY <1>1, <2>1, <2>2, <2>3, <2>4, <2>5, EffectWords DEF RegistersInRegis, Updating
  <2>7. CASE s = "regis"
    BY <2>1, <2>3, <2>5, <2>6, <2>7 DEF Rules, Phase, Registering
  <2>8. CASE s \in {"updat", "apSet"}
    BY <2>1, <2>3, <2>5, <2>6, <2>8 DEF Rules, Phase, AtRest
  <2>9. CASE s = "idset"
    <3>1. IdleOnly' /\ Resting' /\ Sound' /\ ctl'.run = {}
      BY <1>1, <2>2, <2>4, <2>5, <2>9, TurnKeeps DEF IdleOnly, Quiet, Resting, Rested
    <3>2. QED
      BY <2>1, <2>3, <2>4, <2>5, <2>6, <2>9, <3>1 DEF Rules, Phase, Leaving, LeavingStage
  <2>10. QED BY <2>7, <2>8, <2>9
<1>7. QED BY <1>1, <1>2, <1>3, <1>4, <1>5, <1>6, QueueLeaving DEF Orders

\* A turn of the state machine in any phase.
LEMMA TurnPhase ==
  ASSUME TypeOK, Rules, Phase, runMasterFSM
  PROVE  Rules' /\ Phase'
<1>1. CASE masterState = "error"
  BY <1>1, ErrorCells, Failure
<1>2. CASE masterState # "error"
  BY <1>2, TurnInFlash, TurnAtRest, TurnRegistering, TurnEngaging, TurnRunning,
     TurnFallingBack, TurnFallback, TurnIdling, TurnIdle, TurnLeaving DEF Phase
<1>3. QED BY <1>1, <1>2

-----------------------------------------------------------------------------
(* The phases under a step of a task.                                      *)

\* The flags a task may find raised, mode by mode.
LEMMA Requests ==
  /\ \A m \in Modes \ {"running"} : "execute" \notin EngageRequest[m]
  /\ \A m \in Modes \ {"fallback"} : "fallback" \notin EngageRequest[m]
  /\ "deploy" \notin EngageRequest["idle"]
  /\ EngageRequest["none"] = {} /\ DisengageRequest["idle"] = {}
  /\ DisengageRequest["running"] = {"fallback"} /\ DisengageRequest["fallback"] = {"execute"}
BY ModeFacts DEF EngageRequest, DisengageRequest, Modes

\* Which flags of the tasks may be raised, by where the launcher is.
LEMMA FlagsIn ==
  ASSUME FlagsOfLaunch
  PROVE  /\ launcher.at \in {"idle", "wait"} => engageFlag = {} /\ disengageFlag = {}
         /\ \A m \in Modes : Polling(m) \/ launcher = [at |-> "waitIdle", mode |-> m] =>
              engageFlag \subseteq EngageRequest[m] /\ disengageFlag \subseteq DisengageRequest[m]
         /\ \A m \in Modes : Waiting(m) => engageFlag = {} /\ disengageFlag = {}
BY DEF FlagsOfLaunch, Polling, Waiting

\* No task is asked to disengage that may run, but for the error state.
LEMMA NoneRunsReleased ==
  ASSUME TypeOK, FlagsOfLaunch, Phase, masterState # "error"
  PROVE  disengageFlag \cap ctl.run = {}
<1> USE DEF Modes
<1>1. CASE launcher.at \in {"idle", "wait"}
  BY <1>1, FlagsIn
<1>2. CASE Polling("fallback") /\ "execute" \notin ctl.run
  BY <1>2, FlagsIn, Requests
<1>3. CASE Polling("running") /\ FallbackOut
  BY <1>3, FlagsIn, Requests DEF FallbackOut
<1>4. CASE Polling("idle") \/ launcher = [at |-> "waitIdle", mode |-> "idle"]
  BY <1>4, FlagsIn, Requests
<1>5. CASE ctl.run = {}
  BY <1>5
<1>6. CASE Resting \/ Waiting("fallback") \/ Waiting("running")
  BY <1>1, <1>6 DEF Resting, Waiting
<1>7. CASE InFlash \/ AtRest \/ Registering \/ Running \/ Idle
  BY <1>6, <1>7 DEF InFlash, AtRest, Registering, Running, Idle, Quiet
<1>8. CASE Engaging
  BY <1>2, <1>3, <1>6, <1>8
     DEF Engaging, EngagingStage, LaunchingRunning, Overtaken, Quiet
<1>9. CASE FallingBack
  BY <1>2, <1>5, <1>6, <1>9 DEF FallingBack, FallingBackStage, LaunchingFallback, Quiet
<1>10. CASE Fallback
  BY <1>2, <1>6, <1>10 DEF Fallback, FallbackStage, LaunchingFallback, Quiet, ExecuteOut
<1>11. CASE Idling
  BY <1>1, <1>2, <1>4, <1>6, <1>11 DEF Idling, IdlingStage, Overtaken, Quiet, ExecuteOut
<1>12. CASE Leaving
  BY <1>5, <1>12 DEF Leaving
<1>13. QED BY <1>7, <1>8, <1>9, <1>10, <1>11, <1>12 DEF Phase

\* A task leaves the state machine and the launcher alone, and raises no flag.
LEMMA TaskKeeps ==
  ASSUME NEW t \in Tasks, Task(t)
  PROVE  /\ UNCHANGED <<masterState, evtQ, ctl, regAhead, regAt, confirmed, launcher>>
         /\ engageFlag' \subseteq engageFlag /\ disengageFlag' \subseteq disengageFlag
BY DEF Task, task_engage, task_engage_slowly, task_engagement_done, task_isRun, task_run,
       task_disengage, task_disengagement_done, deployment_loaded, wait_for_deployment,
       TaskUnchanged, hub, lnch, envv

\* A task confirms when its engage flag is raised, or at the end of an engagement.
LEMMA WhoConfirms ==
  ASSUME TypeOK, NEW t \in Tasks, Task(t), NEW s \in Tasks, s \in confirmation'
  PROVE  s \in confirmation \/ s \in engageFlag \/ at[s] = "engage"
BY DEF Task, task_engage, task_engage_slowly, task_engagement_done, task_isRun, task_run,
       task_disengage, task_disengagement_done, deployment_loaded, wait_for_deployment, Goes

\* It takes the confirmation back when its disengage flag is raised and it may not run.
LEMMA WhoDisengages ==
  ASSUME TypeOK, disengageFlag \cap ctl.run = {}, NEW t \in Tasks, Task(t),
         NEW s \in Tasks, s \in confirmation, s \notin confirmation'
  PROVE  s \in disengageFlag /\ s \notin ctl.run /\ at'[s] \in {"top", "disengaged"}
BY DEF TypeOK, Task, task_engage, task_engage_slowly, task_engagement_done, task_isRun,
       task_run, task_disengage, task_disengagement_done, deployment_loaded,
       wait_for_deployment, Goes, Released

\* How a task comes to engage, to be engaged, and to run.
LEMMA WhereTo ==
  ASSUME TypeOK, NEW t \in Tasks, Task(t), NEW s \in Tasks
  PROVE  /\ at'[s] = "engage" => \/ at[s] = "engage"
                                 \/ s \in engageFlag \cap {"deploy", "execute"}
         /\ at'[s] = "engaged" => at[s] = "engaged" \/ s \in confirmation'
         /\ at'[s] = "run" => at[s] = "run" \/ s \in ctl.run
<1> USE DEF TypeOK, Goes, Confirmed, Released
<1>1. CASE task_engage(t) BY <1>1 DEF task_engage
<1>2. CASE task_engage_slowly(t) BY <1>2 DEF task_engage_slowly
<1>3. CASE task_engagement_done(t) BY <1>3 DEF task_engagement_done
<1>4. CASE task_isRun(t) BY <1>4 DEF task_isRun, IsRun
<1>5. CASE task_run(t) BY <1>5 DEF task_run
<1>6. CASE task_disengage(t) BY <1>6 DEF task_disengage
<1>7. CASE task_disengagement_done(t) BY <1>7 DEF task_disengagement_done
<1>8. CASE t = "deploy" /\ deployment_loaded BY <1>8 DEF deployment_loaded
<1>9. CASE t = "execute" /\ wait_for_deployment BY <1>9 DEF wait_for_deployment
<1>10. QED BY <1>1, <1>2, <1>3, <1>4, <1>5, <1>6, <1>7, <1>8, <1>9 DEF Task

\* A task that is out stays out until it is asked to engage, or may run.
LEMMA StaysOut ==
  ASSUME TypeOK, NEW t \in Tasks, Task(t),
         NEW s \in Tasks, s \notin engageFlag, s \notin ctl.run, ~Live(s)
  PROVE  ~Live(s)'
BY WhoConfirms, WhereTo DEF Live

\* Task steps keep what the phases say of the tasks.
LEMMA TasksSound ==
  ASSUME TypeOK, disengageFlag \cap ctl.run = {}, NEW t \in Tasks, Task(t)
  PROVE  /\ Sound => Sound'
         /\ NoneEngaging /\ engageFlag \cap {"deploy", "execute"} = {} => NoneEngaging'
         /\ FallbackOut => FallbackOut'
         /\ ExecuteOut /\ "execute" \notin engageFlag => ExecuteOut'
         /\ \A S \in SUBSET confirmation : S \cap disengageFlag = {} => S \subseteq confirmation'
<1>1. confirmation \subseteq Tasks /\ ctl' = ctl /\ ctl.run \subseteq Tasks
  BY TaskKeeps DEF TypeOK, CtlType
<1>2. {"execute", "fallback"} \subseteq Tasks
  BY ModeFacts
<1>3. Sound => Sound'
  <2> SUFFICES ASSUME Sound PROVE Sound'
    OBVIOUS
  <2>1. ctl'.run \subseteq confirmation'
    BY <1>1, WhoDisengages DEF Sound
  <2>2. ASSUME NEW s \in Tasks, at'[s] \in {"engaged", "run"} PROVE s \in confirmation'
    BY <2>2, WhereTo, WhoDisengages DEF Sound
  <2>3. QED BY <2>1, <2>2 DEF Sound
<1>4. ASSUME NoneEngaging, engageFlag \cap {"deploy", "execute"} = {} PROVE NoneEngaging'
  <2>1. ASSUME NEW s \in Tasks, at'[s] = "engage" PROVE s \in confirmation'
    BY <1>4, <2>1, WhereTo, WhoDisengages DEF NoneEngaging
  <2>2. QED BY <2>1 DEF NoneEngaging
<1>5. FallbackOut => FallbackOut'
  BY <1>1, <1>2, WhereTo DEF FallbackOut
<1>6. ExecuteOut /\ "execute" \notin engageFlag => ExecuteOut'
  BY <1>1, <1>2, StaysOut DEF ExecuteOut
<1>7. ASSUME NEW S \in SUBSET confirmation, S \cap disengageFlag = {}
      PROVE  S \subseteq confirmation'
  BY <1>1, <1>7, WhoDisengages
<1>8. QED BY <1>3, <1>4, <1>5, <1>6, <1>7

\* With no flag raised, nothing confirmed changes.
LEMMA TasksRest ==
  ASSUME TypeOK, FlagsOfLaunch, disengageFlag \cap ctl.run = {}, NEW t \in Tasks, Task(t)
  PROVE  /\ launcher.at \in {"idle", "wait"} /\ Rested => Rested'
         /\ Resting => Resting'
         /\ \A m : Quiet(m) => Quiet(m)'
<1>1. ASSUME launcher.at \in {"idle", "wait"}, Rested PROVE Rested'
  <2>1. engageFlag = {} /\ disengageFlag = {}
    BY <1>1, FlagsIn
  <2>2. Sound' /\ NoneEngaging' /\ confirmation \subseteq confirmation'
    BY <1>1, <2>1, TasksSound DEF Rested
  <2>3. confirmation' \subseteq confirmation
    <3>1. confirmation' \subseteq Tasks
      BY TaskType DEF TypeOK
    <3>2. QED BY <1>1, <2>1, <3>1, WhoConfirms DEF Rested, NoneEngaging
  <2>4. QED BY <1>1, <2>2, <2>3, TaskKeeps DEF Rested
<1>2. Resting => Resting'
  BY <1>1, TaskKeeps DEF Resting
<1>3. ASSUME NEW m, Quiet(m) PROVE Quiet(m)'
  BY <1>2, <1>3, TaskKeeps DEF Quiet
<1>4. QED BY <1>1, <1>2, <1>3

\* Launches go on under the steps of the tasks they move.
LEMMA TasksLaunched ==
  ASSUME TypeOK, FlagsOfLaunch, disengageFlag \cap ctl.run = {}, NEW t \in Tasks, Task(t)
  PROVE  /\ LaunchingFallback => LaunchingFallback'
         /\ LaunchingRunning => LaunchingRunning'
         /\ Overtaken => Overtaken' /\ "execute" \notin engageFlag
         /\ \A m \in Modes : Polling(m) => Polling(m)'
<1> USE DEF Modes
<1>1. {"execute", "fallback"} \subseteq Tasks /\ UNCHANGED <<launcher, confirmed, ctl>>
  BY ModeFacts, TaskKeeps
<1>2. \A m \in Modes : Polling(m) => Polling(m)'
  BY <1>1 DEF Polling
<1>3. \A m \in Modes : Waiting(m) /\ Rested => Waiting(m)' /\ Rested'
  BY <1>1, TasksRest DEF Waiting
<1>4. ASSUME Overtaken PROVE Overtaken' /\ "execute" \notin engageFlag
  BY <1>1, <1>4, FlagsIn, Requests DEF Overtaken, Waiting, Polling
<1>5. ASSUME Polling("fallback"), Sound, confirmed \ {"execute"} \subseteq confirmation,
             Live("execute") => "execute" \in confirmed,
             at["execute"] = "engage" => "execute" \in confirmation
      PROVE  LaunchingFallback'
  <2>1. disengageFlag \subseteq {"execute"} /\ "execute" \notin engageFlag
    BY <1>5, FlagsIn, Requests
  <2>2. Sound' /\ confirmed' \ {"execute"} \subseteq confirmation'
    BY <1>1, <1>5, <2>1, TasksSound
  <2>3. ~Live("execute") => ~Live("execute")'
    BY <1>1, <1>5, <2>1, StaysOut DEF Sound, Live
  <2>4. at'["execute"] = "engage" => "execute" \in confirmation'
    BY <1>1, <1>5, <2>1, WhereTo, WhoDisengages
  <2>5. QED BY <1>1, <1>2, <1>5, <2>2, <2>3, <2>4 DEF LaunchingFallback
<1>6. ASSUME Polling("running"), Sound, confirmed \ {"fallback"} \subseteq confirmation,
             Live("fallback") => "fallback" \in confirmed
      PROVE  LaunchingRunning'
  <2>1. disengageFlag \subseteq {"fallback"} /\ "fallback" \notin engageFlag
    BY <1>6, FlagsIn, Requests
  <2>2. Sound' /\ confirmed' \ {"fallback"} \subseteq confirmation'
    BY <1>1, <1>6, <2>1, TasksSound
  <2>3. ~Live("fallback") => ~Live("fallback")'
    BY <1>1, <1>6, <2>1, StaysOut DEF Sound, Live
  <2>4. QED BY <1>1, <1>2, <1>6, <2>2, <2>3 DEF LaunchingRunning
<1>7. LaunchingFallback => LaunchingFallback'
  BY <1>3, <1>5, TasksRest DEF LaunchingFallback
<1>8. LaunchingRunning => LaunchingRunning'
  BY <1>3, <1>6, TasksRest DEF LaunchingRunning
<1>9. QED BY <1>2, <1>4, <1>7, <1>8

\* None but the tasks of idle come alive while none but they are asked to engage.
LEMMA IdleStays ==
  ASSUME TypeOK, NEW t \in Tasks, Task(t), Sound, IdleOnly,
         engageFlag \subseteq EngageRequest["idle"]
  PROVE  IdleOnly'
<1>1. \A s \in {"deploy", "execute", "fallback"} :
        s \in Tasks /\ s \notin engageFlag /\ s \notin ctl.run /\ ~Live(s)
  BY ModeFacts DEF IdleOnly, EngageRequest, Sound, Live
<1>2. \A s \in {"deploy", "execute", "fallback"} : ~Live(s)'
  BY <1>1, StaysOut
<1>3. QED BY <1>2, TaskKeeps DEF IdleOnly

\* The tasks engage for running.
LEMMA TaskEngaging ==
  ASSUME TypeOK, FlagsOfLaunch, disengageFlag \cap ctl.run = {}, NEW t \in Tasks, Task(t),
         Engaging
  PROVE  Engaging'
<1>1. UNCHANGED <<masterState, evtQ, ctl, confirmed>>
  BY TaskKeeps
<1>2. Sound' /\ FallbackOut'
  BY TasksSound DEF Engaging
<1>3. ASSUME /\ Bare(evtQ) \/ One(evtQ, "fbset")
             /\ LaunchingRunning
      PROVE  EngagingStage'
  BY <1>1, <1>3, TasksLaunched DEF EngagingStage
<1>4. ASSUME Bare(evtQ) /\ Overtaken /\ ~Live("execute") /\ "execute" \notin confirmed
      PROVE  EngagingStage'
  <2>1. ~Live("execute")'
    BY <1>4, TasksLaunched, StaysOut, ModeFacts DEF Engaging
  <2>2. QED BY <1>1, <1>4, <2>1, TasksLaunched DEF EngagingStage
<1>5. ASSUME /\ One(evtQ, "engaged") \/ Two(evtQ, "fbset", "engaged")
             /\ Quiet("running")
      PROVE  EngagingStage'
  BY <1>1, <1>5, TasksRest DEF EngagingStage
<1>6. EngagingStage'
  BY <1>3, <1>4, <1>5 DEF Engaging, EngagingStage
<1>7. QED BY <1>1, <1>2, <1>6 DEF Engaging

\* The tasks engage for fallback while execution stays out.
LEMMA TaskFallingBack ==
  ASSUME TypeOK, FlagsOfLaunch, disengageFlag \cap ctl.run = {}, NEW t \in Tasks, Task(t),
         FallingBack
  PROVE  FallingBack'
<1>1. UNCHANGED <<masterState, evtQ, ctl, confirmed, launcher>>
  BY TaskKeeps
<1>2. FallbackOut'
  BY TasksSound DEF FallingBack
<1>3. ASSUME Bare(evtQ) /\ LaunchingFallback
      PROVE  FallingBackStage'
  BY <1>1, <1>3, TasksLaunched DEF FallingBackStage
<1>4. ASSUME NEW e \in Late, One(evtQ, e), ExecuteOut, "execute" \notin confirmed,
             LaunchingFallback, launcher.at = "idle" => confirmed = {}
      PROVE  FallingBackStage'
  <2>1. "execute" \notin engageFlag
    BY <1>4, OrRests, TasksLaunched, FlagsIn DEF Resting
  <2>2. ExecuteOut' /\ LaunchingFallback'
    BY <1>4, <2>1, TasksSound, TasksLaunched
  <2>3. QED BY <1>1, <1>4, <2>2 DEF FallingBackStage
<1>5. ASSUME /\ One(evtQ, "fbset") \/ \E e \in Late : Two(evtQ, e, "fbset")
             /\ Quiet("fallback")
      PROVE  FallingBackStage'
  BY <1>1, <1>5, TasksRest DEF FallingBackStage
<1>6. ASSUME /\ Bare(evtQ) /\ Polling("none")
             /\ Sound /\ ExecuteOut /\ ctl.run = {}
             /\ ~Live("deploy") /\ "deploy" \notin confirmed
      PROVE  FallingBackStage'
  <2>1. engageFlag = {} /\ Polling("none")'
    BY <1>6, FlagsIn, Requests, TasksLaunched DEF Modes
  <2>2. Sound' /\ ExecuteOut' /\ ~Live("deploy")'
    BY <1>6, <2>1, TasksSound, StaysOut, ModeFacts
  <2>3. QED BY <1>1, <1>6, <2>1, <2>2 DEF FallingBackStage
<1>7. FallingBackStage'
  BY <1>3, <1>4, <1>5, <1>6 DEF FallingBack, FallingBackStage
<1>8. QED BY <1>1, <1>2, <1>7 DEF FallingBack

\* The tasks in fallback.
LEMMA TaskFallback ==
  ASSUME TypeOK, FlagsOfLaunch, disengageFlag \cap ctl.run = {}, NEW t \in Tasks, Task(t),
         Fallback
  PROVE  Fallback'
<1>1. UNCHANGED <<masterState, evtQ, ctl, confirmed, launcher>>
  BY TaskKeeps
<1>2. "execute" \notin engageFlag
  BY OrRests, TasksLaunched, FlagsIn DEF Fallback, FallbackStage, Quiet, Resting
<1>3. FallbackStage'
  BY <1>1, TasksLaunched, TasksRest DEF Fallback, FallbackStage
<1>4. QED BY <1>1, <1>2, <1>3, TasksSound DEF Fallback

\* The tasks engage for idle, or go through with a launch overtaken.
LEMMA TaskIdling ==
  ASSUME TypeOK, FlagsOfLaunch, disengageFlag \cap ctl.run = {}, NEW t \in Tasks, Task(t),
         Idling
  PROVE  Idling'
<1>1. UNCHANGED <<masterState, evtQ, ctl, confirmed, launcher>>
  BY TaskKeeps
<1>2. /\ FallbackOut => FallbackOut'
      /\ Sound => Sound'
      /\ Resting => Resting'
      /\ Quiet("idle") => Quiet("idle")'
  BY TasksSound, TasksRest
<1>3. launcher.at = "idle" =>
        engageFlag = {} /\ engageFlag \subseteq EngageRequest["idle"]
  BY FlagsIn
<1>4. CASE Bare(evtQ) /\ launcher.at = "idle" /\ ~ctl.launcher
  BY <1>1, <1>3, <1>4, TasksSound DEF Idling, IdlingStage
<1>5. CASE Bare(evtQ) /\ Resting /\ FallbackOut /\ IdleOnly
  <2>1. ExecuteOut' /\ IdleOnly'
    BY <1>3, <1>5, TasksSound, IdleStays DEF Idling, Resting, Rested
  <2>2. QED BY <1>1, <1>2, <1>5, <2>1 DEF Idling, IdlingStage
<1>6. CASE /\ Bare(evtQ) \/ One(evtQ, "fbset")
           /\ Polling("idle") /\ "deploy" \in confirmed \cap confirmation
  <2>1. "execute" \notin engageFlag /\ disengageFlag = {}
    BY <1>6, FlagsIn, Requests DEF Modes
  <2>2. ExecuteOut' /\ "deploy" \in confirmation'
    BY <1>6, <2>1, TasksSound DEF Idling
  <2>3. QED
    BY <1>1, <1>6, <2>2, TasksLaunched DEF Idling, IdlingStage, Modes
<1>7. CASE /\ Bare(evtQ) /\ Sound /\ NoneEngaging /\ FallbackOut /\ IdleOnly
           /\ confirmed \subseteq confirmation
           /\ \/ Polling("idle")
              \/ launcher = [at |-> "waitIdle", mode |-> "idle"] /\ confirmed = ModeTasks.idle
  <2>1. engageFlag \subseteq EngageRequest["idle"] /\ disengageFlag = {}
    BY <1>7, FlagsIn, Requests DEF Modes
  <2>2. engageFlag \cap {"deploy", "execute"} = {}
    BY <2>1, Requests DEF Modes
  <2>3. ExecuteOut' /\ NoneEngaging' /\ IdleOnly' /\ confirmed' \subseteq confirmation'
    BY <1>1, <1>7, <2>1, <2>2, TasksSound, IdleStays DEF Idling
  <2>4. QED
    BY <1>1, <1>2, <1>7, <2>3, TasksLaunched DEF Idling, IdlingStage, Modes
<1>8. CASE Bare(evtQ) /\ Overtaken
  BY <1>1, <1>8, TasksLaunched, TasksSound DEF Idling, IdlingStage
<1>9. CASE One(evtQ, "fbset") /\ launcher.at = "idle" /\ confirmed = ModeTasks.idle
  BY <1>1, <1>3, <1>9, TasksSound DEF Idling, IdlingStage
<1>10. CASE One(evtQ, "fbset") /\ Resting /\ confirmed = ModeTasks.fallback
  BY <1>1, <1>2, <1>3, <1>10, TasksSound DEF Idling, IdlingStage, Resting
<1>11. CASE One(evtQ, "idset") /\ Quiet("idle") /\ FallbackOut
  BY <1>1, <1>2, <1>3, <1>11, TasksSound DEF Idling, IdlingStage, Quiet, Resting
<1>12. QED
  BY <1>4, <1>5, <1>6, <1>7, <1>8, <1>9, <1>10, <1>11 DEF Idling, IdlingStage

\* The tasks disengage.
LEMMA TaskLeaving ==
  ASSUME TypeOK, FlagsOfLaunch, disengageFlag \cap ctl.run = {}, NEW t \in Tasks, Task(t),
         Leaving
  PROVE  Leaving'
<1>1. UNCHANGED <<masterState, evtQ, ctl, confirmed, launcher>>
  BY TaskKeeps
<1>2. Sound'
  BY TasksSound DEF Leaving
<1>3. launcher.at = "idle" \/ Polling("none") => engageFlag = {}
  BY FlagsIn, Requests DEF Modes
<1>4. masterState = "idset" => launcher.at = "idle" \/ Polling("none")
  BY DEF Leaving, LeavingStage, Resting, Quiet
<1>5. masterState' = "idset" => IdleOnly'
  BY <1>1, <1>3, <1>4, IdleStays DEF Leaving
<1>6. ASSUME /\ Bare(evtQ) \/ (One(evtQ, "fbset") /\ masterState # "idset")
             /\ \/ Resting
                \/ launcher.at = "idle" /\ confirmed = {} /\ masterState # "idset"
      PROVE  LeavingStage'
  BY <1>1, <1>6, TasksRest DEF LeavingStage
<1>7. ASSUME /\ Bare(evtQ) \/ (One(evtQ, "fbset") /\ masterState # "idset")
             /\ Polling("none") /\ confirmation \subseteq confirmed /\ NoneEngaging
      PROVE  LeavingStage'
  <2>1. Polling("none")' /\ NoneEngaging'
    BY <1>3, <1>7, TasksSound, TasksLaunched DEF Modes
  <2>2. confirmation' \subseteq confirmation
    <3>1. confirmation' \subseteq Tasks
      BY TaskType DEF TypeOK
    <3>2. QED BY <1>3, <1>7, <3>1, WhoConfirms DEF NoneEngaging
  <2>3. QED BY <1>1, <1>7, <2>1, <2>2 DEF LeavingStage
<1>8. ASSUME Bare(evtQ) /\ Overtaken /\ masterState # "idset"
      PROVE  LeavingStage'
  BY <1>1, <1>8, TasksLaunched DEF LeavingStage
<1>9. ASSUME /\ One(evtQ, "diseng") \/ (Two(evtQ, "fbset", "diseng") /\ masterState # "idset")
             /\ Quiet("none")
      PROVE  LeavingStage'
  BY <1>1, <1>9, TasksRest DEF LeavingStage
<1>10. LeavingStage'
  BY <1>6, <1>7, <1>8, <1>9 DEF Leaving, LeavingStage
<1>11. QED BY <1>1, <1>2, <1>5, <1>10 DEF Leaving

\* A step of a task in any phase.
LEMMA TaskPhase ==
  ASSUME TypeOK, FlagsOfLaunch, SlowTasks, Rules, Phase, NEW t \in Tasks, Task(t)
  PROVE  FlagsOfLaunch' /\ SlowTasks' /\ Rules' /\ Phase'
<1>1. /\ UNCHANGED <<masterState, evtQ, ctl, confirmed, launcher>>
      /\ engageFlag' \subseteq engageFlag /\ disengageFlag' \subseteq disengageFlag
  BY TaskKeeps
<1>2. FlagsOfLaunch'
  BY <1>1 DEF FlagsOfLaunch
<1>3. SlowTasks'
  BY WhereTo DEF SlowTasks
<1>4. Apart'
  BY <1>1, WhereTo, ModeFacts DEF Rules, Apart, OneDriver
<1>5. ctl.update => disengageFlag \cap ctl.run = {}
  BY FlagsIn DEF Rules, Updating, Quiet, Resting
<1>6. RegistersInRegis' /\ Updating'
  BY <1>1, <1>5, TasksRest DEF Rules, RegistersInRegis, Updating
<1>7. Phase'
  <2>1. CASE masterState = "error"
    BY <1>1, <2>1 DEF Phase
  <2>2. CASE masterState # "error"
    <3>1. disengageFlag \cap ctl.run = {}
      BY <2>2, NoneRunsReleased
    <3>2. CASE InFlash \/ AtRest \/ Registering \/ Running \/ Idle
      BY <1>1, <3>1, <3>2, TasksRest, TasksSound
         DEF Phase, InFlash, AtRest, Registering, Running, Idle
    <3>3. CASE Engaging \/ FallingBack \/ Fallback \/ Idling \/ Leaving
      BY <3>1, <3>3, TaskEngaging, TaskFallingBack, TaskFallback, TaskIdling, TaskLeaving
         DEF Phase
    <3>4. QED BY <2>2, <3>2, <3>3 DEF Phase
  <2>3. QED BY <2>1, <2>2
<1>8. QED BY <1>2, <1>3, <1>4, <1>6, <1>7 DEF Rules

-----------------------------------------------------------------------------
(* The phases under a step of the launcher.                                *)

\* The launcher leaves the state machine and the tasks alone.
LEMMA LauncherKeeps ==
  ASSUME Launcher
  PROVE  /\ UNCHANGED <<masterState, ctl, regAhead, regAt, confirmation, at>>
         /\ \A t : Live(t)' = Live(t)
         /\ Sound' = Sound /\ NoneEngaging' = NoneEngaging
         /\ FallbackOut' = FallbackOut /\ ExecuteOut' = ExecuteOut
<1>1. UNCHANGED <<masterState, ctl, regAhead, regAt, confirmation, at>>
  BY DEF Launcher, launcher_task, launch_start, updateCurrent, launch_outcome,
         launch_idle_wait, LauncherUnchanged, envv
<1>2. \A t : Live(t)' = Live(t)
  BY <1>1 DEF Live
<1>3. QED BY <1>1, <1>2 DEF Sound, NoneEngaging, FallbackOut, ExecuteOut

\* It raises the flags of its launch, and takes them back with it.
LEMMA LauncherFlags ==
  ASSUME TypeOK, FlagsOfLaunch, Launcher
  PROVE  FlagsOfLaunch'
<1> USE DEF FlagsOfLaunch, Request, Withdraw
<1>1. launcher.mode \in Modes /\ ctl.desired \in Modes
      /\ launcher \in [at : {"idle", "wait", "poll", "waitIdle"}, mode : Modes]
  BY DEF TypeOK, CtlType
<1>2. CASE launcher_task BY <1>1, <1>2 DEF launcher_task
<1>3. CASE launch_start BY <1>1, <1>3 DEF launch_start
<1>4. CASE updateCurrent BY <1>1, <1>4 DEF updateCurrent
<1>5. CASE launch_outcome BY <1>1, <1>5 DEF launch_outcome
<1>6. CASE launch_idle_wait BY <1>1, <1>6 DEF launch_idle_wait
<1>7. QED BY <1>2, <1>3, <1>4, <1>5, <1>6 DEF Launcher

\* A launcher at rest leaves for the mode desired if its tasks are not confirmed.
LEMMA RestStep ==
  ASSUME launcher.at = "idle", Launcher
  PROVE  /\ ctl.launcher /\ ModeTasks[ctl.desired] # confirmed
         /\ confirmed' = confirmed /\ evtQ' = evtQ
         /\ IF ctl.desired \in {"none", "idle"}
              THEN Polling(ctl.desired)'
              ELSE Waiting(ctl.desired)'
<1>1. launcher_task
  BY DEF Launcher, launch_start, updateCurrent, launch_outcome, launch_idle_wait
<1>2. QED
  BY <1>1, LauncherKeeps DEF launcher_task, Polling, Waiting

\* A launcher with nothing to launch takes no step.
LEMMA QuietStep ==
  ASSUME NEW m, Quiet(m), Launcher
  PROVE  FALSE
BY RestStep DEF Quiet, Resting

\* One that waits for the network starts to poll.
LEMMA WaitStep ==
  ASSUME NEW m, Waiting(m), Launcher
  PROVE  Polling(m)' /\ confirmed' = confirmed /\ evtQ' = evtQ
BY DEF Launcher, launcher_task, launch_start, updateCurrent, launch_outcome,
       launch_idle_wait, Polling, Waiting

\* One that polls reads the confirmations until they are those of the mode desired.
LEMMA PollStep ==
  ASSUME NEW m, Polling(m), Launcher
  PROVE  \/ /\ ModeTasks[ctl.desired] # confirmed /\ confirmed' = confirmation
            /\ launcher' = launcher /\ evtQ' = evtQ
         \/ /\ ModeTasks[ctl.desired] = confirmed /\ confirmed' = confirmed
            /\ \/ /\ m # "idle" /\ launcher' = [at |-> "idle", mode |-> m]
                  /\ evtQ' = Append(evtQ, Outcome[m])
               \/ /\ m = "idle" /\ launcher' = [at |-> "waitIdle", mode |-> m]
                  /\ evtQ' = evtQ
BY DEF Launcher, launcher_task, launch_start, updateCurrent, launch_outcome,
       launch_idle_wait, Polling, Queue

\* And launch_idle waits for the network once more.
LEMMA WaitIdleStep ==
  ASSUME launcher = [at |-> "waitIdle", mode |-> "idle"], Launcher
  PROVE  /\ confirmed' = confirmed /\ launcher' = [at |-> "idle", mode |-> "idle"]
         /\ evtQ' = Append(evtQ, "idset")
BY DEF Launcher, launcher_task, launch_start, updateCurrent, launch_outcome,
       launch_idle_wait, Queue, Outcome

\* The events that answer a launch.
LEMMA Outcomes ==
  Outcome["none"] = "diseng" /\ Outcome["running"] = "engaged" /\ Outcome["fallback"] = "fbset"
BY DEF Outcome

\* A launch of fallback ends with just the tasks of fallback confirmed.
LEMMA LaunchFallback ==
  ASSUME TypeOK, SlowTasks, ctl.desired = "fallback", LaunchingFallback, Launcher
  PROVE  \/ LaunchingFallback' /\ evtQ' = evtQ /\ launcher'.at # "idle"
         \/ Quiet("fallback")' /\ evtQ' = Append(evtQ, "fbset")
<1>1. CASE Resting
  <2>1. Waiting("fallback")' /\ Rested' /\ evtQ' = evtQ
    BY <1>1, RestStep, LauncherKeeps DEF Resting, Rested
  <2>2. QED BY <2>1 DEF LaunchingFallback, Waiting
<1>2. CASE Waiting("fallback") /\ Rested
  <2>1. Polling("fallback")' /\ confirmed' = confirmed /\ evtQ' = evtQ
    BY <1>2, WaitStep
  <2>2. LaunchingFallback'
    BY <1>2, <2>1, LauncherKeeps, ModeFacts
       DEF LaunchingFallback, Rested, Live, Sound, NoneEngaging
  <2>3. QED BY <2>1, <2>2 DEF Polling
<1>3. CASE /\ Polling("fallback") /\ Sound
           /\ confirmed \ {"execute"} \subseteq confirmation
           /\ Live("execute") => "execute" \in confirmed
           /\ at["execute"] = "engage" => "execute" \in confirmation
  <2>1. CASE confirmed' = confirmation /\ launcher' = launcher /\ evtQ' = evtQ
    <3>1. Polling("fallback")' /\ Sound'
      BY <1>3, <2>1, LauncherKeeps DEF Polling
    <3>2. Live("execute")' => "execute" \in confirmed'
      BY <1>3, <2>1, LauncherKeeps, ModeFacts DEF Live, Sound
    <3>3. LaunchingFallback'
      BY <1>3, <2>1, <3>1, <3>2, LauncherKeeps DEF LaunchingFallback
    <3>4. QED BY <2>1, <3>1, <3>3 DEF Polling
  <2>2. CASE /\ ModeTasks["fallback"] = confirmed /\ confirmed' = confirmed
             /\ launcher' = [at |-> "idle", mode |-> "fallback"]
             /\ evtQ' = Append(evtQ, "fbset")
    <3>1. ~Live("execute") /\ {"deploy", "execute"} \cap confirmation = {"deploy"}
      BY <1>3, <2>2, ModeFacts DEF Live
    <3>2. confirmation = confirmed
      <4>1. "execute" \notin confirmed /\ confirmed \subseteq confirmation
        BY <1>3, <2>2, AllButOne
      <4>2. confirmation \subseteq Tasks \ {"execute"}
        BY <3>1 DEF TypeOK
      <4>3. QED BY <2>2, <4>1, <4>2, AllButOne
    <3>3. NoneEngaging
      BY <1>3, <3>1 DEF SlowTasks, NoneEngaging
    <3>4. Quiet("fallback")'
      BY <1>3, <2>2, <3>2, <3>3, LauncherKeeps DEF Quiet, Resting, Rested
    <3>5. QED BY <2>2, <3>4
  <2>3. QED BY <1>3, <2>1, <2>2, PollStep, Outcomes
<1>4. QED BY <1>1, <1>2, <1>3 DEF LaunchingFallback

\* A launch of running ends with just the tasks of running confirmed.
LEMMA LaunchRunning ==
  ASSUME TypeOK, SlowTasks, ctl.desired = "running", LaunchingRunning, Launcher
  PROVE  \/ LaunchingRunning' /\ evtQ' = evtQ
         \/ Quiet("running")' /\ evtQ' = Append(evtQ, "engaged")
<1>1. CASE Resting
  <2>1. Waiting("running")' /\ Rested' /\ evtQ' = evtQ
    BY <1>1, RestStep, LauncherKeeps DEF Resting, Rested
  <2>2. QED BY <2>1 DEF LaunchingRunning
<1>2. CASE Waiting("running") /\ Rested
  <2>1. Polling("running")' /\ confirmed' = confirmed /\ evtQ' = evtQ
    BY <1>2, WaitStep
  <2>2. LaunchingRunning'
    BY <1>2, <2>1, LauncherKeeps, ModeFacts
       DEF LaunchingRunning, Rested, Live, Sound, NoneEngaging
  <2>3. QED BY <2>1, <2>2
<1>3. CASE /\ Polling("running") /\ Sound
           /\ confirmed \ {"fallback"} \subseteq confirmation
           /\ Live("fallback") => "fallback" \in confirmed
  <2>1. CASE confirmed' = confirmation /\ launcher' = launcher /\ evtQ' = evtQ
    <3>1. Polling("running")' /\ Sound'
      BY <1>3, <2>1, LauncherKeeps DEF Polling
    <3>2. Live("fallback")' => "fallback" \in confirmed'
      BY <1>3, <2>1, LauncherKeeps, ModeFacts DEF Live, Sound, SlowTasks
    <3>3. QED BY <1>3, <2>1, <3>1, <3>2, LauncherKeeps DEF LaunchingRunning
  <2>2. CASE /\ ModeTasks["running"] = confirmed /\ confirmed' = confirmed
             /\ launcher' = [at |-> "idle", mode |-> "running"]
             /\ evtQ' = Append(evtQ, "engaged")
    <3>1. ~Live("fallback") /\ {"deploy", "execute"} \subseteq confirmation
      BY <1>3, <2>2, ModeFacts DEF Live
    <3>2. confirmation = confirmed
      <4>1. "fallback" \notin confirmed /\ confirmed \subseteq confirmation
        BY <1>3, <2>2, AllButOne
      <4>2. confirmation \subseteq Tasks \ {"fallback"}
        BY <3>1 DEF TypeOK, Live
      <4>3. QED BY <2>2, <4>1, <4>2, AllButOne
    <3>3. NoneEngaging
      BY <3>1 DEF SlowTasks, NoneEngaging
    <3>4. Quiet("running")'
      BY <1>3, <2>2, <3>2, <3>3, LauncherKeeps DEF Quiet, Resting, Rested
    <3>5. QED BY <2>2, <3>4
  <2>3. QED BY <1>3, <2>1, <2>2, PollStep, Outcomes
<1>4. QED BY <1>1, <1>2, <1>3 DEF LaunchingRunning

\* An overtaken launch queues fbset when the tasks have confirmed the mode desired.
LEMMA LaunchOvertaken ==
  ASSUME TypeOK, Overtaken, Launcher
  PROVE  \/ Overtaken' /\ evtQ' = evtQ /\ confirmed' \in {confirmed, confirmation}
         \/ /\ confirmed' = confirmed /\ confirmed = ModeTasks[ctl.desired]
            /\ launcher'.at = "idle" /\ evtQ' = Append(evtQ, "fbset")
<1>1. CASE Waiting("fallback")
  BY <1>1, WaitStep DEF Overtaken
<1>2. CASE Polling("fallback")
  BY <1>2, PollStep, Outcomes DEF Overtaken, Polling
<1>3. QED BY <1>1, <1>2 DEF Overtaken

\* The answer comes behind what is queued.
LEMMA AnswerBehind ==
  ASSUME TypeOK, NEW a, evtQ' = Append(evtQ, a)
  PROVE  /\ Bare(evtQ) => One(evtQ', a)
         /\ \A e : One(evtQ, e) => Two(evtQ', e, a)
BY AnswerQueued DEF TypeOK

\* The launch of running, or one overtaken by it.
LEMMA LauncherEngaging ==
  ASSUME TypeOK, SlowTasks, Launcher, Engaging
  PROVE  Engaging'
<1>1. /\ UNCHANGED <<masterState, ctl>> /\ Sound' /\ FallbackOut'
      /\ ctl.desired = "running"
  BY LauncherKeeps DEF Engaging
<1>2. ASSUME Bare(evtQ) \/ One(evtQ, "fbset"), LaunchingRunning
      PROVE  EngagingStage'
  BY <1>1, <1>2, LaunchRunning, AnswerBehind DEF EngagingStage
<1>3. ASSUME Bare(evtQ), Overtaken, ~Live("execute"), "execute" \notin confirmed
      PROVE  EngagingStage'
  <2>1. "execute" \notin confirmation /\ ~Live("execute")'
    BY <1>3, LauncherKeeps DEF Live
  <2>2. Overtaken' /\ evtQ' = evtQ /\ confirmed' \in {confirmed, confirmation}
    BY <1>1, <1>3, LaunchOvertaken, ModeFacts
  <2>3. QED BY <1>3, <2>1, <2>2 DEF EngagingStage
<1>4. EngagingStage'
  BY <1>2, <1>3, QuietStep DEF Engaging, EngagingStage
<1>5. QED BY <1>1, <1>4 DEF Engaging

\* The launch of fallback, or a disengagement overtaken by it.
LEMMA LauncherFallingBack ==
  ASSUME TypeOK, SlowTasks, Launcher, FallingBack
  PROVE  FallingBack'
<1>1. UNCHANGED <<masterState, ctl>> /\ FallbackOut' /\ ctl.desired = "fallback"
  BY LauncherKeeps DEF FallingBack
<1>2. ASSUME Bare(evtQ), LaunchingFallback
      PROVE  FallingBackStage'
  BY <1>1, <1>2, LaunchFallback, AnswerBehind DEF FallingBackStage
<1>3. ASSUME NEW e \in Late, One(evtQ, e), ExecuteOut, "execute" \notin confirmed,
             LaunchingFallback
      PROVE  FallingBackStage'
  <2>1. CASE LaunchingFallback' /\ evtQ' = evtQ /\ launcher'.at # "idle"
    <3>1. "execute" \notin confirmation /\ ExecuteOut'
      BY <1>3, LauncherKeeps DEF ExecuteOut, Live
    <3>2. confirmed' \in {confirmed, confirmation}
      BY <1>3, RestStep, WaitStep, PollStep DEF LaunchingFallback, Resting
    <3>3. QED BY <1>3, <2>1, <3>1, <3>2 DEF FallingBackStage
  <2>2. CASE Quiet("fallback")' /\ evtQ' = Append(evtQ, "fbset")
    BY <1>3, <2>2, AnswerBehind DEF FallingBackStage
  <2>3. QED BY <1>1, <1>3, <2>1, <2>2, LaunchFallback
<1>4. ASSUME Bare(evtQ), Polling("none"), Sound, ExecuteOut, ctl.run = {},
             ~Live("deploy"), "deploy" \notin confirmed
      PROVE  FallingBackStage'
  <2>1. confirmed' = confirmation /\ Polling("none")' /\ evtQ' = evtQ
    BY <1>1, <1>4, PollStep, ModeFacts DEF Polling
  <2>2. "deploy" \notin confirmed' /\ ~Live("deploy")' /\ ExecuteOut' /\ Sound'
    BY <1>4, <2>1, LauncherKeeps DEF Live
  <2>3. QED BY <1>1, <1>4, <2>1, <2>2 DEF FallingBackStage
<1>5. FallingBackStage'
  BY <1>2, <1>3, <1>4, QuietStep DEF FallingBack, FallingBackStage
<1>6. QED BY <1>1, <1>5 DEF FallingBack

\* The launch of fallback once more.
LEMMA LauncherFallback ==
  ASSUME TypeOK, SlowTasks, Launcher, Fallback
  PROVE  Fallback'
<1>1. UNCHANGED <<masterState, ctl>> /\ ExecuteOut' /\ ctl.desired = "fallback"
  BY LauncherKeeps DEF Fallback
<1>2. Bare(evtQ) /\ LaunchingFallback
  BY QuietStep DEF Fallback, FallbackStage
<1>3. FallbackStage'
  BY <1>1, <1>2, LaunchFallback, AnswerBehind DEF FallbackStage
<1>4. QED BY <1>1, <1>3 DEF Fallback

\* Where none but the tasks of idle is live, idle may be what is confirmed.
LEMMA IdleRead ==
  ASSUME TypeOK, IdleOnly, Launcher
  PROVE  /\ confirmation \subseteq ModeTasks["idle"]
         /\ confirmed' \in {confirmed, confirmation} => IdleOnly'
<1>1. {"deploy", "execute", "fallback"} \cap confirmation = {}
  BY DEF IdleOnly, Live
<1>2. confirmation \subseteq ModeTasks["idle"]
  BY <1>1, ModeFacts DEF TypeOK
<1>3. confirmed' \in {confirmed, confirmation} => IdleOnly'
  BY <1>2, LauncherKeeps DEF IdleOnly
<1>4. QED BY <1>2, <1>3

\* The launch of idle, or one overtaken by it.
LEMMA LauncherIdling ==
  ASSUME TypeOK, SlowTasks, Launcher, Idling
  PROVE  Idling'
<1>1. /\ UNCHANGED <<masterState, ctl, confirmation>> /\ ExecuteOut'
      /\ ctl.desired = "idle"
      /\ Sound' = Sound /\ NoneEngaging' = NoneEngaging /\ FallbackOut' = FallbackOut
  BY LauncherKeeps DEF Idling
<1>2. ASSUME Bare(evtQ), Resting, FallbackOut, IdleOnly
      PROVE  IdlingStage'
  <2>1. Polling("idle")' /\ confirmed' = confirmed /\ evtQ' = evtQ
    BY <1>1, <1>2, RestStep DEF Resting
  <2>2. QED
    BY <1>1, <1>2, <2>1, IdleRead DEF IdlingStage, Resting, Rested
<1>3. ASSUME Bare(evtQ) \/ One(evtQ, "fbset"),
             Polling("idle"), "deploy" \in confirmed \cap confirmation
      PROVE  IdlingStage'
  <2>1. confirmed' = confirmation /\ launcher' = launcher /\ evtQ' = evtQ
    BY <1>1, <1>3, PollStep, ModeFacts
  <2>2. QED BY <1>1, <1>3, <2>1 DEF IdlingStage, Polling
<1>4. ASSUME Bare(evtQ), Sound, NoneEngaging, FallbackOut, IdleOnly,
             confirmed \subseteq confirmation, Polling("idle")
      PROVE  IdlingStage'
  <2>1. \/ confirmed' = confirmation /\ launcher' = launcher /\ evtQ' = evtQ
        \/ /\ ModeTasks["idle"] = confirmed /\ confirmed' = confirmed
           /\ launcher' = [at |-> "waitIdle", mode |-> "idle"] /\ evtQ' = evtQ
    BY <1>1, <1>4, PollStep
  <2>2. IdleOnly' /\ confirmed' \subseteq confirmation'
    BY <1>1, <1>4, <2>1, IdleRead
  <2>3. QED BY <1>1, <1>4, <2>1, <2>2 DEF IdlingStage, Polling
<1>5. ASSUME Bare(evtQ), Sound, NoneEngaging, FallbackOut, IdleOnly,
             confirmed \subseteq confirmation, confirmed = ModeTasks.idle,
             launcher = [at |-> "waitIdle", mode |-> "idle"]
      PROVE  IdlingStage'
  <2>1. /\ confirmed' = confirmed /\ launcher' = [at |-> "idle", mode |-> "idle"]
        /\ evtQ' = Append(evtQ, "idset")
    BY <1>5, WaitIdleStep
  <2>2. confirmation = confirmed
    BY <1>5, IdleRead
  <2>3. Quiet("idle")' /\ One(evtQ', "idset")
    BY <1>1, <1>5, <2>1, <2>2, AnswerBehind DEF Quiet, Resting, Rested
  <2>4. QED BY <1>1, <1>5, <2>3 DEF IdlingStage
<1>6. ASSUME Bare(evtQ), Overtaken
      PROVE  IdlingStage'
  BY <1>1, <1>6, LaunchOvertaken, AnswerBehind DEF IdlingStage
<1>7. ASSUME One(evtQ, "fbset"), Resting, confirmed = ModeTasks.fallback
      PROVE  IdlingStage'
  <2>1. Polling("idle")' /\ confirmed' = confirmed /\ evtQ' = evtQ
    BY <1>1, <1>7, RestStep DEF Resting
  <2>2. "deploy" \in confirmed' \cap confirmation'
    BY <1>1, <1>7, <2>1, ModeFacts DEF Resting, Rested
  <2>3. QED BY <1>7, <2>1, <2>2 DEF IdlingStage
<1>8. IdlingStage'
  BY <1>1, <1>2, <1>3, <1>4, <1>5, <1>6, <1>7, QuietStep, RestStep
     DEF Idling, IdlingStage
<1>9. QED BY <1>1, <1>8 DEF Idling

\* The disengagement, or a launch overtaken by it.
LEMMA LauncherLeaving ==
  ASSUME TypeOK, SlowTasks, Launcher, Leaving
  PROVE  Leaving'
<1>1. /\ UNCHANGED <<masterState, ctl, confirmation>> /\ Sound' /\ Sound
      /\ ctl.desired = "none" /\ NoneEngaging' = NoneEngaging
  BY LauncherKeeps DEF Leaving
<1>2. ASSUME Bare(evtQ) \/ (One(evtQ, "fbset") /\ masterState # "idset"), Resting
      PROVE  LeavingStage' /\ confirmed' \in {confirmed, confirmation}
  <2>1. Polling("none")' /\ confirmed' = confirmed /\ evtQ' = evtQ
    BY <1>1, <1>2, RestStep DEF Resting
  <2>2. QED BY <1>1, <1>2, <2>1 DEF LeavingStage, Resting, Rested
<1>3. ASSUME Bare(evtQ) \/ (One(evtQ, "fbset") /\ masterState # "idset"),
             Polling("none"), confirmation \subseteq confirmed, NoneEngaging
      PROVE  LeavingStage' /\ confirmed' \in {confirmed, confirmation}
  <2>1. CASE confirmed' = confirmation /\ launcher' = launcher /\ evtQ' = evtQ
    BY <1>1, <1>3, <2>1 DEF LeavingStage, Polling
  <2>2. CASE /\ ModeTasks["none"] = confirmed /\ confirmed' = confirmed
             /\ launcher' = [at |-> "idle", mode |-> "none"]
             /\ evtQ' = Append(evtQ, "diseng")
    <3>1. confirmed = {} /\ confirmation = {}
      BY <1>3, <2>2, ModeFacts
    <3>2. Quiet("none")'
      BY <1>1, <1>3, <2>2, <3>1 DEF Quiet, Resting, Rested
    <3>3. One(evtQ', "diseng") \/ (Two(evtQ', "fbset", "diseng") /\ masterState' # "idset")
      BY <1>1, <1>3, <2>2, AnswerBehind
    <3>4. QED BY <2>2, <3>2, <3>3 DEF LeavingStage
  <2>3. QED BY <1>1, <1>3, <2>1, <2>2, PollStep, Outcomes
<1>4. ASSUME Bare(evtQ), Overtaken, masterState # "idset"
      PROVE  LeavingStage'
  BY <1>1, <1>4, LaunchOvertaken, AnswerBehind, ModeFacts DEF LeavingStage
<1>5. ~(launcher.at = "idle" /\ confirmed = {}) /\ ~Quiet("none")
  BY <1>1, RestStep, QuietStep, ModeFacts
<1>6. LeavingStage'
  BY <1>2, <1>3, <1>4, <1>5 DEF Leaving, LeavingStage
<1>7. masterState = "idset" => confirmed' \in {confirmed, confirmation}
  BY <1>2, <1>3, <1>5 DEF Leaving, LeavingStage
<1>8. masterState' = "idset" => IdleOnly'
  BY <1>1, <1>7, IdleRead DEF Leaving
<1>9. QED BY <1>1, <1>6, <1>8 DEF Leaving

\* A step of the launcher in any phase.
LEMMA LauncherPhase ==
  ASSUME TypeOK, SlowTasks, Rules, Phase, Launcher
  PROVE  SlowTasks' /\ Rules' /\ Phase'
<1>1. UNCHANGED <<masterState, ctl, at>>
  BY LauncherKeeps
<1>2. SlowTasks' /\ RegistersInRegis' /\ Apart'
  BY <1>1 DEF SlowTasks, Rules, RegistersInRegis, Apart, OneDriver
<1>3. Updating'
  BY <1>1, QuietStep DEF Rules, Updating
<1>4. Phase'
  BY <1>1, LauncherEngaging, LauncherFallingBack, LauncherFallback, LauncherIdling,
     LauncherLeaving, QuietStep
     DEF Phase, InFlash, AtRest, Registering, Running, Idle
<1>5. QED BY <1>2, <1>3, <1>4 DEF Rules

-----------------------------------------------------------------------------
(* The phases under every other step.                                      *)

\* What neither moves a task nor the launcher nor the state machine, and queues an
\* order at most, keeps the phase.
LEMMA OutsidePhase ==
  ASSUME TypeOK, FlagsOfLaunch, SlowTasks, Rules, Phase,
         UNCHANGED <<masterState, ctl, engageFlag, disengageFlag, confirmation, confirmed,
                     at, launcher>>,
         evtQ' = evtQ \/ \E o \in Orders : Queue(o)
  PROVE  FlagsOfLaunch' /\ SlowTasks' /\ Rules' /\ Phase'
<1>1. /\ Bare(evtQ) => Bare(evtQ')
      /\ \A e : One(evtQ, e) => One(evtQ', e)
      /\ \A e, f : Two(evtQ, e, f) => Two(evtQ', e, f)
  <2>1. CASE evtQ' = evtQ
    BY <2>1
  <2>2. ASSUME NEW o \in Orders, evtQ' = Append(evtQ, o)
        PROVE  /\ Bare(evtQ) => Bare(evtQ')
               /\ \A e : One(evtQ, e) => One(evtQ', e)
               /\ \A e, f : Two(evtQ, e, f) => Two(evtQ', e, f)
    <3>1. evtQ \in Seq(MEvents)
      BY DEF TypeOK
    <3>2. QED BY <2>2, <3>1, OrderQueued
  <2>3. QED BY <2>1, <2>2 DEF Queue
<1>2. evtQ # <<>> => evtQ' # <<>> /\ Head(evtQ') = Head(evtQ)
  BY AppendProperties DEF Queue, TypeOK
<1>3. /\ \A t : Live(t)' = Live(t)
      /\ Sound' = Sound /\ NoneEngaging' = NoneEngaging /\ Rested' = Rested
      /\ Resting' = Resting /\ FallbackOut' = FallbackOut /\ ExecuteOut' = ExecuteOut
      /\ \A m : Quiet(m)' = Quiet(m) /\ Polling(m)' = Polling(m) /\ Waiting(m)' = Waiting(m)
  BY DEF Live, Sound, NoneEngaging, Rested, Resting, FallbackOut, ExecuteOut, Quiet,
         Polling, Waiting
<1>4. /\ LaunchingFallback' = LaunchingFallback /\ LaunchingRunning' = LaunchingRunning
      /\ Overtaken' = Overtaken /\ IdleOnly' = IdleOnly
  BY <1>3 DEF LaunchingFallback, LaunchingRunning, Overtaken, IdleOnly
<1>5. FlagsOfLaunch' /\ SlowTasks' /\ Rules'
  BY <1>3 DEF FlagsOfLaunch, SlowTasks, Rules, RegistersInRegis, Apart, OneDriver, Updating
<1>6. InFlash => InFlash'
  BY <1>1, <1>2, <1>3 DEF InFlash
<1>7. /\ AtRest => AtRest'
      /\ Registering => Registering'
      /\ Running => Running'
      /\ Idle => Idle'
  BY <1>1, <1>3 DEF AtRest, Registering, Running, Idle
<1>8. Engaging => Engaging'
  BY <1>1, <1>3, <1>4 DEF Engaging, EngagingStage
<1>9. FallingBack => FallingBack'
  BY <1>1, <1>3, <1>4 DEF FallingBack, FallingBackStage
<1>10. Fallback => Fallback'
  BY <1>1, <1>3, <1>4 DEF Fallback, FallbackStage
<1>11. Idling => Idling'
  BY <1>1, <1>3, <1>4 DEF Idling, IdlingStage
<1>12. Leaving => Leaving'
  BY <1>1, <1>3, <1>4 DEF Leaving, LeavingStage
<1>13. Phase'
  BY <1>6, <1>7, <1>8, <1>9, <1>10, <1>11, <1>12 DEF Phase
<1>14. QED BY <1>5, <1>13

\* Registration queues its event where nothing of its own is queued.
LEMMA PublishPhase ==
  ASSUME TypeOK, PhaseInv, check_publish
  PROVE  FlagsOfLaunch' /\ SlowTasks' /\ Rules' /\ Phase'
<1>1. UNCHANGED <<masterState, ctl, engageFlag, disengageFlag, confirmation, confirmed,
                  at, launcher>>
  BY DEF check_publish, task, lnch
<1>2. evtQ' = Append(evtQ, StartEvent) /\ StartEvent \in {"crtld", "idtrg", "trgfb"}
  BY DEF check_publish, Queue, StartEvent
<1>3. CASE StartEvent = "trgfb"
  BY <1>1, <1>2, <1>3, OutsidePhase DEF PhaseInv, Orders, Queue
<1>4. CASE StartEvent \in {"crtld", "idtrg"}
  <2>1. FlagsOfLaunch' /\ SlowTasks' /\ Quiet("none")' = Quiet("none")
    BY <1>1 DEF PhaseInv, FlagsOfLaunch, SlowTasks, Quiet, Resting, Rested, Sound, NoneEngaging
  <2>2. Rules'
    BY <1>1, <2>1 DEF PhaseInv, Rules, RegistersInRegis, Apart, OneDriver, Updating
  <2>3. ctl.registration /\ \A i \in DOMAIN evtQ : evtQ[i] \notin {"crtld", "idtrg"}
    BY DEF PhaseInv, OneRegistration, check_publish, TypeOK
  <2>4. CASE masterState = "error"
    BY <1>1, <2>1, <2>2, <2>4 DEF Phase
  <2>5. CASE masterState # "error"
    <3>1. masterState = "regis" /\ Registering
      BY <2>3, <2>5 DEF PhaseInv, Rules, RegistersInRegis, Phase, InFlash, AtRest,
         Engaging, Running, FallingBack, Fallback, Idling, Idle, Leaving
    <3>2. Bare(evtQ)
      BY <2>3, <3>1 DEF Registering, One
    <3>3. One(evtQ', "crtld") \/ One(evtQ', "idtrg")
      BY <1>2, <1>4, <3>2, AnswerBehind
    <3>4. QED
      BY <1>1, <2>1, <2>2, <3>1, <3>3 DEF Registering, Phase
  <2>6. QED BY <2>4, <2>5
<1>5. QED BY <1>2, <1>3, <1>4

\* The RAM at power-up.
Fresh == /\ masterState = PowerUp.masterState /\ evtQ = PowerUp.evtQ /\ ctl = PowerUp.ctl
         /\ engageFlag = {} /\ disengageFlag = {} /\ confirmation = {} /\ confirmed = {}
         /\ launcher = PowerUp.launcher /\ at = PowerUp.at /\ regAt = "asleep"

\* The hub begins in the first phase.
LEMMA PowerUpPhase ==
  ASSUME Fresh
  PROVE  PhaseInv
<1>1. /\ masterState = "flash" /\ evtQ = <<"flashOk">>
      /\ ctl.run = {} /\ ctl.desired = "none" /\ ~ctl.update /\ ~ctl.registration
      /\ launcher = [at |-> "idle", mode |-> "none"] /\ at = [t \in Tasks |-> "top"]
  BY DEF Fresh, PowerUp
<1>2. FlagsOfLaunch /\ SlowTasks /\ Quiet("none")
  BY <1>1, ModeFacts
     DEF Fresh, FlagsOfLaunch, SlowTasks, Quiet, Resting, Rested, Sound, NoneEngaging
<1>3. OneRegistration
  BY <1>1 DEF Fresh, OneRegistration
<1>4. Rules
  BY <1>1, ModeFacts DEF Rules, RegistersInRegis, Apart, OneDriver, Updating
<1>5. Bare(evtQ) /\ evtQ # <<>> /\ Head(evtQ) = "flashOk"
  BY <1>1 DEF Bare, Orders
<1>6. QED BY <1>1, <1>2, <1>3, <1>4, <1>5 DEF PhaseInv, Phase, InFlash

\* Where the queue gains no event of registration, it stays in its place.
LEMMA StillOneRegistration ==
  ASSUME TypeOK, OneRegistration, UNCHANGED <<ctl, regAt, regAhead>>,
         evtQ' = evtQ \/ \E e \in MEvents \ {"crtld", "idtrg"} : Queue(e)
  PROVE  OneRegistration'
<1>1. CASE evtQ' = evtQ
  BY <1>1 DEF OneRegistration
<1>2. ASSUME NEW e \in MEvents \ {"crtld", "idtrg"}, evtQ' = Append(evtQ, e)
      PROVE  OneRegistration'
  <2>1. \A i \in DOMAIN evtQ' :
          \/ i \in DOMAIN evtQ /\ evtQ'[i] = evtQ[i]
          \/ evtQ'[i] = e
    BY <1>2 DEF TypeOK
  <2>2. QED BY <1>2, <2>1 DEF OneRegistration
<1>3. QED BY <1>1, <1>2 DEF Queue

\* The state machine comes nearer to the event of registration.
LEMMA TurnRegistration ==
  ASSUME TypeOK, Backlog = 0, OneRegistration, runMasterFSM
  PROVE  OneRegistration'
<1>1. regAt' = "asleep" /\ evtQ # <<>> /\ evtQ' = Tail(evtQ)
  BY TurnKeeps DEF runMasterFSM
<1>2. ASSUME NEW i \in DOMAIN evtQ', evtQ'[i] \in {"crtld", "idtrg"}
      PROVE  i <= regAhead'
  <2>1. i \in Nat /\ i > 0 /\ i + 1 \in DOMAIN evtQ /\ evtQ'[i] = evtQ[i + 1]
    BY <1>1 DEF TypeOK
  <2>2. i + 1 <= regAhead
    BY <1>2, <2>1 DEF OneRegistration
  <2>3. QED BY <2>1, <2>2 DEF TypeOK, runMasterFSM
<1>3. QED BY <1>1, <1>2 DEF OneRegistration

\* The event just queued is the last of registration.
LEMMA PublishRegistration ==
  ASSUME TypeOK, check_publish
  PROVE  OneRegistration'
<1>1. regAt' = "asleep" /\ DOMAIN evtQ' = 1..(Len(evtQ) + 1) /\ regAhead' = Len(evtQ) + 1
  BY DEF check_publish, Queue, TypeOK
<1>2. QED BY <1>1 DEF OneRegistration

-----------------------------------------------------------------------------
(* The theorems.                                                           *)

\* What users and the cloud do queues an order at most.
LEMMA StimulusOrder ==
  ASSUME \/ ap_mode_pisr \/ fallback_mode_pisr \/ order_fallback \/ order_bootup
         \/ update_success_cb \/ cmd_set_layout \/ cmd_erase_layout
  PROVE  /\ UNCHANGED <<masterState, ctl, engageFlag, disengageFlag, confirmation, confirmed,
                        at, launcher, regAt, regAhead>>
         /\ evtQ' = evtQ \/ \E o \in Orders : Queue(o)
<1>1. PICK s \in AllStimuli : Stimulus(s)
  BY AStimulus
<1>2. UNCHANGED <<masterState, ctl, engageFlag, disengageFlag, confirmation, confirmed,
                  at, launcher, regAt, regAhead>>
  BY <1>1 DEF Stimulus, task, lnch
<1>3. {"apSet", "trgfb", "trgup", "flashOk"} = Orders
  BY DEF Orders
<1>4. evtQ' = evtQ \/ \E o \in {"apSet", "trgfb", "trgup", "flashOk"} : Queue(o)
  BY DEF ap_mode_pisr, fallback_mode_pisr, order_fallback, order_bootup,
         update_success_cb, cmd_set_layout, cmd_erase_layout
<1>5. QED BY <1>2, <1>3, <1>4

\* The outcome of a launch is no event of registration.
LEMMA LauncherRegistration ==
  ASSUME TypeOK, OneRegistration, Launcher
  PROVE  OneRegistration'
<1>1. UNCHANGED <<ctl, regAt, regAhead>>
  BY LauncherKeeps
<1>2. launcher.mode \in Modes
  BY DEF TypeOK
<1>3. Outcome[launcher.mode] \in MEvents \ {"crtld", "idtrg"}
  BY <1>2 DEF Modes, Outcome, MEvents
<1>4. evtQ' = evtQ \/ Queue(Outcome[launcher.mode])
  BY DEF Launcher, launcher_task, launch_start, updateCurrent, launch_outcome,
         launch_idle_wait
<1>5. QED BY <1>1, <1>3, <1>4, StillOneRegistration

\* So does a restart.
LEMMA RestartPhase == Restart => PhaseInv'
<1>1. Restart => Fresh'
  BY DEF Restart, Fresh
<1>2. Fresh => PhaseInv
  BY PowerUpPhase
<1>3. QED BY <1>1, <1>2, PTL

\* The phases follow each other as listed: PhaseInv is inductive.
LEMMA PhaseStep ==
  ASSUME Backlog = 0, TypeOK, PhaseInv, [Next]_vars
  PROVE  PhaseInv'
<1>1. FlagsOfLaunch /\ SlowTasks /\ OneRegistration /\ Rules /\ Phase
  BY DEF PhaseInv
<1>2. CASE runMasterFSM
  <2>1. FlagsOfLaunch' /\ SlowTasks'
    BY <1>1, <1>2, TurnKeeps DEF FlagsOfLaunch, SlowTasks
  <2>2. QED BY <1>1, <1>2, <2>1, TurnPhase, TurnRegistration DEF PhaseInv
<1>3. CASE Launcher
  BY <1>1, <1>3, LauncherFlags, LauncherPhase, LauncherRegistration DEF PhaseInv
<1>4. ASSUME NEW t \in Tasks, Task(t) PROVE PhaseInv'
  BY <1>1, <1>4, TaskPhase, TaskKeeps, StillOneRegistration DEF PhaseInv
<1>5. CASE registration_task
  <2>1. /\ UNCHANGED <<masterState, ctl, engageFlag, disengageFlag, confirmation, confirmed,
                       at, launcher, evtQ, regAhead>>
        /\ ctl.registration /\ regAhead = 0
    BY <1>5 DEF registration_task, hub, task, lnch, TypeOK
  <2>2. OneRegistration'
    BY <1>1, <2>1 DEF OneRegistration
  <2>3. QED BY <1>1, <2>1, <2>2, OutsidePhase DEF PhaseInv
<1>6. CASE check_publish
  BY <1>6, PublishPhase, PublishRegistration DEF PhaseInv
<1>7. CASE registration_skip
  <2>1. /\ UNCHANGED <<masterState, ctl, engageFlag, disengageFlag, confirmation, confirmed,
                       at, launcher, evtQ, regAhead>>
        /\ regAt' = "asleep"
    BY <1>7 DEF registration_skip, hub, task, lnch
  <2>2. OneRegistration'
    BY <1>1, <2>1 DEF OneRegistration
  <2>3. QED BY <1>1, <2>1, <2>2, OutsidePhase DEF PhaseInv
<1>8. CASE connection_task \/ connection_reset_cb \/ UNCHANGED vars
  <2>1. UNCHANGED <<masterState, ctl, engageFlag, disengageFlag, confirmation, confirmed,
                    at, launcher, evtQ, regAt, regAhead>>
    BY <1>8 DEF connection_task, connection_reset_cb, NetUnchanged, vars, hub, task, lnch, envv
  <2>2. QED BY <1>1, <2>1, OutsidePhase, StillOneRegistration DEF PhaseInv
<1>9. CASE update_task \/ PowerCycle
  BY <1>9, RestartPhase DEF update_task, PowerCycle
<1>10. CASE \/ ap_mode_pisr \/ fallback_mode_pisr \/ order_fallback \/ order_bootup
            \/ update_success_cb \/ cmd_set_layout \/ cmd_erase_layout
  <2>1. /\ UNCHANGED <<masterState, ctl, engageFlag, disengageFlag, confirmation, confirmed,
                       at, launcher, regAt, regAhead>>
        /\ evtQ' = evtQ \/ \E o \in Orders : Queue(o)
    BY <1>10, StimulusOrder
  <2>2. Orders \subseteq MEvents \ {"crtld", "idtrg"}
    BY DEF Orders, MEvents
  <2>3. OneRegistration'
    BY <1>1, <2>1, <2>2, StillOneRegistration
  <2>4. QED BY <1>1, <2>1, <2>3, OutsidePhase DEF PhaseInv
<1>11. QED
  BY <1>2, <1>3, <1>4, <1>5, <1>6, <1>7, <1>8, <1>9, <1>10 DEF Next, Launcher

\* Whatever users, the cloud, the network and the mains do, the hub is in one of the
\* phases, while registration is timely.
THEOREM PhasesHold ==
  ASSUME Backlog = 0
  PROVE  Spec => []PhaseInv
<1>1. Init => PhaseInv
  BY PowerUpPhase DEF Init, Fresh
<1>2. TypeOK /\ PhaseInv /\ [Next]_vars => PhaseInv'
  BY PhaseStep
<1>3. QED BY <1>1, <1>2, TypeCorrect, PTL DEF Spec

\* Execution and fallback, which drive the same outputs, are never in their run
\* sections together: launch_engagement and launch_fallback see the one out before
\* trgRunning and fbSet_Meffect let the other run.
THEOREM OneDriverHolds ==
  ASSUME Backlog = 0
  PROVE  Spec => []OneDriver
<1>1. PhaseInv => OneDriver
  BY DEF PhaseInv, Rules, Apart
<1>2. QED BY <1>1, PhasesHold, PTL

\* No task works on the machines once updat_Meffect has freed them, or in access
\* point mode: both are entered only when launch_disengagement has seen all tasks
\* out, and no launch goes on behind its outcome.
THEOREM MachinesAreLeftAlone ==
  ASSUME Backlog = 0
  PROVE  Spec => []MachinesLeftAlone
<1>1. PhaseInv => MachinesLeftAlone
  <2> SUFFICES ASSUME PhaseInv, ctl.update \/ masterState = "apSet"
               PROVE  Quiescent
    BY DEF MachinesLeftAlone
  <2>1. Quiet("none")
    <3>1. CASE ctl.update
      BY <3>1 DEF PhaseInv, Rules, Updating
    <3>2. CASE masterState = "apSet"
      BY <3>2 DEF PhaseInv, Phase, InFlash, AtRest, Registering, Engaging, Running,
                  FallingBack, Fallback, Idling, Idle, Leaving
    <3>3. QED BY <3>1, <3>2
  <2>2. confirmation = {} /\ \A t \in Tasks : at[t] \notin {"engaged", "run"}
    BY <2>1, ModeFacts DEF Quiet, Resting, Rested, Sound
  <2>3. QED BY <2>2 DEF Quiescent
<1>2. QED BY <1>1, PhasesHold, PTL

-----------------------------------------------------------------------------
(* How the hub fails. Most failures are a flashOk, which the console       *)
(* queues in its run branch when a layout is chosen, met in a state that   *)
(* takes none. Where it would be met outside of Fatal, the console is      *)
(* silent: it may not run, and nothing it queued is left.                  *)

Lacks(q, e) == \A i \in DOMAIN q : q[i] # e

Silent == /\ Lacks(evtQ, "flashOk")
          /\ "console" \notin ctl.run /\ at["console"] # "run"

\* In these states a flashOk would be an error, or would leave engag behind.
SilentStates ==
  /\ masterState \in {"apSet", "updat", "engag"} => Silent
  /\ masterState = "regis" /\ ctl.desired = "none" => Silent

\* Behind the first event nothing is queued before registration has the word.
FirstAlone == masterState = "flash" => \A i \in DOMAIN evtQ \ {1} : evtQ[i] # "flashOk"

\* A launch of running is never left by flashOk.
NeverEngaging == masterState = "diseng" => ctl.desired = "none"

\* Where registration has chosen running, the console has not spoken since.
SilentChoice == masterState # "error" /\ ~Lacks(evtQ, "crtld") => Silent

\* The outcome of a disengagement is the last event but for orders of others.
DisengagedLast ==
  masterState \in {"diseng", "engup", "engap", "fbset", "idset"} =>
    \A i, j \in DOMAIN evtQ : i < j /\ evtQ[i] = "diseng" => evtQ[j] # "flashOk"

Silence == FirstAlone /\ SilentStates /\ NeverEngaging /\ SilentChoice /\ DisengagedLast

\* A turn that leads to the error state is one of the fatal ones.
Fatally == masterState' = "error" => <<masterState, Head(evtQ)>> \in Fatal

\* Which answers are not queued, phase by phase.
LEMMA LacksOf ==
  ASSUME NEW q, NEW x, x \notin Orders
  PROVE  /\ Bare(q) => Lacks(q, x)
         /\ \A e : One(q, e) /\ e # x => Lacks(q, x)
         /\ \A e, f : Two(q, e, f) /\ e # x /\ f # x => Lacks(q, x)
<1>1. Bare(q) => Lacks(q, x)
  BY DEF Bare, Lacks
<1>2. ASSUME NEW e, One(q, e), e # x PROVE Lacks(q, x)
  BY <1>2 DEF One, Lacks
<1>3. ASSUME NEW e, NEW f, Two(q, e, f), e # x, f # x PROVE Lacks(q, x)
  BY <1>3 DEF Two, Lacks
<1>4. QED BY <1>1, <1>2, <1>3

\* crtld is queued for registration only, or overtaken by fallback.
LEMMA NoChoice ==
  ASSUME InFlash \/ AtRest \/ Running \/ Idle \/ Engaging \/ Fallback \/ Idling \/ Leaving
  PROVE  Lacks(evtQ, "crtld")
<1>1. /\ Bare(evtQ) => Lacks(evtQ, "crtld")
      /\ \A e \in {"fbset", "engaged", "idset", "diseng"} : One(evtQ, e) => Lacks(evtQ, "crtld")
      /\ Two(evtQ, "fbset", "engaged") => Lacks(evtQ, "crtld")
      /\ Two(evtQ, "fbset", "diseng") => Lacks(evtQ, "crtld")
  BY LacksOf DEF Orders
<1>2. InFlash \/ AtRest \/ Running \/ Idle => Lacks(evtQ, "crtld")
  BY <1>1 DEF InFlash, AtRest, Running, Idle
<1>3. Engaging \/ Fallback => Lacks(evtQ, "crtld")
  BY <1>1 DEF Engaging, EngagingStage, Fallback, FallbackStage
<1>4. Idling \/ Leaving => Lacks(evtQ, "crtld")
  BY <1>1 DEF Idling, IdlingStage, Leaving, LeavingStage
<1>5. QED BY <1>2, <1>3, <1>4

\* In a mode that is set no disengagement is queued as over.
LEMMA NoOutcome ==
  ASSUME Running \/ Idle \/ Fallback
  PROVE  Lacks(evtQ, "diseng")
<1>1. /\ Bare(evtQ) => Lacks(evtQ, "diseng")
      /\ One(evtQ, "fbset") => Lacks(evtQ, "diseng")
  BY LacksOf DEF Orders
<1>2. QED BY <1>1 DEF Running, Idle, Fallback, FallbackStage

\* Where a disengagement is queued as over, no task is live.
LEMMA OutcomeIsQuiet ==
  ASSUME Phase, masterState \in {"diseng", "engup", "engap", "fbset", "idset"}, NeverEngaging,
         ~Lacks(evtQ, "diseng")
  PROVE  Leaving /\ Quiet("none")
<1>1. /\ Bare(evtQ) => Lacks(evtQ, "diseng")
      /\ One(evtQ, "fbset") => Lacks(evtQ, "diseng")
  BY LacksOf DEF Orders
<1>2. ~Running /\ ~Idle /\ ~Fallback
  BY NoOutcome
<1>3. Leaving
  BY <1>2 DEF Phase, NeverEngaging, InFlash, AtRest, Registering, Engaging, FallingBack, Idling
<1>4. QED BY <1>1, <1>3 DEF Leaving, LeavingStage

\* A hub at rest has a silent console.
LEMMA QuietConsole ==
  ASSUME Quiet("none")
  PROVE  "console" \notin ctl.run /\ at["console"] # "run"
<1>1. "console" \in Tasks
  BY HubAssumption DEF AllTasks
<1>2. QED BY <1>1, ModeFacts DEF Quiet, Resting, Rested, Sound

-----------------------------------------------------------------------------
(* A turn of the state machine.                                            *)

\* A turn queues nothing.
LEMMA TailLacks ==
  ASSUME TypeOK, runMasterFSM, NEW x
  PROVE  /\ Lacks(evtQ, x) => Lacks(evtQ', x)
         /\ Lacks(evtQ, x) => Head(evtQ) # x
<1>1. evtQ # <<>> /\ evtQ' = Tail(evtQ) /\ evtQ \in Seq(MEvents)
  BY TurnKeeps DEF TypeOK
<1>2. \A i \in DOMAIN evtQ' : i + 1 \in DOMAIN evtQ /\ evtQ'[i] = evtQ[i + 1]
  BY <1>1
<1>3. Head(evtQ) = evtQ[1] /\ 1 \in DOMAIN evtQ
  BY <1>1
<1>4. QED BY <1>2, <1>3 DEF Lacks

\* A turn that raises no run flag leaves the console silent.
LEMMA StillSilent ==
  ASSUME TypeOK, runMasterFSM, Silent, ctl'.run \subseteq ctl.run
  PROVE  Silent'
BY TailLacks, TurnKeeps DEF Silent

\* Where the console is silent only the states that leave a mode matter.
LEMMA SilentSuffices ==
  ASSUME Silent', masterState' \notin {"flash", "diseng", "engup", "engap", "fbset", "idset"}
  PROVE  Silence'
BY DEF Silence, FirstAlone, SilentStates, NeverEngaging, SilentChoice, DisengagedLast

\* And where registration has chosen nothing and no mode is left.
LEMMA LacksSuffices ==
  ASSUME Lacks(evtQ', "crtld"), NeverEngaging',
         masterState' \notin {"flash", "apSet", "updat", "engag"},
         masterState' = "regis" => ctl'.desired # "none",
         DisengagedLast'
  PROVE  Silence'
BY DEF Silence, FirstAlone, SilentStates, SilentChoice

\* A turn does not change the order of what is queued.
LEMMA TailDisengagedLast ==
  ASSUME TypeOK, runMasterFSM,
         Lacks(evtQ', "diseng") \/ (DisengagedLast /\
           masterState \in {"diseng", "engup", "engap", "fbset", "idset"})
  PROVE  DisengagedLast'
<1>1. CASE Lacks(evtQ', "diseng")
  BY <1>1 DEF DisengagedLast, Lacks
<1>2. CASE /\ DisengagedLast
           /\ masterState \in {"diseng", "engup", "engap", "fbset", "idset"}
  <2>1. evtQ # <<>> /\ evtQ' = Tail(evtQ) /\ evtQ \in Seq(MEvents)
    BY TurnKeeps DEF TypeOK
  <2>2. \A i \in DOMAIN evtQ' : i \in Nat /\ i + 1 \in DOMAIN evtQ /\ evtQ'[i] = evtQ[i + 1]
    BY <2>1
  <2>3. \A i, j \in DOMAIN evtQ' : i < j => i + 1 < j + 1
    BY <2>2
  <2>4. QED BY <1>2, <2>2, <2>3 DEF DisengagedLast
<1>3. QED BY <1>1, <1>2

\* Each phase keeps the silence, and fails in the fatal ways only.
LEMMA FailInFlash ==
  ASSUME TypeOK, Rules, runMasterFSM, Silence, InFlash
  PROVE  Silence' /\ Fatally
<1>1. masterState' = "regis" /\ ctl' = Effect("rgstr", ctl) /\ ctl \in CtlType
  BY ATurn, Cells DEF InFlash, TypeOK
<1>2. ctl'.run \subseteq ctl.run
  BY <1>1, EffectRuns
<1>3. Lacks(evtQ', "flashOk")
  <2>1. evtQ # <<>> /\ evtQ' = Tail(evtQ) /\ evtQ \in Seq(MEvents)
    BY TurnKeeps DEF TypeOK
  <2>2. \A i \in DOMAIN evtQ' : i + 1 \in DOMAIN evtQ \ {1} /\ evtQ'[i] = evtQ[i + 1]
    BY <2>1
  <2>3. QED BY <2>2 DEF Silence, FirstAlone, InFlash, Lacks
<1>4. Silent'
  BY <1>2, <1>3, QuietConsole, TurnKeeps DEF InFlash, Silent
<1>5. QED BY <1>1, <1>4, SilentSuffices DEF Fatally

\* At rest the flashOk that would be fatal is not queued.
LEMMA FailAtRest ==
  ASSUME TypeOK, Rules, runMasterFSM, Silence, AtRest
  PROVE  Silence' /\ Fatally
<1> DEFINE e == Head(evtQ)
<1>1. Silent /\ ctl \in CtlType /\ masterState \in {"apSet", "updat"}
  BY DEF Silence, SilentStates, AtRest, TypeOK
<1>2. e \in {"apSet", "trgfb", "trgup"}
  BY <1>1, TailLacks, TurnQueue DEF Silent, AtRest, Orders
<1>3. PICK s \in {"apSet", "updat", "regis"}, n \in {"noop", "apdng"} : Turn(masterState, e, s, n)
  BY <1>1, <1>2, Cells
<1>4. masterState' = s /\ ctl'.run \subseteq ctl.run
  BY <1>1, <1>3, ATurn, EffectRuns
<1>5. QED BY <1>1, <1>4, StillSilent, SilentSuffices DEF Fatally

\* While registration has the word, an update order is fatal.
LEMMA FailRegistering ==
  ASSUME TypeOK, Rules, runMasterFSM, Silence, Registering
  PROVE  Silence' /\ Fatally
<1> DEFINE e == Head(evtQ)
<1>1. Silent /\ ctl \in CtlType /\ masterState = "regis"
  BY DEF Silence, SilentStates, Registering, Quiet, TypeOK
<1>2. e \in {"apSet", "trgfb", "trgup", "crtld", "idtrg"}
  BY <1>1, TailLacks, TurnQueue DEF Silent, Registering, Orders
<1>3. CASE e = "trgup"
  <2>1. masterState' = "error" /\ ctl' = ctl
    BY <1>1, <1>3, ErrorCells, EffectRuns DEF runMasterFSM, Fails
  <2>2. QED BY <1>1, <1>3, <2>1, StillSilent, SilentSuffices DEF Fatally, Fatal
<1>4. CASE e # "trgup"
  <2>1. PICK s \in {"regis", "engag", "enidl", "enfba"},
             n \in {"noop", "engag", "trgid", "trgfb"} : Turn(masterState, e, s, n)
    BY <1>1, <1>2, <1>4, Cells
  <2>2. masterState' = s /\ ctl'.run \subseteq ctl.run
    BY <1>1, <2>1, ATurn, EffectRuns
  <2>3. QED BY <1>1, <2>2, StillSilent, SilentSuffices DEF Fatally
<1>5. QED BY <1>3, <1>4

\* A launch of running does not fail.
LEMMA FailEngaging ==
  ASSUME TypeOK, Rules, runMasterFSM, Silence, Engaging
  PROVE  Silence' /\ Fatally
<1> DEFINE e == Head(evtQ)
<1>1. Silent /\ ctl \in CtlType /\ masterState = "engag"
  BY DEF Silence, SilentStates, NeverEngaging, Engaging, TypeOK
<1>2. e \in {"apSet", "trgfb", "trgup", "fbset", "engaged"}
  BY <1>1, TailLacks, TurnQueue DEF Silent, Engaging, EngagingStage, Orders
<1>3. CASE e = "engaged"
  <2>1. masterState' = "runn"
    BY <1>1, <1>3, ATurn, Cells
  <2>2. Lacks(evtQ', "crtld")
    BY NoChoice, TailLacks
  <2>3. QED
    BY <2>1, <2>2 DEF Silence, FirstAlone, SilentStates, NeverEngaging, SilentChoice,
                      DisengagedLast, Fatally
<1>4. CASE e # "engaged"
  <2>1. Turn(masterState, e, "engag", "noop")
    BY <1>1, <1>2, <1>4, Cells
  <2>2. masterState' = "engag" /\ ctl' = ctl
    BY <1>1, <2>1, ATurn, EffectRuns
  <2>3. QED BY <1>1, <2>2, StillSilent, SilentSuffices DEF Fatally
<1>5. QED BY <1>3, <1>4

\* Neither does a hub that runs.
LEMMA FailRunning ==
  ASSUME TypeOK, Rules, runMasterFSM, Silence, Running
  PROVE  Silence' /\ Fatally
<1> DEFINE e == Head(evtQ)
<1>1. masterState = "runn" /\ ctl \in CtlType /\ e \in Orders
  BY TurnQueue DEF Running, TypeOK
<1>2. Lacks(evtQ', "crtld") /\ Lacks(evtQ', "diseng")
  BY NoChoice, NoOutcome, TailLacks
<1>3. /\ masterState' \in {"diseng", "engup", "engap", "enfba"}
      /\ masterState' = "diseng" => ctl'.desired = "none"
  <2>1. \/ \E s \in {"diseng", "engup", "engap"} : Turn(masterState, e, s, "disen")
        \/ Turn(masterState, e, "enfba", "trgfb")
    BY <1>1, Cells DEF Orders
  <2>2. QED BY <1>1, <2>1, ATurn, EffectRuns
<1>4. QED BY <1>2, <1>3, LacksSuffices, TailDisengagedLast DEF Fatally, NeverEngaging

\* In idle, choosing a layout is fatal.
LEMMA FailIdle ==
  ASSUME TypeOK, Rules, runMasterFSM, Silence, Idle
  PROVE  Silence' /\ Fatally
<1> DEFINE e == Head(evtQ)
<1>1. masterState = "idset" /\ ctl \in CtlType /\ e \in Orders
  BY TurnQueue DEF Idle, TypeOK
<1>2. Lacks(evtQ', "crtld") /\ Lacks(evtQ', "diseng")
  BY NoChoice, NoOutcome, TailLacks
<1>3. /\ masterState' \in {"error", "engup", "idset", "enfba"}
      /\ masterState' = "error" => e = "flashOk"
  <2>1. CASE e = "flashOk"
    BY <1>1, <2>1, ErrorCells DEF runMasterFSM, Fails
  <2>2. CASE e # "flashOk"
    <3>1. PICK s \in {"engup", "idset", "enfba"}, n \in {"disen", "trgfb"} :
            Turn(masterState, e, s, n)
      BY <1>1, <2>2, Cells DEF Orders
    <3>2. QED BY <3>1, ATurn
  <2>3. QED BY <2>1, <2>2
<1>4. QED
  BY <1>1, <1>2, <1>3, LacksSuffices, TailDisengagedLast DEF Fatally, Fatal, NeverEngaging

\* A hub in fallback does not fail.
LEMMA FailFallback ==
  ASSUME TypeOK, Rules, runMasterFSM, Silence, Fallback
  PROVE  Silence' /\ Fatally
<1> DEFINE e == Head(evtQ)
<1>1. masterState = "fbset" /\ ctl \in CtlType /\ e \in Orders \cup {"fbset"}
  BY TurnQueue DEF Fallback, FallbackStage, TypeOK, Orders
<1>2. Lacks(evtQ', "crtld") /\ Lacks(evtQ', "diseng")
  BY NoChoice, NoOutcome, TailLacks
<1>3. /\ masterState' \in {"diseng", "engup", "fbset"}
      /\ masterState' = "diseng" => ctl'.desired = "none"
  <2>1. \/ \E s \in {"diseng", "engup", "fbset"}, n \in {"disen", "fbdis"} :
             Turn(masterState, e, s, n)
        \/ Turn(masterState, e, "fbset", "noop")
    BY <1>1, Cells DEF Orders
  <2>2. QED BY <1>1, <2>1, ATurn, EffectRuns
<1>4. QED BY <1>2, <1>3, LacksSuffices, TailDisengagedLast DEF Fatally, NeverEngaging

\* On the way to idle, choosing a layout is fatal.
LEMMA FailIdling ==
  ASSUME TypeOK, Rules, runMasterFSM, Silence, Idling
  PROVE  Silence' /\ Fatally
<1> DEFINE e == Head(evtQ)
<1>1. masterState = "enidl" /\ e \in Orders \cup {"fbset", "idset"}
  BY QueueIdling DEF Idling
<1>2. Lacks(evtQ', "crtld") /\ (e = "idset" => Lacks(evtQ', "diseng"))
  <2>1. Lacks(evtQ', "crtld")
    BY NoChoice, TailLacks
  <2>2. e = "idset" => Bare(evtQ')
    BY QueueIdling DEF Orders
  <2>3. QED BY <2>1, <2>2, LacksOf DEF Orders
<1>3. /\ masterState' \in {"error", "enidl", "idset"}
      /\ masterState' = "error" => e = "flashOk"
      /\ masterState' = "idset" => e = "idset"
  <2>1. CASE e = "flashOk"
    BY <1>1, <2>1, ErrorCells DEF runMasterFSM, Fails
  <2>2. CASE e \in {"apSet", "trgfb", "trgup", "fbset"}
    <3>1. PICK n \in {"noop", "fbSet"} : Turn(masterState, e, "enidl", n)
      BY <1>1, <2>2, Cells
    <3>2. QED BY <3>1, ATurn
  <2>3. CASE e = "idset"
    BY <1>1, <2>3, ATurn, Cells
  <2>4. QED BY <1>1, <2>1, <2>2, <2>3 DEF Orders
<1>4. DisengagedLast'
  BY <1>2, <1>3, TailDisengagedLast DEF DisengagedLast
<1>5. QED
  BY <1>1, <1>2, <1>3, <1>4, LacksSuffices DEF Fatally, Fatal, NeverEngaging

\* So it is while the hub leaves a mode, except from fallback.
LEMMA FailLeaving ==
  ASSUME TypeOK, Rules, runMasterFSM, Silence, Leaving
  PROVE  Silence' /\ Fatally
<1> DEFINE e == Head(evtQ)
<1>1. /\ masterState \in {"diseng", "engup", "engap", "fbset", "idset"} /\ ctl \in CtlType
      /\ ctl.desired = "none" /\ e \in Orders \cup {"fbset", "diseng"}
      /\ e = "diseng" => Quiet("none")
      /\ e = "fbset" => masterState # "idset"
  BY QueueLeaving DEF Leaving, TypeOK
<1>2. Lacks(evtQ', "crtld") /\ DisengagedLast'
  BY <1>1, NoChoice, TailLacks, TailDisengagedLast DEF Silence
<1>3. CASE e = "diseng"
  <2>1. PICK s \in {"regis", "updat", "apSet", "idset"},
             n \in {"rgstr", "updat", "apeng", "erro"} : Turn(masterState, e, s, n)
    BY <1>1, <1>3, Cells
  <2>2. masterState' = s /\ ctl'.run \subseteq ctl.run
    BY <1>1, <2>1, ATurn, EffectRuns
  <2>3. Lacks(evtQ', "flashOk")
    <3>1. evtQ # <<>> /\ evtQ' = Tail(evtQ) /\ evtQ \in Seq(MEvents)
      BY TurnKeeps DEF TypeOK
    <3>2. /\ 1 \in DOMAIN evtQ /\ evtQ[1] = "diseng"
          /\ \A i \in DOMAIN evtQ' : /\ 1 < i + 1 /\ i + 1 \in DOMAIN evtQ
                                     /\ evtQ'[i] = evtQ[i + 1]
      BY <1>3, <3>1
    <3>3. QED BY <1>1, <3>2 DEF Silence, DisengagedLast, Lacks
  <2>4. Silent'
    BY <1>1, <1>3, <2>2, <2>3, QuietConsole, TurnKeeps DEF Silent
  <2>5. QED
    BY <1>2, <2>2, <2>4 DEF Fatally, Silence, FirstAlone, SilentStates, NeverEngaging,
                            SilentChoice
<1>4. CASE e = "flashOk" /\ masterState # "fbset"
  <2>1. masterState' = "error"
    BY <1>1, <1>4, ErrorCells DEF runMasterFSM, Fails
  <2>2. QED
    BY <1>1, <1>2, <1>4, <2>1, LacksSuffices DEF Fatally, Fatal, NeverEngaging
<1>5. CASE e # "diseng" /\ ~(e = "flashOk" /\ masterState # "fbset")
  <2>1. PICK s \in {"diseng", "engup", "engap", "fbset", "idset", "enfba"},
             n \in {"noop", "disen", "fbdis", "trgfb"} :
          Turn(masterState, e, s, n) /\ (s = "diseng" => n # "trgfb")
    BY <1>1, <1>5, Cells DEF Orders
  <2>2. masterState' = s /\ (s = "diseng" => ctl'.desired = "none")
    BY <1>1, <2>1, ATurn, EffectRuns
  <2>3. QED BY <1>2, <2>2, LacksSuffices DEF Fatally, NeverEngaging
<1>6. QED BY <1>3, <1>4, <1>5

\* On the way to fallback a layout, an order or a late outcome is fatal.
LEMMA FailFallingBack ==
  ASSUME TypeOK, Rules, runMasterFSM, Silence, FallingBack
  PROVE  Silence' /\ Fatally
<1> DEFINE e == Head(evtQ)
<1>1. /\ masterState \in {"regis", "enfba"} /\ ctl \in CtlType /\ ctl.desired = "fallback"
      /\ e \in Orders \cup Late \cup {"fbset"}
  BY QueueFallingBack DEF FallingBack, TypeOK
<1>2. e \notin Orders => Lacks(evtQ', "crtld") /\ Lacks(evtQ', "diseng")
  <2>1. e \notin Orders => Bare(evtQ') \/ One(evtQ', "fbset")
    BY QueueFallingBack
  <2>2. QED BY <2>1, LacksOf DEF Orders
<1>3. CASE e \in Orders
  <2>1. /\ masterState' \in {"regis", "enfba", "error"} /\ ctl'.desired = "fallback"
        /\ ctl'.run \subseteq ctl.run
        /\ masterState' = "error" => <<masterState, e>> \in Fatal
    <3>1. CASE \/ masterState = "regis" /\ e = "trgup"
               \/ masterState = "enfba" /\ e = "flashOk"
      BY <1>1, <3>1, ErrorCells, EffectRuns DEF runMasterFSM, Fails, Fatal
    <3>2. CASE ~(\/ masterState = "regis" /\ e = "trgup"
                 \/ masterState = "enfba" /\ e = "flashOk")
      <4>1. PICK s \in {"regis", "enfba"}, n \in {"noop", "trgfb"} : Turn(masterState, e, s, n)
        BY <1>1, <1>3, <3>2, Cells DEF Orders
      <4>2. QED BY <1>1, <4>1, ATurn, EffectRuns
    <3>3. QED BY <3>1, <3>2
  <2>2. CASE Silent
    BY <2>1, <2>2, StillSilent, SilentSuffices DEF Fatally
  <2>3. CASE ~Silent
    <3>1. Lacks(evtQ', "crtld")
      BY <1>1, <2>3, TailLacks DEF Silence, SilentChoice
    <3>2. QED
      BY <2>1, <3>1, LacksSuffices DEF Fatally, NeverEngaging, DisengagedLast
  <2>4. QED BY <2>2, <2>3
<1>4. CASE e = "crtld" /\ masterState = "regis"
  <2>1. Turn(masterState, e, "engag", "engag")
    BY <1>4, Cells
  <2>2. masterState' = "engag" /\ ctl'.run \subseteq ctl.run
    BY <1>1, <2>1, ATurn, EffectRuns
  <2>3. Silent
    BY <1>4, TailLacks DEF Silence, SilentChoice
  <2>4. QED BY <2>2, <2>3, StillSilent, SilentSuffices DEF Fatally
<1>5. CASE e \notin Orders /\ ~(e = "crtld" /\ masterState = "regis")
  <2>1. /\ masterState' \in {"regis", "enfba", "fbset", "enidl", "error"}
        /\ masterState' = "regis" => ctl'.desired = "fallback"
        /\ masterState' = "error" => <<masterState, e>> \in Fatal
    <3>1. CASE masterState = "regis" /\ e = "diseng"
      BY <1>1, <3>1, ErrorCells DEF runMasterFSM, Fails, Fatal
    <3>2. CASE ~(masterState = "regis" /\ e = "diseng")
      <4>1. \/ \E s \in {"enfba", "fbset", "enidl"}, n \in {"erro", "noop", "fbSet", "trgid"} :
                 Turn(masterState, e, s, n)
            \/ Turn(masterState, e, "regis", "noop")
        BY <1>1, <1>5, <3>2, Cells DEF Late
      <4>2. QED BY <1>1, <4>1, ATurn, EffectRuns
    <3>3. QED BY <3>1, <3>2
  <2>2. DisengagedLast'
    BY <1>2, <1>5, TailDisengagedLast
  <2>3. QED BY <1>2, <1>5, <2>1, <2>2, LacksSuffices DEF Fatally, NeverEngaging
<1>6. QED BY <1>3, <1>4, <1>5

\* A turn in any phase.
LEMMA FailTurn ==
  ASSUME TypeOK, Rules, Phase, runMasterFSM, Silence
  PROVE  Silence' /\ (masterState # "error" => Fatally)
<1>1. CASE masterState = "error"
  <2>1. masterState' = "error"
    BY <1>1, ErrorCells DEF runMasterFSM, Fails
  <2>2. QED
    BY <1>1, <2>1 DEF Silence, FirstAlone, SilentStates, NeverEngaging, SilentChoice,
                      DisengagedLast
<1>2. CASE masterState # "error"
  BY <1>2, FailInFlash, FailAtRest, FailRegistering, FailEngaging, FailRunning,
     FailFallingBack, FailFallback, FailIdling, FailIdle, FailLeaving DEF Phase
<1>3. QED BY <1>1, <1>2

-----------------------------------------------------------------------------
(* Every other step.                                                       *)

\* A step that queues no event of the console's keeps the silence, if it lets the
\* console not begin to run.
LEMMA QueuedSilence ==
  ASSUME TypeOK, Phase, Silence, UNCHANGED <<masterState, ctl>>,
         at'["console"] = "run" => at["console"] = "run" \/ "console" \in ctl.run,
         NEW e \in MEvents \ {"flashOk", "crtld"},
         evtQ' = evtQ \/ Queue(e)
  PROVE  Silence'
<1>1. evtQ \in Seq(MEvents)
  BY DEF TypeOK
<1>2. /\ Lacks(evtQ, "flashOk") => Lacks(evtQ', "flashOk")
      /\ Lacks(evtQ, "crtld") => Lacks(evtQ', "crtld")
  BY <1>1 DEF Lacks, Queue
<1>3. Silent => Silent'
  BY <1>2 DEF Silent
<1>4. FirstAlone' /\ DisengagedLast'
  BY <1>1 DEF Silence, FirstAlone, DisengagedLast, Queue
<1>5. QED
  BY <1>2, <1>3, <1>4 DEF Silence, SilentStates, NeverEngaging, SilentChoice

\* The console queues its event in its run branch only, where the silence is off.
LEMMA SpokenSilence ==
  ASSUME TypeOK, Phase, Silence, UNCHANGED <<masterState, ctl, at>>,
         at["console"] = "run", Queue("flashOk")
  PROVE  Silence'
<1>1. evtQ \in Seq(MEvents) /\ ~Silent
  BY DEF TypeOK, Silent
<1>2. Lacks(evtQ, "crtld") => Lacks(evtQ', "crtld")
  BY <1>1 DEF Lacks, Queue
<1>3. masterState # "flash"
  BY QuietConsole DEF Phase, InFlash, AtRest, Registering, Engaging, Running, FallingBack,
                      Fallback, Idling, Idle, Leaving
<1>4. DisengagedLast'
  <2>1. CASE masterState \in {"diseng", "engup", "engap", "fbset", "idset"}
    <3>1. Lacks(evtQ, "diseng")
      BY <2>1, OutcomeIsQuiet, QuietConsole DEF Silence
    <3>2. QED BY <1>1, <3>1 DEF DisengagedLast, Lacks, Queue
  <2>2. QED BY <2>1 DEF DisengagedLast
<1>5. QED
  BY <1>1, <1>2, <1>3, <1>4
     DEF Silence, FirstAlone, SilentStates, NeverEngaging, SilentChoice

\* Registration chooses running where the console is silent.
LEMMA ChosenSilence ==
  ASSUME TypeOK, PhaseInv, Silence, check_publish
  PROVE  Silence'
<1>1. UNCHANGED <<masterState, ctl, at>> /\ evtQ \in Seq(MEvents)
  BY DEF check_publish, task, TypeOK
<1>2. Queue(StartEvent) /\ StartEvent \in {"crtld", "idtrg", "trgfb"}
  BY DEF check_publish, StartEvent
<1>3. CASE StartEvent # "crtld"
  <2>1. StartEvent \in MEvents \ {"flashOk", "crtld"}
    BY <1>2, <1>3 DEF MEvents
  <2>2. QED BY <1>1, <1>2, <2>1, QueuedSilence DEF PhaseInv
<1>4. CASE StartEvent = "crtld" /\ masterState # "error"
  <2>1. ctl.registration
    BY DEF PhaseInv, OneRegistration, check_publish
  <2>2. Silent
    BY <1>4, <2>1 DEF PhaseInv, Rules, RegistersInRegis, Silence, SilentStates
  <2>3. Silent'
    BY <1>1, <1>2, <1>4, <2>2 DEF Silent, Lacks, Queue
  <2>4. masterState' = "regis"
    BY <1>1, <1>4, <2>1 DEF PhaseInv, Rules, RegistersInRegis
  <2>5. QED BY <2>3, <2>4, SilentSuffices
<1>5. CASE masterState = "error"
  BY <1>1, <1>5 DEF Silence, FirstAlone, SilentStates, NeverEngaging, SilentChoice,
                    DisengagedLast
<1>6. QED BY <1>3, <1>4, <1>5

\* A restart leaves the console silent.
LEMMA FreshSilence == Fresh => Silence
<1>1. Fresh => /\ masterState = "flash" /\ evtQ = <<"flashOk">>
  BY DEF Fresh, PowerUp
<1>2. masterState = "flash" /\ evtQ = <<"flashOk">> => Silence
  BY DEF Silence, FirstAlone, SilentStates, NeverEngaging, SilentChoice, DisengagedLast, Lacks
<1>3. QED BY <1>1, <1>2

\* So does every restart.
LEMMA RestartSilence == Restart => Silence'
<1>1. Restart => Fresh'
  BY DEF Restart, Fresh
<1>2. QED BY <1>1, FreshSilence, PTL

\* Nobody but the state machine enters the error state, and it only as listed.
LEMMA SilenceStep ==
  ASSUME Backlog = 0, TypeOK, PhaseInv, Silence, [Next]_vars
  PROVE  /\ Silence'
         /\ masterState' = "error" /\ masterState # "error" => runMasterFSM /\ Fatally
<1>1. Rules /\ Phase /\ {"apSet", "trgfb", "trgup"} \subseteq MEvents \ {"flashOk", "crtld"}
  BY DEF PhaseInv, MEvents
<1>2. CASE runMasterFSM
  BY <1>1, <1>2, FailTurn
<1>3. CASE Launcher
  <2>1. UNCHANGED <<masterState, ctl, at>>
    BY <1>3, LauncherKeeps
  <2>2. Outcome[launcher.mode] \in MEvents \ {"flashOk", "crtld"}
    BY DEF TypeOK, Modes, Outcome, MEvents
  <2>3. evtQ' = evtQ \/ Queue(Outcome[launcher.mode])
    BY <1>3 DEF Launcher, launcher_task, launch_start, updateCurrent, launch_outcome,
                launch_idle_wait
  <2>4. QED BY <1>1, <2>1, <2>2, <2>3, QueuedSilence
<1>4. ASSUME NEW t \in Tasks, Task(t)
      PROVE  Silence' /\ masterState' = masterState
  <2>1. UNCHANGED <<masterState, evtQ, ctl>>
    BY <1>4, TaskKeeps
  <2>2. at'["console"] = "run" => at["console"] = "run" \/ "console" \in ctl.run
    BY <1>4, WhereTo, HubAssumption DEF AllTasks
  <2>3. QED BY <1>1, <2>1, <2>2, QueuedSilence
<1>5. CASE registration_task \/ registration_skip \/ connection_task
           \/ connection_reset_cb \/ UNCHANGED vars
  <2>1. UNCHANGED <<masterState, ctl, at, evtQ>>
    BY <1>5 DEF registration_task, registration_skip, connection_task, connection_reset_cb,
                NetUnchanged, vars, hub, task
  <2>2. QED BY <1>1, <2>1, QueuedSilence
<1>6. CASE check_publish
  BY <1>6, ChosenSilence DEF check_publish
<1>7. CASE update_task \/ PowerCycle
  BY <1>7, RestartSilence DEF update_task, PowerCycle, Restart, PowerUp
<1>8. CASE \/ ap_mode_pisr \/ fallback_mode_pisr \/ order_fallback \/ order_bootup
           \/ update_success_cb \/ cmd_erase_layout
  <2>1. UNCHANGED <<masterState, ctl, at>>
    BY <1>8, StimulusOrder
  <2>2. evtQ' = evtQ \/ \E e \in {"apSet", "trgfb", "trgup"} : Queue(e)
    BY <1>8 DEF ap_mode_pisr, fallback_mode_pisr, order_fallback, order_bootup,
                update_success_cb, cmd_erase_layout
  <2>3. QED BY <1>1, <2>1, <2>2, QueuedSilence
<1>9. CASE cmd_set_layout
  <2>1. UNCHANGED <<masterState, ctl, at>> /\ at["console"] = "run" /\ Queue("flashOk")
    BY <1>9, StimulusOrder DEF cmd_set_layout
  <2>2. QED BY <1>1, <2>1, SpokenSilence
<1>10. QED
  BY <1>2, <1>3, <1>4, <1>5, <1>6, <1>7, <1>8, <1>9, LauncherKeeps DEF Next, Launcher

\* The hub fails in the listed ways only: the launcher's outcomes, the events of
\* registration and the orders never meet the state machine in any other of the
\* states whose tables send it to error_Mstate.
THEOREM ErrorRoutesHold ==
  ASSUME Backlog = 0
  PROVE  Spec => ErrorRoutes
<1>1. Init => Silence
  BY FreshSilence DEF Init, Fresh
<1>2. TypeOK /\ PhaseInv /\ Silence /\ [Next]_vars => Silence'
  BY SilenceStep
<1>3. TypeOK /\ PhaseInv /\ Silence /\ [Next]_vars =>
        [masterState' = "error" /\ masterState # "error"
           => <<masterState, Head(evtQ)>> \in Fatal]_vars
  BY SilenceStep DEF Fatally
<1>4. QED BY <1>1, <1>2, <1>3, TypeCorrect, PhasesHold, PTL DEF Spec, ErrorRoutes

-----------------------------------------------------------------------------
(* The hub nobody asks to be an access point. Held down, the button can    *)
(* take a mode change down on its way: its apSet sends enfba to regis, and *)
(* launches go on for a mode the state machine has left. Without it the    *)
(* hub ends every change it begins, and the three invariants follow.       *)

NoAccess == Lacks(evtQ, "apSet") /\ masterState \notin {"engap", "apSet"}

\* The mode desired is the one of the state.
Sought == /\ masterState = "regis" => ctl.desired = "none"
          /\ masterState = "fbset" => ctl.desired = "fallback"
          /\ masterState = "idset" => ctl.desired = "idle"

\* On the way to fallback no disengagement is under way.
Alone == masterState = "enfba" =>
           /\ Lacks(evtQ, "diseng")
           /\ launcher.at = "idle" \/ launcher.mode = "fallback"

\* On the way to idle no other launch is.
LaunchingIdle ==
  \/ /\ Bare(evtQ) /\ Sound /\ NoneEngaging /\ FallbackOut /\ IdleOnly
     /\ confirmed \subseteq confirmation
     /\ \/ Resting
        \/ Polling("idle")
        \/ launcher = [at |-> "waitIdle", mode |-> "idle"] /\ confirmed = ModeTasks.idle
  \/ One(evtQ, "idset") /\ Quiet("idle") /\ FallbackOut

CleanIdling == masterState = "enidl" => LaunchingIdle

\* Neither the launch under way nor the next one withdraws a task that may run.
Harmless == /\ ctl.run \subseteq confirmation
            /\ ctl.run \cap DisengageRequest[ctl.desired] = {}
            /\ launcher.at # "idle" => ctl.run \cap DisengageRequest[launcher.mode] = {}

\* Flash holds the mode from the turn on that asks for it.
Saved == /\ masterState = "regis" /\ ~Lacks(evtQ, "crtld") => nvs.mode = "runmod"
         /\ masterState \in {"engag", "runn"} => nvs.mode = "runmod"
         /\ masterState \in {"enfba", "fbset"} => nvs.mode = "fbkmod"

\* Without a layout, and without a console that could choose one.
Blank == ~nvs.layout /\ ctl.run = {} /\ at["console"] # "run"

\* A mode that is set may run, unless an idtrg has cut the way to it short.
Engaged ==
  /\ masterState = "runn" => ModeTasks["running"] \subseteq ctl.run
  /\ masterState = "idset" => ModeTasks["idle"] \subseteq ctl.run
  /\ masterState \in {"regis", "enfba"} /\ ~Lacks(evtQ, "idtrg") => Blank
  /\ masterState = "fbset" =>
       Blank \/ (ModeTasks["fallback"] \subseteq ctl.run /\ Quiet("fallback"))

Straight == NoAccess /\ Sought /\ Alone /\ CleanIdling /\ Harmless /\ Saved /\ Engaged

\* A hub that leaves a mode or fails has little to keep.
LEMMA LeavesStraight ==
  ASSUME masterState' \in {"flash", "diseng", "engup", "updat", "error"},
         Lacks(evtQ', "apSet"), Harmless'
  PROVE  Straight'
BY DEF Straight, NoAccess, Sought, Alone, CleanIdling, Saved, Engaged

\* No run flag is up at rest.
LEMMA QuietNone ==
  ASSUME Quiet("none")
  PROVE  ctl.run = {}
BY ModeFacts DEF Quiet, Resting, Rested, Sound

\* With all run flags down no launch can do harm.
LEMMA NothingRuns ==
  ASSUME ctl.run = {}
  PROVE  Harmless
BY DEF Harmless

\* What the launches withdraw.
LEMMA Withdrawn ==
  /\ DisengageRequest["idle"] = {} /\ DisengageRequest["running"] = {"fallback"}
  /\ DisengageRequest["fallback"] = {"execute"}
BY DEF DisengageRequest

\* A turn that lowers run flags for the mode desired, or for no other.
LEMMA LowersHarmless ==
  ASSUME runMasterFSM, Harmless, ctl'.run \subseteq ctl.run,
         ctl'.run \cap DisengageRequest[ctl'.desired] = {}
  PROVE  Harmless'
BY TurnKeeps DEF Harmless

\* A turn into the error state.
LEMMA StraightFailure ==
  ASSUME TypeOK, runMasterFSM, Straight, Fails(masterState, Head(evtQ))
  PROVE  Straight'
<1>1. masterState' = "error" /\ ctl' = ctl
  BY EffectRuns DEF runMasterFSM, Fails, TypeOK
<1>2. Harmless'
  BY <1>1, LowersHarmless DEF Straight, Harmless
<1>3. QED BY <1>1, <1>2, TailLacks, LeavesStraight DEF Straight, NoAccess

\* Into regis the state machine comes at rest.
LEMMA StraightToRegistration ==
  ASSUME TypeOK, runMasterFSM, Straight, masterState' = "regis", Quiet("none"), Bare(evtQ'),
         ctl'.run \subseteq ctl.run, ctl'.desired = ctl.desired
  PROVE  Straight'
<1>1. Lacks(evtQ', "apSet") /\ Lacks(evtQ', "crtld") /\ Lacks(evtQ', "idtrg")
  BY TailLacks, LacksOf DEF Straight, NoAccess, Orders
<1>2. ctl'.desired = "none" /\ ctl'.run = {}
  BY QuietNone DEF Quiet
<1>3. Harmless'
  BY <1>2, NothingRuns, TurnKeeps DEF Harmless
<1>4. QED
  BY <1>1, <1>2, <1>3 DEF Straight, NoAccess, Sought, Alone, CleanIdling, Saved, Engaged

LEMMA StraightInFlash ==
  ASSUME TypeOK, runMasterFSM, Straight, InFlash
  PROVE  Straight'
<1>1. masterState' = "regis" /\ ctl' = Effect("rgstr", ctl) /\ ctl \in CtlType
  BY ATurn, Cells DEF InFlash, TypeOK
<1>2. ctl'.run \subseteq ctl.run /\ ctl'.desired = ctl.desired
  BY <1>1, EffectRuns
<1>3. QED BY <1>1, <1>2, TurnQueue, StraightToRegistration DEF InFlash

LEMMA StraightAtRest ==
  ASSUME TypeOK, runMasterFSM, Straight, AtRest
  PROVE  Straight'
<1> DEFINE e == Head(evtQ)
<1>1. masterState = "updat" /\ ctl \in CtlType
  BY DEF Straight, NoAccess, AtRest, TypeOK
<1>2. CASE e = "flashOk"
  BY <1>1, <1>2, ErrorCells, StraightFailure
<1>3. CASE e \in {"apSet", "trgfb", "trgup"}
  <2>1. masterState' = "updat" /\ ctl' = ctl
    BY <1>1, <1>3, ATurn, Cells, EffectRuns
  <2>2. Harmless' /\ Lacks(evtQ', "apSet")
    BY <2>1, LowersHarmless, TailLacks DEF Straight, Harmless, NoAccess
  <2>3. QED BY <2>1, <2>2, LeavesStraight
<1>4. QED BY <1>2, <1>3, TurnQueue DEF AtRest, Orders

\* From regis the way to every mode begins at rest.
LEMMA StraightRegistering ==
  ASSUME TypeOK, Rules, runMasterFSM, Silence, Straight, Registering
  PROVE  Straight'
<1> DEFINE e == Head(evtQ)
<1>1. /\ masterState = "regis" /\ ctl \in CtlType /\ Quiet("none") /\ ctl.run = {}
      /\ Resting /\ Sound /\ confirmed = {} /\ NoneEngaging
  BY QuietNone, ModeFacts DEF Registering, TypeOK, Quiet, Resting, Rested
<1>2. \/ e = "trgup"
      \/ e = "flashOk" \/ e = "trgfb"
      \/ e = "crtld" /\ Bare(evtQ')
      \/ e = "idtrg" /\ Bare(evtQ')
  BY TurnQueue, TailLacks DEF Registering, Orders, Straight, NoAccess
<1>3. Lacks(evtQ', "apSet")
  BY TailLacks DEF Straight, NoAccess
<1>4. CASE e = "trgup"
  BY <1>1, <1>4, ErrorCells, StraightFailure
<1>5. CASE e = "flashOk"
  BY <1>1, <1>5, TailLacks DEF Silence, SilentStates, Silent, Registering, Quiet
<1>6. CASE e = "trgfb"
  <2>1. Turn(masterState, e, "enfba", "trgfb")
    BY <1>1, <1>6, Cells
  <2>2. /\ masterState' = "enfba" /\ ctl'.desired = "fallback" /\ ctl'.run = {}
        /\ nvs'.mode = "fbkmod" /\ nvs'.layout = nvs.layout
    BY <1>1, <2>1, ATurn, EffectRuns DEF runMasterFSM, Turn, SavedMode, TypeOK
  <2>3. Lacks(evtQ', "diseng")
    <3>1. Lacks(evtQ, "diseng")
      BY LacksOf DEF Registering, Orders
    <3>2. QED BY <3>1, TailLacks
  <2>4. Harmless' /\ launcher'.at = "idle"
    BY <1>1, <2>2, NothingRuns, TurnKeeps DEF Harmless, Resting
  <2>5. ~Lacks(evtQ', "idtrg") => Blank'
    BY <1>1, <2>2, TailLacks, TurnKeeps DEF Straight, Engaged, Blank
  <2>6. QED
    BY <1>3, <2>2, <2>3, <2>4, <2>5
       DEF Straight, NoAccess, Sought, Alone, CleanIdling, Saved, Engaged
<1>7. CASE e = "crtld"
  <2>1. Turn(masterState, e, "engag", "engag")
    BY <1>1, <1>7, Cells
  <2>2. masterState' = "engag" /\ ctl'.run = {} /\ nvs' = nvs
    <3>1. masterState' = "engag" /\ ctl'.run \subseteq ctl.run
      BY <1>1, <2>1, ATurn, EffectRuns
    <3>2. nvs' = nvs
      BY <2>1 DEF runMasterFSM, Turn, SavedMode, TypeOK
    <3>3. QED BY <1>1, <3>1, <3>2
  <2>3. nvs.mode = "runmod"
    BY <1>1, <1>7, TailLacks DEF Straight, Saved
  <2>4. Harmless'
    BY <2>2, NothingRuns DEF Harmless
  <2>5. QED
    BY <1>3, <2>2, <2>3, <2>4
       DEF Straight, NoAccess, Sought, Alone, CleanIdling, Saved, Engaged
<1>8. CASE e = "idtrg" /\ Bare(evtQ')
  <2>1. Turn(masterState, e, "enidl", "trgid")
    BY <1>1, <1>8, Cells
  <2>2. masterState' = "enidl" /\ ctl'.run = {}
    BY <1>1, <2>1, ATurn, EffectRuns
  <2>3. Harmless'
    BY <2>2, NothingRuns DEF Harmless
  <2>4. Resting' /\ Sound' /\ NoneEngaging' /\ confirmed' \subseteq confirmation'
    BY <1>1, <2>2, StillSound, TurnKeeps
  <2>5. FallbackOut' /\ IdleOnly'
    <3>1. confirmation = {} /\ confirmed = {}
      BY <1>1 DEF Resting, Rested
    <3>2. \A t \in Tasks : ~Live(t)
      BY <1>1, <3>1 DEF Live, Sound, NoneEngaging
    <3>3. FallbackOut' /\ ~Live("deploy")' /\ ~Live("execute")' /\ ~Live("fallback")'
      BY <2>2, <3>2, ModeFacts, TurnKeeps DEF FallbackOut, Live
    <3>4. QED BY <3>1, <3>3, TurnKeeps DEF IdleOnly
  <2>6. QED
    BY <1>3, <1>8, <2>2, <2>3, <2>4, <2>5
       DEF Straight, NoAccess, Sought, Alone, CleanIdling, LaunchingIdle, Saved, Engaged
<1>9. QED BY <1>2, <1>4, <1>5, <1>6, <1>7, <1>8


\* The launch of running ends in running.
LEMMA StraightEngaging ==
  ASSUME TypeOK, Rules, runMasterFSM, Silence, Straight, Engaging
  PROVE  Straight'
<1> DEFINE e == Head(evtQ)
<1>1. /\ masterState = "engag" /\ ctl \in CtlType /\ ctl.desired = "running" /\ FallbackOut
      /\ nvs.mode = "runmod"
  BY DEF Silence, NeverEngaging, Engaging, TypeOK, Straight, Saved
<1>2. \/ e \in {"trgfb", "trgup", "fbset"}
      \/ e = "engaged" /\ Quiet("running")
  BY <1>1, TailLacks, TurnQueue
     DEF Silence, SilentStates, Silent, Engaging, EngagingStage, Orders, Straight, NoAccess
<1>3. Lacks(evtQ', "apSet")
  BY TailLacks DEF Straight, NoAccess
<1>4. CASE e \in {"trgfb", "trgup", "fbset"}
  <2>1. Turn(masterState, e, "engag", "noop")
    BY <1>1, <1>4, Cells
  <2>2. masterState' = "engag" /\ ctl' = ctl /\ nvs' = nvs
    <3>1. masterState' = "engag" /\ ctl' = ctl
      BY <1>1, <2>1, ATurn, EffectRuns
    <3>2. nvs' = nvs
      BY <2>1 DEF runMasterFSM, Turn, SavedMode, TypeOK
    <3>3. QED BY <3>1, <3>2
  <2>3. Harmless'
    BY <2>2, LowersHarmless DEF Straight, Harmless
  <2>4. QED
    BY <1>1, <1>3, <2>2, <2>3
       DEF Straight, NoAccess, Sought, Alone, CleanIdling, Saved, Engaged
<1>5. CASE e = "engaged" /\ Quiet("running")
  <2>1. Turn(masterState, e, "runn", "trgRunning")
    BY <1>1, <1>5, Cells
  <2>2. /\ masterState' = "runn" /\ ctl'.run = ctl.run \cup ModeTasks["running"]
        /\ ctl'.desired = "running"
    <3>1. masterState' = "runn" /\ ctl' = Effect("trgRunning", ctl)
      BY <2>1, ATurn
    <3>2. QED BY <1>1, <3>1, EffectRuns
  <2>3. nvs' = nvs
    BY <2>1 DEF runMasterFSM, Turn, SavedMode, TypeOK
  <2>4. Harmless'
    <3>1. confirmation = ModeTasks["running"] /\ ctl.run \subseteq confirmation
      BY <1>5 DEF Quiet, Resting, Rested, Sound
    <3>2. "fallback" \notin ctl'.run
      BY <1>1, <2>2, ModeFacts DEF FallbackOut
    <3>3. launcher'.at = "idle"
      BY <1>5, TurnKeeps DEF Quiet, Resting
    <3>4. QED BY <2>2, <3>1, <3>2, <3>3, TurnKeeps, Withdrawn DEF Harmless
  <2>5. QED
    BY <1>1, <1>3, <2>2, <2>3, <2>4
       DEF Straight, NoAccess, Sought, Alone, CleanIdling, Saved, Engaged
<1>6. QED BY <1>2, <1>4, <1>5

\* A mode that is set is left for a rest, an update, or fallback.
LEMMA StraightDismissed ==
  ASSUME TypeOK, runMasterFSM, Straight, NEW next \in {"diseng", "engup"},
         NEW effect \in {"disen", "fbdis"}, Turn(masterState, Head(evtQ), next, effect)
  PROVE  Straight'
<1>1. ctl \in CtlType /\ Lacks(evtQ', "apSet")
  BY TailLacks DEF TypeOK, Straight, NoAccess
<1>2. masterState' = next /\ ctl'.run = {}
  BY <1>1, ATurn, EffectRuns
<1>3. Harmless'
  BY <1>2 DEF Harmless
<1>4. QED BY <1>1, <1>2, <1>3, LeavesStraight

LEMMA StraightToFallback ==
  ASSUME TypeOK, runMasterFSM, Straight, Turn(masterState, Head(evtQ), "enfba", "trgfb"),
         Resting, Bare(evtQ')
  PROVE  Straight'
<1>1. ctl \in CtlType /\ Lacks(evtQ', "apSet") /\ Lacks(evtQ', "diseng") /\ Lacks(evtQ', "idtrg")
  BY TailLacks, LacksOf DEF TypeOK, Straight, NoAccess, Orders
<1>2. /\ masterState' = "enfba" /\ ctl'.desired = "fallback" /\ ctl'.run \subseteq ctl.run
      /\ "execute" \notin ctl'.run
  BY <1>1, ATurn, EffectRuns
<1>3. nvs'.mode = "fbkmod"
  BY DEF runMasterFSM, Turn, SavedMode, TypeOK
<1>4. launcher'.at = "idle"
  BY TurnKeeps DEF Resting
<1>5. Harmless'
  BY <1>2, LowersHarmless, Withdrawn DEF Straight
<1>6. QED
  BY <1>1, <1>2, <1>3, <1>4, <1>5
     DEF Straight, NoAccess, Sought, Alone, CleanIdling, Saved, Engaged

LEMMA StraightRunning ==
  ASSUME TypeOK, runMasterFSM, Straight, Running
  PROVE  Straight'
<1> DEFINE e == Head(evtQ)
<1>1. /\ masterState = "runn" /\ Resting /\ Bare(evtQ')
      /\ e \in {"flashOk", "trgfb", "trgup"}
  BY TurnQueue, TailLacks DEF Running, Quiet, Orders, Straight, NoAccess
<1>2. \/ \E s \in {"diseng", "engup"} : Turn(masterState, e, s, "disen")
      \/ Turn(masterState, e, "enfba", "trgfb")
  BY <1>1, Cells
<1>3. QED BY <1>1, <1>2, StraightDismissed, StraightToFallback

LEMMA StraightIdle ==
  ASSUME TypeOK, runMasterFSM, Straight, Idle
  PROVE  Straight'
<1> DEFINE e == Head(evtQ)
<1>1. /\ masterState = "idset" /\ Resting /\ Bare(evtQ')
      /\ e \in {"flashOk", "trgfb", "trgup"}
  BY TurnQueue, TailLacks DEF Idle, Quiet, Orders, Straight, NoAccess
<1>2. \/ Turn(masterState, e, "engup", "disen")
      \/ Turn(masterState, e, "enfba", "trgfb")
      \/ Fails(masterState, e)
  BY <1>1, Cells, ErrorCells
<1>3. QED BY <1>1, <1>2, StraightDismissed, StraightToFallback, StraightFailure

\* On the way to fallback an idtrg cuts it short, fbset ends it.
LEMMA StraightFallingBack ==
  ASSUME TypeOK, Rules, runMasterFSM, Straight, FallingBack
  PROVE  Straight'
<1> DEFINE e == Head(evtQ)
<1>1. /\ masterState = "enfba" /\ ctl \in CtlType /\ ctl.desired = "fallback"
      /\ FallbackOut /\ "execute" \notin ctl.run
      /\ nvs.mode = "fbkmod"
  BY DEF FallingBack, TypeOK, Straight, Sought, Saved
<1>2. \/ e \in {"flashOk", "trgfb", "trgup", "crtld"}
      \/ e = "idtrg"
      \/ e = "fbset" /\ Quiet("fallback")
  BY <1>1, TailLacks, QueueFallingBack DEF Straight, NoAccess, Alone, Orders, Late
<1>3. Lacks(evtQ', "apSet") /\ Lacks(evtQ', "diseng") /\ launcher' = launcher
  BY <1>1, TailLacks, TurnKeeps DEF Straight, NoAccess, Alone
<1>4. CASE e = "flashOk"
  BY <1>1, <1>4, ErrorCells, StraightFailure
<1>5. CASE e \in {"trgfb", "trgup", "crtld"}
  <2>1. PICK n \in {"noop", "erro"} : Turn(masterState, e, "enfba", n)
    BY <1>1, <1>5, Cells
  <2>2. masterState' = "enfba" /\ ctl' = ctl
    BY <1>1, <2>1, ATurn, EffectRuns
  <2>3. nvs' = nvs
    BY <2>1 DEF runMasterFSM, Turn, SavedMode, TypeOK
  <2>4. Harmless'
    BY <2>2, LowersHarmless DEF Straight, Harmless
  <2>5. ~Lacks(evtQ', "idtrg") => Blank'
    BY <1>1, <2>2, <2>3, TailLacks, TurnKeeps DEF Straight, Engaged, Blank
  <2>6. QED
    BY <1>1, <1>3, <2>2, <2>3, <2>4, <2>5
       DEF Straight, NoAccess, Sought, Alone, CleanIdling, Saved, Engaged
<1>6. CASE e = "idtrg"
  <2>1. Turn(masterState, e, "fbset", "noop")
    BY <1>1, <1>6, Cells
  <2>2. masterState' = "fbset" /\ ctl' = ctl
    BY <1>1, <2>1, ATurn, EffectRuns
  <2>3. nvs' = nvs
    BY <2>1 DEF runMasterFSM, Turn, SavedMode, TypeOK
  <2>4. Harmless'
    BY <2>2, LowersHarmless DEF Straight, Harmless
  <2>5. Blank'
    BY <1>1, <1>6, <2>2, <2>3, TailLacks, TurnKeeps DEF Straight, Engaged, Blank
  <2>6. QED
    BY <1>1, <1>3, <2>2, <2>3, <2>4, <2>5
       DEF Straight, NoAccess, Sought, Alone, CleanIdling, Saved, Engaged
<1>7. CASE e = "fbset" /\ Quiet("fallback")
  <2>1. Turn(masterState, e, "fbset", "fbSet")
    BY <1>1, <1>7, Cells
  <2>2. /\ masterState' = "fbset" /\ ctl'.run = ctl.run \cup ModeTasks["fallback"]
        /\ ctl'.desired = ctl.desired
    <3>1. masterState' = "fbset" /\ ctl' = Effect("fbSet", ctl)
      BY <2>1, ATurn
    <3>2. QED BY <1>1, <3>1, EffectRuns
  <2>3. nvs' = nvs
    BY <2>1 DEF runMasterFSM, Turn, SavedMode, TypeOK
  <2>4. confirmation = ModeTasks["fallback"] /\ ctl.run \subseteq confirmation
    BY <1>7 DEF Quiet, Resting, Rested, Sound
  <2>5. Quiet("fallback")'
    BY <1>7, <2>2, <2>4, StillQuiet
  <2>6. Harmless'
    <3>1. "execute" \notin ctl'.run
      BY <1>1, <2>2, ModeFacts
    <3>2. launcher'.at = "idle"
      BY <2>5 DEF Quiet, Resting
    <3>3. QED BY <1>1, <2>2, <2>4, <3>1, <3>2, TurnKeeps, Withdrawn DEF Harmless
  <2>7. QED
    BY <1>1, <1>3, <2>2, <2>3, <2>5, <2>6
       DEF Straight, NoAccess, Sought, Alone, CleanIdling, Saved, Engaged
<1>8. QED BY <1>2, <1>4, <1>5, <1>6, <1>7

LEMMA StraightFallback ==
  ASSUME TypeOK, runMasterFSM, Straight, Fallback
  PROVE  Straight'
<1> DEFINE e == Head(evtQ)
<1>1. /\ masterState = "fbset" /\ ctl \in CtlType /\ ctl.desired = "fallback"
      /\ e \in {"flashOk", "trgfb", "trgup", "fbset"}
      /\ Lacks(evtQ', "apSet")
  BY TurnQueue, TailLacks DEF Fallback, FallbackStage, TypeOK, Orders, Straight, NoAccess
<1>2. CASE e # "fbset"
  <2>1. PICK s \in {"diseng", "engup"}, n \in {"disen", "fbdis"} : Turn(masterState, e, s, n)
    BY <1>1, <1>2, Cells
  <2>2. QED BY <2>1, StraightDismissed
<1>3. CASE e = "fbset"
  <2>1. Turn(masterState, e, "fbset", "noop")
    BY <1>1, <1>3, Cells
  <2>2. masterState' = "fbset" /\ ctl' = ctl
    BY <1>1, <2>1, ATurn, EffectRuns
  <2>3. nvs' = nvs
    BY <2>1 DEF runMasterFSM, Turn, SavedMode, TypeOK
  <2>4. Harmless'
    BY <2>2, LowersHarmless DEF Straight, Harmless
  <2>5. (Blank => Blank') /\ (Quiet("fallback") => Quiet("fallback")')
    BY <2>2, <2>3, StillQuiet, TurnKeeps DEF Blank
  <2>6. QED
    BY <1>1, <2>2, <2>3, <2>4, <2>5
       DEF Straight, NoAccess, Sought, Alone, CleanIdling, Saved, Engaged
<1>4. QED BY <1>2, <1>3

\* The launch of idle ends in idle.
LEMMA StraightIdling ==
  ASSUME TypeOK, runMasterFSM, Straight, Idling
  PROVE  Straight'
<1> DEFINE e == Head(evtQ)
<1>1. /\ masterState = "enidl" /\ ctl \in CtlType /\ ctl.desired = "idle" /\ LaunchingIdle
      /\ Lacks(evtQ', "apSet")
  BY TailLacks DEF Idling, TypeOK, Straight, CleanIdling, NoAccess
<1>2. \/ e \in {"flashOk", "trgfb", "trgup"}
      \/ e = "idset" /\ Quiet("idle") /\ Bare(evtQ')
  BY <1>1, TurnQueue, TailLacks DEF LaunchingIdle, Orders, Straight, NoAccess
<1>3. CASE e = "flashOk"
  BY <1>1, <1>3, ErrorCells, StraightFailure
<1>4. CASE e \in {"trgfb", "trgup"}
  <2>1. Turn(masterState, e, "enidl", "noop")
    BY <1>1, <1>4, Cells
  <2>2. masterState' = "enidl" /\ ctl' = ctl
    BY <1>1, <2>1, ATurn, EffectRuns
  <2>3. Harmless'
    BY <2>2, LowersHarmless DEF Straight, Harmless
  <2>4. LaunchingIdle'
    <3>1. CASE One(evtQ, "idset") /\ Quiet("idle") /\ FallbackOut
      <4>1. One(evtQ', "idset")
        BY <1>4, <3>1, TurnQueue DEF Orders
      <4>2. Quiet("idle")' /\ FallbackOut'
        BY <2>2, <3>1, StillQuiet, TurnKeeps DEF FallbackOut
      <4>3. QED BY <4>1, <4>2 DEF LaunchingIdle
    <3>2. CASE ~(One(evtQ, "idset") /\ Quiet("idle") /\ FallbackOut)
      <4>1. Bare(evtQ') /\ Sound' /\ NoneEngaging' /\ (Resting => Resting')
        BY <1>1, <2>2, <3>2, TurnQueue, StillSound, TurnKeeps DEF LaunchingIdle
      <4>2. FallbackOut' /\ IdleOnly' /\ confirmed' \subseteq confirmation'
        BY <1>1, <2>2, <3>2, TurnKeeps DEF LaunchingIdle, FallbackOut, IdleOnly
      <4>3. UNCHANGED <<launcher, confirmed>>
        BY TurnKeeps
      <4>4. QED BY <1>1, <3>2, <4>1, <4>2, <4>3 DEF LaunchingIdle, Polling
    <3>3. QED BY <3>1, <3>2
  <2>5. QED
    BY <1>1, <2>2, <2>3, <2>4
       DEF Straight, NoAccess, Sought, Alone, CleanIdling, Saved, Engaged
<1>5. CASE e = "idset" /\ Quiet("idle") /\ Bare(evtQ')
  <2>1. Turn(masterState, e, "idset", "idset")
    BY <1>1, <1>5, Cells
  <2>2. /\ masterState' = "idset" /\ ctl'.run = ctl.run \cup ModeTasks["idle"]
        /\ ctl'.desired = "idle"
    <3>1. masterState' = "idset" /\ ctl' = Effect("idset", ctl)
      BY <2>1, ATurn
    <3>2. QED BY <1>1, <3>1, EffectRuns
  <2>3. confirmation = ModeTasks["idle"] /\ ctl.run \subseteq confirmation
    BY <1>5 DEF Quiet, Resting, Rested, Sound
  <2>4. Harmless'
    <3>1. launcher'.at = "idle"
      BY <1>5, TurnKeeps DEF Quiet, Resting
    <3>2. QED BY <2>2, <2>3, <3>1, TurnKeeps, Withdrawn DEF Harmless
  <2>5. QED
    BY <1>1, <2>2, <2>4
       DEF Straight, NoAccess, Sought, Alone, CleanIdling, Saved, Engaged
<1>6. QED BY <1>2, <1>3, <1>4, <1>5

LEMMA StraightLeaving ==
  ASSUME TypeOK, runMasterFSM, Straight, Leaving
  PROVE  Straight'
<1> DEFINE e == Head(evtQ)
<1>1. /\ masterState \in {"diseng", "engup"} /\ ctl \in CtlType
      /\ ctl.run = {} /\ ctl.desired = "none"
      /\ Lacks(evtQ', "apSet")
  BY TailLacks DEF Leaving, TypeOK, Straight, Sought, NoAccess
<1>2. \/ e \in {"flashOk", "trgfb", "trgup", "fbset"}
      \/ e = "diseng" /\ Bare(evtQ') /\ Quiet("none")
  BY QueueLeaving, TailLacks DEF Orders, Straight, NoAccess
<1>3. CASE e = "flashOk"
  BY <1>1, <1>3, ErrorCells, StraightFailure
<1>4. CASE e \in {"trgfb", "trgup", "fbset"}
  <2>1. Turn(masterState, e, masterState, "noop")
    BY <1>1, <1>4, Cells
  <2>2. masterState' = masterState /\ ctl' = ctl
    BY <1>1, <2>1, ATurn, EffectRuns
  <2>3. Harmless'
    BY <2>2, LowersHarmless DEF Straight, Harmless
  <2>4. QED BY <1>1, <2>2, <2>3, LeavesStraight
<1>5. CASE e = "diseng" /\ Bare(evtQ') /\ Quiet("none")
  <2>1. PICK s \in {"regis", "updat"}, n \in {"rgstr", "updat"} : Turn(masterState, e, s, n)
    BY <1>1, <1>5, Cells
  <2>2. masterState' = s /\ ctl'.run \subseteq ctl.run /\ ctl'.desired = ctl.desired
    BY <1>1, <2>1, ATurn, EffectRuns
  <2>3. Harmless'
    BY <1>1, <2>2 DEF Harmless
  <2>4. QED BY <1>1, <1>5, <2>2, <2>3, LeavesStraight, StraightToRegistration
<1>6. QED BY <1>2, <1>3, <1>4, <1>5

\* A turn of the state machine in any phase.
LEMMA StraightTurn ==
  ASSUME TypeOK, Rules, Phase, Silence, Straight, runMasterFSM
  PROVE  Straight'
<1>1. CASE masterState = "error"
  BY <1>1, ErrorCells, StraightFailure
<1>2. CASE masterState # "error"
  BY <1>2, StraightInFlash, StraightAtRest, StraightRegistering, StraightEngaging,
     StraightRunning, StraightFallingBack, StraightFallback, StraightIdling, StraightIdle,
     StraightLeaving DEF Phase
<1>3. QED BY <1>1, <1>2


\* The launcher goes on with the launch of the state.
LEMMA StraightLauncher ==
  ASSUME TypeOK, SlowTasks, Phase, Straight, Launcher
  PROVE  Straight'
<1>1. /\ UNCHANGED <<masterState, ctl, confirmation, at, nvs>>
      /\ launcher.mode \in Modes /\ evtQ \in Seq(MEvents)
  BY LauncherKeeps DEF Launcher, launcher_task, launch_start, updateCurrent, launch_outcome,
                       launch_idle_wait, LauncherUnchanged, envv, TypeOK
<1>2. evtQ' = evtQ \/ (evtQ' = Append(evtQ, Outcome[launcher.mode]) /\ launcher.at # "idle")
  BY DEF Launcher, launcher_task, launch_start, updateCurrent, launch_outcome,
         launch_idle_wait, Queue
<1>3. /\ \A m \in Modes : Outcome[m] \notin {"apSet", "crtld", "idtrg"}
      /\ \A m \in {"running", "fallback", "idle"} : Outcome[m] # "diseng"
  BY DEF Modes, Outcome
<1>4. \A x \in {"apSet", "crtld", "idtrg"} : Lacks(evtQ, x) => Lacks(evtQ', x)
  BY <1>1, <1>2, <1>3 DEF Lacks
<1>5. \/ launcher'.at = "idle"
      \/ launcher.at # "idle" /\ launcher'.mode = launcher.mode
      \/ launcher.at = "idle" /\ launcher'.mode = ctl.desired
  BY DEF Launcher, launcher_task, launch_start, updateCurrent, launch_outcome,
         launch_idle_wait, TypeOK
<1>6. NoAccess' /\ Sought' /\ Saved'
  BY <1>1, <1>4 DEF Straight, NoAccess, Sought, Saved
<1>7. Harmless'
  BY <1>1, <1>5 DEF Straight, Harmless
<1>8. Alone'
  <2> SUFFICES ASSUME masterState = "enfba"
               PROVE  /\ Lacks(evtQ', "diseng")
                      /\ launcher'.at = "idle" \/ launcher'.mode = "fallback"
    BY <1>1 DEF Alone
  <2>1. ctl.desired = "fallback"
    BY DEF Phase, InFlash, AtRest, Registering, Engaging, Running, FallingBack, Fallback,
           Idling, Idle, Leaving
  <2>2. Lacks(evtQ, "diseng") /\ (launcher.at = "idle" \/ launcher.mode = "fallback")
    BY DEF Straight, Alone
  <2>3. Lacks(evtQ', "diseng")
    BY <1>1, <1>2, <1>3, <2>2 DEF Lacks
  <2>4. QED BY <1>5, <2>1, <2>2, <2>3
<1>9. CleanIdling'
  <2> SUFFICES ASSUME masterState = "enidl" PROVE LaunchingIdle'
    BY <1>1 DEF CleanIdling
  <2>1. /\ ctl.desired = "idle" /\ LaunchingIdle
        /\ Sound' = Sound /\ NoneEngaging' = NoneEngaging /\ FallbackOut' = FallbackOut
    BY LauncherKeeps DEF Straight, CleanIdling, Phase, InFlash, AtRest, Registering, Engaging,
           Running, FallingBack, Fallback, Idling, Idle, Leaving
  <2>2. /\ Bare(evtQ) /\ Sound /\ NoneEngaging /\ FallbackOut /\ IdleOnly
        /\ confirmed \subseteq confirmation
        /\ \/ Resting
           \/ Polling("idle")
           \/ launcher = [at |-> "waitIdle", mode |-> "idle"] /\ confirmed = ModeTasks.idle
    BY <2>1, QuietStep DEF LaunchingIdle
  <2>3. CASE Resting
    <3>1. Polling("idle")' /\ confirmed' = confirmed /\ evtQ' = evtQ
      BY <1>1, <2>1, <2>3, RestStep DEF Resting
    <3>2. QED BY <1>1, <2>1, <2>2, <3>1, IdleRead DEF LaunchingIdle
  <2>4. CASE Polling("idle")
    <3>1. \/ confirmed' = confirmation /\ launcher' = launcher /\ evtQ' = evtQ
          \/ /\ ModeTasks["idle"] = confirmed /\ confirmed' = confirmed
             /\ launcher' = [at |-> "waitIdle", mode |-> "idle"] /\ evtQ' = evtQ
      BY <2>1, <2>4, PollStep
    <3>2. IdleOnly' /\ confirmed' \subseteq confirmation'
      BY <1>1, <2>2, <3>1, IdleRead
    <3>3. QED BY <1>1, <2>1, <2>2, <2>4, <3>1, <3>2 DEF LaunchingIdle, Polling
  <2>5. CASE launcher = [at |-> "waitIdle", mode |-> "idle"] /\ confirmed = ModeTasks.idle
    <3>1. /\ confirmed' = confirmed /\ launcher' = [at |-> "idle", mode |-> "idle"]
          /\ evtQ' = Append(evtQ, "idset")
      BY <2>5, WaitIdleStep
    <3>2. confirmation = confirmed
      BY <2>2, <2>5, IdleRead
    <3>3. Quiet("idle")' /\ One(evtQ', "idset")
      BY <1>1, <2>1, <2>2, <2>5, <3>1, <3>2, AnswerBehind DEF Quiet, Resting, Rested
    <3>4. QED BY <2>1, <2>2, <3>3 DEF LaunchingIdle
  <2>6. QED BY <2>2, <2>3, <2>4, <2>5
<1>10. Engaged'
  <2>1. Blank => Blank'
    BY <1>1 DEF Blank
  <2>2. ~Quiet("fallback")
    BY QuietStep
  <2>3. QED BY <1>1, <1>4, <2>1, <2>2 DEF Straight, Engaged
<1>11. QED BY <1>6, <1>7, <1>8, <1>9, <1>10 DEF Straight

\* A task withdraws only as it is asked to, and none that may run is asked.
LEMMA StraightTask ==
  ASSUME TypeOK, FlagsOfLaunch, Straight, NEW t \in Tasks, Task(t)
  PROVE  Straight'
<1>1. UNCHANGED <<masterState, evtQ, ctl, confirmed, launcher>> /\ nvs' = nvs
  BY TaskKeeps DEF Task, task_engage, task_engage_slowly, task_engagement_done, task_isRun,
       task_run, task_disengage, task_disengagement_done, deployment_loaded,
       wait_for_deployment, TaskUnchanged, envv
<1>2. disengageFlag \cap ctl.run = {}
  BY DEF FlagsOfLaunch, Straight, Harmless, TypeOK
<1>3. NoAccess' /\ Sought' /\ Alone' /\ Saved'
  BY <1>1 DEF Straight, NoAccess, Sought, Alone, Saved
<1>4. Harmless'
  <2>1. ctl.run \subseteq confirmation /\ ctl.run \subseteq Tasks
    BY DEF Straight, Harmless, TypeOK, CtlType
  <2>2. ctl.run \subseteq confirmation'
    BY <1>2, <2>1, WhoDisengages
  <2>3. QED BY <1>1, <2>2 DEF Straight, Harmless
<1>5. CleanIdling'
  <2> SUFFICES ASSUME masterState = "enidl" PROVE LaunchingIdle'
    BY <1>1 DEF CleanIdling
  <2>1. LaunchingIdle
    BY DEF Straight, CleanIdling
  <2>2. CASE One(evtQ, "idset") /\ Quiet("idle") /\ FallbackOut
    BY <1>1, <1>2, <2>2, TasksRest, TasksSound DEF LaunchingIdle
  <2>3. CASE /\ Bare(evtQ) /\ Sound /\ NoneEngaging /\ FallbackOut /\ IdleOnly
             /\ confirmed \subseteq confirmation
             /\ \/ Resting
                \/ Polling("idle")
                \/ /\ launcher = [at |-> "waitIdle", mode |-> "idle"]
                   /\ confirmed = ModeTasks.idle
    <3>1. engageFlag \subseteq EngageRequest["idle"] /\ disengageFlag = {}
      BY <2>3, FlagsIn, Requests DEF Modes, Resting
    <3>2. engageFlag \cap {"deploy", "execute"} = {}
      BY <3>1, Requests DEF Modes
    <3>3. /\ Sound' /\ NoneEngaging' /\ IdleOnly' /\ FallbackOut'
          /\ confirmed' \subseteq confirmation'
      BY <1>1, <1>2, <2>3, <3>1, <3>2, TasksSound, IdleStays
    <3>4. Resting => Resting'
      BY <1>2, TasksRest
    <3>5. QED BY <1>1, <2>3, <3>3, <3>4 DEF LaunchingIdle, Polling
  <2>4. QED BY <2>1, <2>2, <2>3 DEF LaunchingIdle
<1>6. Engaged'
  <2>1. Blank => Blank'
    <3>1. "console" \in Tasks
      BY HubAssumption DEF AllTasks
    <3>2. QED BY <1>1, <3>1, WhereTo DEF Blank
  <2>2. Quiet("fallback") => Quiet("fallback")'
    BY <1>2, TasksRest
  <2>3. QED BY <1>1, <2>1, <2>2 DEF Straight, Engaged
<1>7. QED BY <1>3, <1>4, <1>5, <1>6 DEF Straight

\* Registration asks for the mode flash has saved, and for idle without a layout.
LEMMA StraightPublish ==
  ASSUME TypeOK, PhaseInv, Straight, check_publish
  PROVE  Straight'
<1>1. /\ UNCHANGED <<masterState, ctl, confirmation, confirmed, at, launcher, nvs>>
      /\ evtQ \in Seq(MEvents) /\ evtQ' = Append(evtQ, StartEvent)
  BY DEF check_publish, task, lnch, Queue, TypeOK
<1>2. /\ StartEvent \in {"crtld", "idtrg", "trgfb"}
      /\ StartEvent = "crtld" => nvs.mode = "runmod"
      /\ StartEvent = "idtrg" => ~nvs.layout
  BY DEF StartEvent, TypeOK
<1>3. \A x : x # StartEvent /\ Lacks(evtQ, x) => Lacks(evtQ', x)
  BY <1>1 DEF Lacks
<1>4. masterState = "error" \/ (masterState = "regis" /\ ctl.desired = "none")
  BY DEF PhaseInv, OneRegistration, Rules, RegistersInRegis, check_publish
<1>5. NoAccess' /\ Sought' /\ Alone' /\ CleanIdling' /\ Harmless'
  BY <1>1, <1>2, <1>3, <1>4 DEF Straight, NoAccess, Sought, Alone, CleanIdling, Harmless
<1>6. Saved'
  BY <1>1, <1>2, <1>3, <1>4 DEF Straight, Saved
<1>7. Engaged'
  <2>1. CASE masterState = "error"
    BY <1>1, <2>1 DEF Engaged
  <2>2. CASE masterState = "regis" /\ ctl.desired = "none"
    <3>1. Quiet("none")
      BY <2>2 DEF PhaseInv, Phase, InFlash, AtRest, Registering, Engaging, Running,
                  FallingBack, Fallback, Idling, Idle, Leaving
    <3>2. ctl.run = {} /\ at["console"] # "run"
      BY <3>1, QuietNone, QuietConsole
    <3>3. ~Lacks(evtQ', "idtrg") => ~nvs.layout
      BY <1>2, <1>3, <2>2 DEF Straight, Engaged, Blank
    <3>4. QED BY <1>1, <2>2, <3>2, <3>3 DEF Engaged, Blank
  <2>3. QED BY <1>4, <2>1, <2>2
<1>8. QED BY <1>5, <1>6, <1>7 DEF Straight

\* Everybody else queues an order other than apSet at most, and gives the hub a
\* layout only where the console runs.
LEMMA StraightOutside ==
  ASSUME TypeOK, Straight,
         UNCHANGED <<masterState, ctl, confirmation, confirmed, at, launcher>>,
         evtQ' = evtQ \/ \E o \in Orders \ {"apSet"} : Queue(o),
         nvs'.mode = nvs.mode, nvs'.layout => nvs.layout \/ at["console"] = "run"
  PROVE  Straight'
<1>1. /\ Bare(evtQ) => Bare(evtQ')
      /\ \A e : One(evtQ, e) => One(evtQ', e)
      /\ \A x \in {"apSet", "diseng", "crtld", "idtrg"} : Lacks(evtQ, x) => Lacks(evtQ', x)
  <2>1. CASE evtQ' = evtQ
    BY <2>1
  <2>2. ASSUME NEW o \in Orders \ {"apSet"}, evtQ' = Append(evtQ, o)
        PROVE  <1>1!1 /\ <1>1!2 /\ <1>1!3
    <3>1. evtQ \in Seq(MEvents) /\ o \in Orders /\ o \notin {"apSet", "diseng", "crtld", "idtrg"}
      BY DEF TypeOK, Orders
    <3>2. \A x \in {"apSet", "diseng", "crtld", "idtrg"} : Lacks(evtQ, x) => Lacks(evtQ', x)
      BY <2>2, <3>1 DEF Lacks
    <3>3. QED BY <2>2, <3>1, <3>2, OrderQueued
  <2>3. QED BY <2>1, <2>2 DEF Queue
<1>2. /\ Sound' = Sound /\ NoneEngaging' = NoneEngaging /\ FallbackOut' = FallbackOut
      /\ Resting' = Resting /\ IdleOnly' = IdleOnly
      /\ \A m : Quiet(m)' = Quiet(m) /\ Polling(m)' = Polling(m)
  BY DEF Sound, NoneEngaging, FallbackOut, Rested, Resting, IdleOnly, Live, Quiet, Polling
<1>3. NoAccess' /\ Sought' /\ Alone' /\ Harmless' /\ Saved'
  BY <1>1 DEF Straight, NoAccess, Sought, Alone, Harmless, Saved
<1>4. CleanIdling'
  BY <1>1, <1>2 DEF Straight, CleanIdling, LaunchingIdle
<1>5. Blank => Blank'
  BY DEF Blank
<1>6. Engaged'
  BY <1>1, <1>2, <1>5 DEF Straight, Engaged
<1>7. QED BY <1>3, <1>4, <1>6 DEF Straight

\* The hub begins so.
LEMMA FreshStraight == Fresh => Straight
<1>1. ASSUME Fresh
      PROVE  masterState = "flash" /\ evtQ = <<"flashOk">> /\ ctl.run = {}
  BY <1>1 DEF Fresh, PowerUp
<1>2. ASSUME masterState = "flash", evtQ = <<"flashOk">>, ctl.run = {}
      PROVE  Straight
  <2>1. Lacks(evtQ, "apSet")
    BY <1>2 DEF Lacks
  <2>2. QED
    BY <1>2, <2>1 DEF Straight, NoAccess, Sought, Alone, CleanIdling, Harmless, Saved, Engaged
<1>3. QED BY <1>1, <1>2

LEMMA RestartStraight == Restart => Straight'
<1>1. Restart => Fresh'
  BY DEF Restart, Fresh
<1>2. QED BY <1>1, FreshStraight, PTL

\* Without the button held down, Straight is inductive.
LEMMA StraightStep ==
  ASSUME Backlog = 0, "buttonFixed" \notin Stimuli,
         TypeOK, PhaseInv, Silence, Straight, [Next]_vars
  PROVE  Straight'
<1>1. FlagsOfLaunch /\ SlowTasks /\ Rules /\ Phase
  BY DEF PhaseInv
<1>2. CASE runMasterFSM
  BY <1>1, <1>2, StraightTurn
<1>3. CASE Launcher
  BY <1>1, <1>3, StraightLauncher
<1>4. ASSUME NEW t \in Tasks, Task(t) PROVE Straight'
  BY <1>1, <1>4, StraightTask
<1>5. CASE check_publish
  BY <1>5, StraightPublish
<1>6. CASE registration_task \/ registration_skip \/ connection_task
           \/ connection_reset_cb \/ UNCHANGED vars
  <2>1. UNCHANGED <<masterState, ctl, confirmation, confirmed, at, launcher, evtQ, nvs>>
    BY <1>6 DEF registration_task, registration_skip, connection_task, connection_reset_cb,
                NetUnchanged, vars, hub, task, lnch, envv
  <2>2. QED BY <2>1, StraightOutside
<1>7. CASE update_task \/ PowerCycle
  BY <1>7, RestartStraight DEF update_task, PowerCycle
<1>8. CASE ap_mode_pisr
  BY <1>8 DEF ap_mode_pisr, Stimulus
<1>9. CASE \/ fallback_mode_pisr \/ order_fallback \/ order_bootup
           \/ update_success_cb \/ cmd_set_layout \/ cmd_erase_layout
  <2>1. UNCHANGED <<masterState, ctl, confirmation, confirmed, at, launcher>>
    BY <1>9, StimulusOrder
  <2>2. evtQ' = evtQ \/ \E o \in Orders \ {"apSet"} : Queue(o)
    BY <1>9 DEF fallback_mode_pisr, order_fallback, order_bootup, update_success_cb,
                cmd_set_layout, cmd_erase_layout, Orders
  <2>3. nvs'.mode = nvs.mode /\ (nvs'.layout => nvs.layout \/ at["console"] = "run")
    BY <1>9 DEF fallback_mode_pisr, order_fallback, order_bootup, update_success_cb,
                cmd_set_layout, cmd_erase_layout, TypeOK
  <2>4. QED BY <2>1, <2>2, <2>3, StraightOutside
<1>10. QED
  BY <1>2, <1>3, <1>4, <1>5, <1>6, <1>7, <1>8, <1>9 DEF Next, Launcher

LEMMA StraightHolds ==
  ASSUME Backlog = 0, "buttonFixed" \notin Stimuli
  PROVE  Spec => [](TypeOK /\ PhaseInv /\ Straight)
<1>1. Init => Straight /\ Silence
  BY FreshStraight, FreshSilence DEF Init, Fresh
<1>2. TypeOK /\ PhaseInv /\ Silence /\ [Next]_vars => Silence'
  BY SilenceStep
<1>3. TypeOK /\ PhaseInv /\ Silence /\ Straight /\ [Next]_vars => Straight'
  BY StraightStep
<1>4. QED BY <1>1, <1>2, <1>3, TypeCorrect, PhasesHold, PTL DEF Spec

\* Unless the button is held down, the run flag of a task is up only while the task
\* has confirmed: the effects raise no flag the launcher has not seen confirmed, and
\* no launch withdraws a task whose flag is up.
THEOREM RunsOnlyConfirmedHolds ==
  ASSUME Backlog = 0, "buttonFixed" \notin Stimuli
  PROVE  Spec => []RunsOnlyConfirmed
<1>1. Straight => RunsOnlyConfirmed
  BY DEF Straight, Harmless, RunsOnlyConfirmed
<1>2. QED BY <1>1, StraightHolds, PTL

\* Unless the button is held down, a hub with a layout whose state machine says that
\* a mode is set is in that mode: its tasks have confirmed and may run, and no other.
THEOREM ModeEngagedHolds ==
  ASSUME Backlog = 0, "buttonFixed" \notin Stimuli
  PROVE  Spec => []ModeEngaged
<1>1. TypeOK /\ PhaseInv /\ Straight => ModeEngaged
  <2> SUFFICES ASSUME TypeOK, PhaseInv, Straight, nvs.layout, masterState \in DOMAIN ModeOf
               PROVE  /\ ctl.run = ModeTasks[ModeOf[masterState]]
                      /\ confirmation = ModeTasks[ModeOf[masterState]]
    BY DEF ModeEngaged
  <2>1. \A m \in Modes : Quiet(m) /\ ModeTasks[m] \subseteq ctl.run =>
          ctl.run = ModeTasks[m] /\ confirmation = ModeTasks[m]
    BY DEF Quiet, Resting, Rested, Sound
  <2>2. CASE masterState = "runn"
    <3>1. Quiet("running") /\ ModeTasks["running"] \subseteq ctl.run
      BY <2>2 DEF PhaseInv, Phase, InFlash, AtRest, Registering, Engaging, Running,
                  FallingBack, Fallback, Idling, Idle, Leaving, Straight, Engaged
    <3>2. QED BY <2>1, <2>2, <3>1 DEF ModeOf, Modes
  <2>3. CASE masterState = "idset"
    <3>1. Quiet("idle") /\ ModeTasks["idle"] \subseteq ctl.run
      BY <2>3 DEF PhaseInv, Phase, InFlash, AtRest, Registering, Engaging, Running,
                  FallingBack, Fallback, Idling, Idle, Leaving, Straight, Engaged, Sought
    <3>2. QED BY <2>1, <2>3, <3>1 DEF ModeOf, Modes
  <2>4. CASE masterState = "fbset"
    <3>1. Quiet("fallback") /\ ModeTasks["fallback"] \subseteq ctl.run
      BY <2>4 DEF Straight, Engaged, Blank
    <3>2. QED BY <2>1, <2>4, <3>1 DEF ModeOf, Modes
  <2>5. QED BY <2>2, <2>3, <2>4 DEF ModeOf
<1>2. QED BY <1>1, StraightHolds, PTL

\* Unless the button is held down, a power cut in a mode, or on the way to fallback,
\* brings the hub back to that mode: trgfb_Meffect and fbdis_Meffect save it before
\* the state is entered, and registration chooses running only while it is saved.
THEOREM ModeSavedHolds ==
  ASSUME Backlog = 0, "buttonFixed" \notin Stimuli
  PROVE  Spec => []ModeSaved
<1>1. Straight => ModeSaved
  BY DEF Straight, Saved, ModeSaved
<1>2. QED BY <1>1, StraightHolds, PTL

=============================================================================
