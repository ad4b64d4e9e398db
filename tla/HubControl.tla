----------------------------- MODULE HubControl -----------------------------
(***************************************************************************)
(* Mode control of the hub: the master state machine, the launcher, the    *)
(* five mode tasks, registration, the connection and update tasks as far   *)
(* as they take part in it, and what users, the cloud and the mains do.    *)
(*                                                                         *)
(* The tasks talk through the global flags of params.c (ctl below and the  *)
(* engage, disengage and confirmation flags) and through the event queue.  *)
(* All tasks run on one core and preempt each other: an action here is the *)
(* code between two points where another task's step could matter.         *)
(*                                                                         *)
(* The queue is the mailbox EventQueue implements while no event is        *)
(* overwritten. Events the state machine ignores in every state (cnnctd,   *)
(* cnter, vldsync) are not queued here.                                    *)
(***************************************************************************)
EXTENDS MasterFSM, Naturals, Sequences

CONSTANTS Tasks,         \* the mode tasks
          Stimuli,       \* which of the stimuli below may happen
          MaxStimuli,    \* bound on the stimuli in a behaviour
          MaxBoots,      \* bound on the restarts
          MaxDrops,      \* bound on the connection losses
          Backlog        \* events registration may still have ahead of it (0: timely)

AllStimuli == {"buttonFixed", "buttonBlink", "orderFallback", "orderBootup",
               "updateMessage", "setLayout", "eraseLayout"}

AllTasks == {"monitor", "deploy", "execute", "console", "fallback"}

\* Monitoring takes part like the console does: small instances leave it out.
ASSUME HubAssumption == /\ Tasks \subseteq AllTasks
                        /\ AllTasks \ {"monitor"} \subseteq Tasks
                        /\ Stimuli \subseteq AllStimuli
                        /\ MaxStimuli \in Nat
                        /\ MaxBoots \in Nat
                        /\ MaxDrops \in Nat
                        /\ Backlog \in Nat

\* desired_running_t: a mode is the set of tasks that must have confirmed.
Modes == {"none", "idle", "running", "fallback"}
ModeTasks == [none     |-> {},
              idle     |-> Tasks \cap {"monitor", "console"},
              running  |-> Tasks \cap {"monitor", "deploy", "execute", "console"},
              fallback |-> Tasks \cap {"monitor", "deploy", "console", "fallback"}]

VARIABLES
  masterState,    \* state of the master state machine
  evtQ,           \* queued events, oldest first
  ctl,            \* flags the effects write, and desiredRunning (CtlType)
  engageFlag,     \* tasks whose engage_activation_flag is set
  disengageFlag,  \* tasks whose disengage_activation_flag is set
  confirmation,   \* tasks whose run_confirmation_flag is set
  confirmed,      \* confirmed_running: what the launcher last read of it
  launcher,       \* where the launcher is, and the mode it is launching
  at,             \* where each mode task is
  machinesLoaded, \* the machines are in RAM
  modeShown,      \* fallback_or_running, the mode told to the cloud
  hwSelected,     \* is_hardware_version_selected
  regAt,          \* where the registration task is
  regAhead,       \* events the queue has up to the one registration queued last
  online,         \* hub_isOnline
  noInternet,     \* hub_no_internet
  updateUrl,      \* an update was asked for
  nvs,            \* flash: hub mode, hardware layout
  stimuli, boots, drops  \* bounds

hub  == <<masterState, evtQ, ctl, regAhead>>
task == <<engageFlag, disengageFlag, confirmation, at, machinesLoaded, modeShown>>
lnch == <<confirmed, launcher>>
envv == <<hwSelected, regAt, online, noInternet, updateUrl, nvs>>
bnds == <<stimuli, boots, drops>>
vars == <<hub, task, lnch, envv, bnds>>

CtlType == [run : SUBSET Tasks,       \* run_activation_flags of the mode tasks
            launcher : BOOLEAN,       \* launcher_run_flag
            update : BOOLEAN,         \* update_run_flag
            registration : BOOLEAN,   \* registation_check_flag
            net : BOOLEAN,            \* internet_check, cloud_check and mqtt_run
            desired : Modes]          \* desiredRunning

TaskPoints == {"top", "engage", "engaged", "run", "disengaged"}

TypeOK ==
  /\ masterState \in MStates
  /\ evtQ \in Seq(MEvents)
  /\ ctl \in CtlType
  /\ engageFlag \subseteq Tasks
  /\ disengageFlag \subseteq Tasks
  /\ confirmation \subseteq Tasks
  /\ confirmed \subseteq Tasks
  /\ launcher \in [at : {"idle", "wait", "poll", "waitIdle"}, mode : Modes]
  /\ at \in [Tasks -> TaskPoints]
  /\ machinesLoaded \in BOOLEAN
  /\ modeShown \in {"running", "fallback"}
  /\ hwSelected \in BOOLEAN
  /\ regAt \in {"asleep", "checking"}
  /\ regAhead \in Nat
  /\ online \in BOOLEAN
  /\ noInternet \in BOOLEAN
  /\ updateUrl \in BOOLEAN
  /\ nvs \in [mode : {"runmod", "fbkmod"}, layout : BOOLEAN]
  /\ stimuli \in Nat /\ boots \in Nat /\ drops \in Nat

-----------------------------------------------------------------------------
\* RAM at power-up; master_fsm_init has queued flashOk.
PowerUp ==
  [masterState |-> "flash", evtQ |-> <<"flashOk">>,
   ctl |-> [run |-> {}, launcher |-> FALSE, update |-> FALSE,
            registration |-> FALSE, net |-> FALSE, desired |-> "none"],
   launcher |-> [at |-> "idle", mode |-> "none"],
   at |-> [t \in Tasks |-> "top"]]

Init ==
  /\ masterState = PowerUp.masterState
  /\ evtQ = PowerUp.evtQ
  /\ ctl = PowerUp.ctl
  /\ engageFlag = {}
  /\ disengageFlag = {}
  /\ confirmation = {}
  /\ confirmed = {}
  /\ launcher = PowerUp.launcher
  /\ at = PowerUp.at
  /\ machinesLoaded = FALSE
  /\ modeShown = "running"
  /\ hwSelected = FALSE
  /\ regAt = "asleep"
  /\ regAhead = 0
  /\ online = FALSE
  /\ noInternet = FALSE
  /\ updateUrl = FALSE
  /\ nvs \in [mode : {"runmod", "fbkmod"}, layout : BOOLEAN]
  /\ stimuli = 0 /\ boots = 0 /\ drops = 0

\* esp_restart, or the mains: RAM is lost, the flash stays.
Restart ==
  /\ masterState' = PowerUp.masterState
  /\ evtQ' = PowerUp.evtQ
  /\ ctl' = PowerUp.ctl
  /\ engageFlag' = {}
  /\ disengageFlag' = {}
  /\ confirmation' = {}
  /\ confirmed' = {}
  /\ launcher' = PowerUp.launcher
  /\ at' = PowerUp.at
  /\ machinesLoaded' = FALSE
  /\ modeShown' = "running"
  /\ hwSelected' = FALSE
  /\ regAt' = "asleep"
  /\ regAhead' = 0
  /\ online' = FALSE
  /\ noInternet' = FALSE
  /\ updateUrl' = FALSE
  /\ boots' = boots + 1
  /\ UNCHANGED <<nvs, stimuli, drops>>

\* fsm_q_evt, into a queue that has room.
Queue(event) == evtQ' = Append(evtQ, event)

-----------------------------------------------------------------------------
(* The effects of the master state machine (src/MFSMEffects.c) on the      *)
(* control flags f.                                                        *)

rgstr_Meffect(f) == [f EXCEPT !.registration = TRUE]

engag_Meffect(f) == [f EXCEPT !.registration = FALSE, !.net = TRUE,
                              !.desired = "running", !.launcher = TRUE]

disen_Meffect(f) == [f EXCEPT !.run = {}, !.desired = "none", !.launcher = TRUE]

trgRunning(f) == [f EXCEPT !.launcher = FALSE, !.run = @ \cup ModeTasks.running]

updat_Meffect(f) == [f EXCEPT !.launcher = FALSE, !.update = TRUE]

apeng_Meffect_online(f) == [f EXCEPT !.launcher = FALSE]  \* mutant: network left up

apeng_Meffect(f) == [f EXCEPT !.launcher = FALSE, !.net = FALSE]

apdng_Meffect(f) == [f EXCEPT !.registration = TRUE]

fbdis_Meffect(f) == disen_Meffect(f)

trgfb_Meffect_executing(f) ==        \* mutant: execution keeps its run flag
  [f EXCEPT !.registration = FALSE, !.net = TRUE, !.desired = "fallback",
            !.launcher = TRUE]

trgfb_Meffect(f) == [f EXCEPT !.registration = FALSE, !.run = @ \ {"execute"},
                              !.net = TRUE, !.desired = "fallback", !.launcher = TRUE]

fbSet_Meffect_copied(f) ==           \* mutant: the run flags of trgRunning
  [f EXCEPT !.launcher = FALSE, !.run = @ \cup ModeTasks.running]

fbSet_Meffect_short(f) ==            \* mutant: the console is forgotten
  [f EXCEPT !.launcher = FALSE, !.run = @ \cup (ModeTasks.fallback \ {"console"})]

fbSet_Meffect(f) == [f EXCEPT !.launcher = FALSE, !.run = @ \cup ModeTasks.fallback]

trgid_Meffect(f) == [f EXCEPT !.registration = FALSE, !.run = @ \ {"execute"},
                              !.net = TRUE, !.desired = "idle", !.launcher = TRUE]

idset_Meffect(f) == [f EXCEPT !.launcher = FALSE, !.run = @ \cup ModeTasks.idle]

iddis_Meffect(f) == [f EXCEPT !.registration = TRUE]

Effect(name, f) ==
  CASE name \in {"noop", "erro"} -> f
    [] name = "rgstr"      -> rgstr_Meffect(f)
    [] name = "engag"      -> engag_Meffect(f)
    [] name = "disen"      -> disen_Meffect(f)
    [] name = "trgRunning" -> trgRunning(f)
    [] name = "updat"      -> updat_Meffect(f)
    [] name = "apeng"      -> apeng_Meffect(f)
    [] name = "apdng"      -> apdng_Meffect(f)
    [] name = "fbdis"      -> fbdis_Meffect(f)
    [] name = "trgfb"      -> trgfb_Meffect(f)
    [] name = "fbSet"      -> fbSet_Meffect(f)
    [] name = "trgid"      -> trgid_Meffect(f)
    [] name = "idset"      -> idset_Meffect(f)
    [] name = "iddis"      -> iddis_Meffect(f)

SavedMode_late(effect) ==            \* mutant: fallback is saved once it is set
  CASE effect = "fbSet" -> "fbkmod"
    [] effect = "fbdis" -> "runmod"
    [] OTHER            -> nvs.mode

\* HUB_LAST_MODE_KEY: two effects save the mode to come back to after a restart.
SavedMode(effect) ==
  CASE effect = "trgfb" -> "fbkmod"
    [] effect = "fbdis" -> "runmod"
    [] OTHER            -> nvs.mode

\* One turn of the loop of runMasterFSM: take the oldest event, run the effect,
\* enter the next state. An effect leaves launcher_run_flag for last when it
\* sets it and clears it first, so no task acts on half of an effect.
runMasterFSM ==
  /\ evtQ # <<>>
  /\ Backlog = 0 => regAt = "asleep"
  /\ LET event  == Head(evtQ)
         effect == nextEffect(masterState, event)
     IN  /\ masterState' = nextState(masterState, event)
         /\ ctl' = Effect(effect, ctl)
         /\ nvs' = [nvs EXCEPT !.mode = SavedMode(effect)]
         /\ machinesLoaded' = (machinesLoaded /\ effect # "updat")
         /\ online' = (online /\ effect \notin {"apeng", "apdng"})
  /\ evtQ' = Tail(evtQ)
  /\ regAhead' = IF regAhead = 0 THEN 0 ELSE regAhead - 1
  /\ UNCHANGED <<engageFlag, disengageFlag, confirmation, at, modeShown, lnch,
                 hwSelected, regAt, noInternet, updateUrl, bnds>>

-----------------------------------------------------------------------------
(* The launcher (src/launcher.c).                                          *)

NetworkKnown == online \/ noInternet

Outcome_copied == [none |-> "engaged", idle |-> "idset",   \* mutant: copied event
                   running |-> "engaged", fallback |-> "fbset"]

\* The event queued when the tasks have confirmed the mode.
Outcome == [none |-> "diseng", idle |-> "idset",
            running |-> "engaged", fallback |-> "fbset"]

\* The flags a launch raises, and takes back when it is over.
EngageRequest    == [none |-> {}, idle |-> ModeTasks.idle,
                     running |-> ModeTasks.running, fallback |-> ModeTasks.fallback]
DisengageRequest == [none |-> Tasks, idle |-> {},
                     running |-> {"fallback"}, fallback |-> {"execute"}]

Request(mode) ==
  /\ engageFlag' = engageFlag \cup EngageRequest[mode]
  /\ disengageFlag' = disengageFlag \cup DisengageRequest[mode]

Withdraw(mode) ==
  /\ engageFlag' = engageFlag \ EngageRequest[mode]
  /\ disengageFlag' = disengageFlag \ DisengageRequest[mode]

LauncherUnchanged ==
  UNCHANGED <<masterState, ctl, regAhead, confirmation, at, machinesLoaded,
              modeShown, envv, bnds>>

\* launcher_task finds a mode to launch. launch_disengagement and launch_idle
\* raise their flags at once, the other two first wait for the network.
launcher_task ==
  /\ launcher.at = "idle"
  /\ ctl.launcher
  /\ ModeTasks[ctl.desired] # confirmed
  /\ IF ctl.desired \in {"none", "idle"}
       THEN /\ launcher' = [at |-> "poll", mode |-> ctl.desired]
            /\ Request(ctl.desired)
       ELSE /\ launcher' = [at |-> "wait", mode |-> ctl.desired]
            /\ UNCHANGED <<engageFlag, disengageFlag>>
  /\ UNCHANGED <<evtQ, confirmed>>
  /\ LauncherUnchanged

\* launch_engagement and launch_fallback, once the network is up or known to fail.
launch_start ==
  /\ launcher.at = "wait"
  /\ NetworkKnown
  /\ launcher' = [launcher EXCEPT !.at = "poll"]
  /\ Request(launcher.mode)
  /\ UNCHANGED <<evtQ, confirmed>>
  /\ LauncherUnchanged

\* The polling loop of a launch. It compares with desiredRunning as it is now,
\* which is not always the mode it was started for.
updateCurrent ==
  /\ launcher.at = "poll"
  /\ ModeTasks[ctl.desired] # confirmed
  /\ confirmed' = confirmation
  /\ UNCHANGED <<evtQ, launcher, engageFlag, disengageFlag>>
  /\ LauncherUnchanged

launch_outcome_early ==              \* mutant: the launch does not wait
  /\ launcher.at \in {"poll", "waitIdle"}
  /\ launcher' = [launcher EXCEPT !.at = "idle"]
  /\ Withdraw(launcher.mode)
  /\ Queue(Outcome[launcher.mode])
  /\ UNCHANGED confirmed
  /\ LauncherUnchanged

\* The loop is over: the launch withdraws its flags and queues its outcome.
\* launch_idle waits for the network in between.
launch_outcome ==
  /\ \/ /\ launcher.at = "poll" /\ launcher.mode # "idle"
        /\ ModeTasks[ctl.desired] = confirmed
     \/ launcher.at = "waitIdle" /\ NetworkKnown
  /\ launcher' = [launcher EXCEPT !.at = "idle"]
  /\ Withdraw(launcher.mode)
  /\ Queue(Outcome[launcher.mode])
  /\ UNCHANGED confirmed
  /\ LauncherUnchanged

launch_idle_wait ==
  /\ launcher.at = "poll" /\ launcher.mode = "idle"
  /\ ModeTasks[ctl.desired] = confirmed
  /\ launcher' = [launcher EXCEPT !.at = "waitIdle"]
  /\ UNCHANGED <<evtQ, confirmed, engageFlag, disengageFlag>>
  /\ LauncherUnchanged

Launcher == launcher_task \/ launch_start \/ updateCurrent \/ launch_outcome
            \/ launch_idle_wait

-----------------------------------------------------------------------------
(* The mode tasks. Each loop tests its engage, run and disengage flag in   *)
(* this order and acts on the first that is set. Confirming and taking the *)
(* flag back are two steps; the console leaves its flags to the launcher.  *)

TaskUnchanged == UNCHANGED <<hub, lnch, envv, bnds>>

Goes(t, from, to) == at[t] = from /\ at' = [at EXCEPT ![t] = to]

Confirmed(t) == IF t = "console" THEN "top" ELSE "engaged"
Released(t)  == IF t = "console" THEN "top" ELSE "disengaged"

\* execution and fallback run only once the hardware layout is known.
IsRun(t) == t \in ctl.run /\ (t \in {"execute", "fallback"} => hwSelected)

\* monitoring, fallback and console confirm at once.
task_engage(t) ==
  /\ t \in engageFlag \ {"deploy", "execute"}
  /\ Goes(t, "top", Confirmed(t))
  /\ confirmation' = confirmation \cup {t}
  /\ UNCHANGED <<engageFlag, disengageFlag, machinesLoaded, modeShown>>
  /\ TaskUnchanged

\* deployment first loads the machines into RAM, execution first waits for them.
task_engage_slowly(t) ==
  /\ t \in engageFlag \cap {"deploy", "execute"}
  /\ Goes(t, "top", "engage")
  /\ UNCHANGED <<engageFlag, disengageFlag, confirmation, machinesLoaded, modeShown>>
  /\ TaskUnchanged

deployment_loaded ==
  /\ Goes("deploy", "engage", Confirmed("deploy"))
  /\ machinesLoaded' = (machinesLoaded \/ hwSelected)
  /\ confirmation' = confirmation \cup {"deploy"}
  /\ UNCHANGED <<engageFlag, disengageFlag, modeShown>>
  /\ TaskUnchanged

\* wait_for_deployment gives up after 60 ticks; the task engages in any case.
wait_for_deployment ==
  /\ Goes("execute", "engage", Confirmed("execute"))
  /\ confirmation' = confirmation \cup {"execute"}
  /\ UNCHANGED <<engageFlag, disengageFlag, machinesLoaded, modeShown>>
  /\ TaskUnchanged

task_engagement_done(t) ==
  /\ Goes(t, "engaged", "top")
  /\ engageFlag' = engageFlag \ {t}
  /\ modeShown' = CASE t = "execute"  -> "running"
                    [] t = "fallback" -> "fallback"
                    [] OTHER          -> modeShown
  /\ UNCHANGED <<disengageFlag, confirmation, machinesLoaded>>
  /\ TaskUnchanged

\* The run branch: entered when the run flag is seen, left some time later.
task_isRun(t) ==
  /\ t \notin engageFlag /\ IsRun(t)
  /\ Goes(t, "top", "run")
  /\ UNCHANGED <<engageFlag, disengageFlag, confirmation, machinesLoaded, modeShown>>
  /\ TaskUnchanged

task_run(t) ==
  /\ Goes(t, "run", "top")
  /\ UNCHANGED <<engageFlag, disengageFlag, confirmation, machinesLoaded, modeShown>>
  /\ TaskUnchanged

task_disengage(t) ==
  /\ t \in disengageFlag \ engageFlag /\ ~IsRun(t)
  /\ Goes(t, "top", Released(t))
  /\ confirmation' = confirmation \ {t}
  /\ UNCHANGED <<engageFlag, disengageFlag, machinesLoaded, modeShown>>
  /\ TaskUnchanged

task_disengagement_done(t) ==
  /\ Goes(t, "disengaged", "top")
  /\ disengageFlag' = disengageFlag \ {t}
  /\ UNCHANGED <<engageFlag, confirmation, machinesLoaded, modeShown>>
  /\ TaskUnchanged

Task(t) == \/ task_engage(t) \/ task_engage_slowly(t) \/ task_engagement_done(t)
           \/ task_isRun(t) \/ task_run(t)
           \/ task_disengage(t) \/ task_disengagement_done(t)
           \/ t = "deploy" /\ deployment_loaded
           \/ t = "execute" /\ wait_for_deployment

-----------------------------------------------------------------------------
(* Registration (src/registration.c) chooses the mode to start.            *)

\* registration_storeParams has read the layout from flash by then.
StartEvent ==
  IF ~(hwSelected \/ nvs.layout) THEN "idtrg"
  ELSE IF nvs.mode = "fbkmod" THEN "trgfb" ELSE "crtld"

\* registration_task wakes up with its check flag set. It has slept 5 s since it
\* queued an event, and the state machine takes two events a second: in time
\* (Backlog = 0), the state machine has reached that event, and it takes no
\* event in the milliseconds of a check. Nothing but time makes this so.
registration_task ==
  /\ regAt = "asleep"
  /\ ctl.registration
  /\ regAhead <= Backlog
  /\ regAt' = "checking"
  /\ UNCHANGED <<hub, task, lnch, hwSelected, online, noInternet, updateUrl, nvs, bnds>>

\* All keys are there: check_publish queues the start event, even if the check
\* flag was cleared in the meantime.
check_publish ==
  /\ regAt = "checking"
  /\ hwSelected' = (hwSelected \/ nvs.layout)
  /\ Queue(StartEvent)
  /\ regAhead' = Len(evtQ) + 1
  /\ regAt' = "asleep"
  /\ UNCHANGED <<masterState, ctl, task, lnch, online, noInternet, updateUrl, nvs, bnds>>

\* A key is missing, or a console command was handled instead.
registration_skip ==
  /\ regAt = "checking"
  /\ regAt' = "asleep"
  /\ UNCHANGED <<hub, task, lnch, hwSelected, online, noInternet, updateUrl, nvs, bnds>>

-----------------------------------------------------------------------------
(* Connection (src/connection.c) and update (src/update.c), as far as the  *)
(* launcher and the state machine depend on them.                          *)

NetUnchanged == UNCHANGED <<hub, task, lnch, hwSelected, regAt, updateUrl, nvs, stimuli, boots>>

connection_task ==
  /\ ctl.net /\ ~online
  /\ \/ online' = TRUE /\ UNCHANGED noInternet
     \/ noInternet' = TRUE /\ UNCHANGED online
  /\ UNCHANGED drops
  /\ NetUnchanged

\* connection_reset_cb (Wi-Fi down) or validation_failure_cb (MQTT down).
connection_reset_cb ==
  /\ online /\ drops < MaxDrops
  /\ online' = FALSE
  /\ drops' = drops + 1
  /\ UNCHANGED noInternet
  /\ NetUnchanged

\* update_task fetches the image and restarts, whether the fetch succeeded or
\* not; force_reboot ends a fetch that hangs.
update_task ==
  /\ ctl.update /\ updateUrl /\ online
  /\ boots < MaxBoots
  /\ Restart

PowerCycle == boots < MaxBoots /\ Restart

-----------------------------------------------------------------------------
(* What users and the cloud do.                                            *)

Stimulus(s) ==
  /\ s \in Stimuli
  /\ stimuli < MaxStimuli
  /\ stimuli' = stimuli + 1
  /\ UNCHANGED <<masterState, ctl, regAhead, task, lnch, regAt, online, noInternet, boots, drops>>

\* The button held down, or blinked (src/drv_gpio.c).
ap_mode_pisr ==
  Stimulus("buttonFixed") /\ Queue("apSet") /\ UNCHANGED <<hwSelected, updateUrl, nvs>>

fallback_mode_pisr ==
  Stimulus("buttonBlink") /\ Queue("trgfb") /\ UNCHANGED <<hwSelected, updateUrl, nvs>>

Subscribed == online /\ ctl.net

\* Orders from the cloud (_monitor_callback): the order for the mode the hub
\* shows is answered with a report only.
order_fallback ==
  /\ Stimulus("orderFallback") /\ Subscribed
  /\ IF modeShown = "running" THEN Queue("trgfb") ELSE UNCHANGED evtQ
  /\ UNCHANGED <<hwSelected, updateUrl, nvs>>

order_bootup ==
  /\ Stimulus("orderBootup") /\ Subscribed
  /\ IF modeShown = "fallback" THEN Queue("trgfb") ELSE UNCHANGED evtQ
  /\ UNCHANGED <<hwSelected, updateUrl, nvs>>

\* Any message on the update topic queues trgup, one that says "init" has a url.
update_success_cb ==
  /\ Stimulus("updateMessage") /\ Subscribed
  /\ updateUrl' \in {updateUrl, TRUE}
  /\ Queue("trgup")
  /\ UNCHANGED <<hwSelected, nvs>>

\* The console commands that choose and erase the layout; the console reads
\* commands only in its run branch.
cmd_set_layout ==
  /\ Stimulus("setLayout") /\ at["console"] = "run"
  /\ nvs' = [nvs EXCEPT !.layout = TRUE]
  /\ hwSelected' = TRUE
  /\ Queue("flashOk")
  /\ UNCHANGED updateUrl

cmd_erase_layout ==
  /\ Stimulus("eraseLayout") /\ at["console"] = "run"
  /\ nvs' = [nvs EXCEPT !.layout = FALSE]
  /\ UNCHANGED <<evtQ, hwSelected, updateUrl>>

-----------------------------------------------------------------------------
Next ==
  \/ runMasterFSM
  \/ launcher_task \/ launch_start \/ updateCurrent \/ launch_outcome \/ launch_idle_wait
  \/ \E t \in Tasks : Task(t)
  \/ registration_task \/ check_publish \/ registration_skip
  \/ connection_task \/ connection_reset_cb \/ update_task \/ PowerCycle
  \/ ap_mode_pisr \/ fallback_mode_pisr \/ order_fallback \/ order_bootup
  \/ update_success_cb \/ cmd_set_layout \/ cmd_erase_layout

Spec == Init /\ [][Next]_vars

\* Every loop ends in a vTaskDelay, so every task gets the core again and again;
\* a connection attempt ends in success or failure; and the keys that
\* registration looks for are in flash, so that it is not skipping for ever.
FairSpec ==
  /\ Spec
  /\ WF_vars(runMasterFSM)
  /\ WF_vars(Launcher)
  /\ \A t \in Tasks : WF_vars(Task(t))
  /\ WF_vars(registration_task) /\ SF_vars(check_publish)
  /\ WF_vars(connection_task)
  /\ WF_vars(update_task)

-----------------------------------------------------------------------------
Quiescent == confirmation = {} /\ \A t \in Tasks : at[t] # "run"

\* No mode task is working on the machines, or will be, from the moment updat_Meffect
\* frees them in RAM until the restart, and while the hub is in access point mode
\* (engup and engap wait for launch_disengagement).
MachinesLeftAlone == ctl.update \/ masterState = "apSet" => Quiescent

\* Execution and fallback drive the same output ports: whatever users, the cloud
\* and the mains do, the two are never in their run sections at the same time
\* (launch_engagement and launch_fallback wait for the one to be out before the
\* other's run flag is raised).
OneDriver == ~(at["execute"] = "run" /\ at["fallback"] = "run")

\* Access point mode stays off the network: nothing connects the hub, or lets the
\* connection task try, until the mode is left.
APOffline == masterState = "apSet" => ~online /\ ~ctl.net

\* The run flag of a task is up only while the task has confirmed: the effects
\* raise run flags only after the launcher has seen the confirmations, and the
\* tasks withdraw them only after the effects have lowered the run flags. This and
\* the next two do not survive a button held down while the mode changes.
RunsOnlyConfirmed == ctl.run \subseteq confirmation

ModeOf == [runn |-> "running", fbset |-> "fallback", idset |-> "idle"]

\* When the state machine of a hub with a layout says that a mode is set, it is:
\* the mode's tasks have confirmed and may run, and no other task.
ModeEngaged ==
  nvs.layout /\ masterState \in DOMAIN ModeOf =>
    /\ ctl.run = ModeTasks[ModeOf[masterState]]
    /\ confirmation = ModeTasks[ModeOf[masterState]]

\* The mode the hub is in, or is entering, is the one flash brings it back to
\* after a power cut (trgfb_Meffect and fbdis_Meffect save it).
ModeSaved == /\ masterState = "runn" => nvs.mode = "runmod"
             /\ masterState \in {"enfba", "fbset"} => nvs.mode = "fbkmod"

\* Whatever button, orders, lost connections and power cuts came before, once they
\* stop the hub ends in the mode flash has saved, for good.
Settles ==
  <>[](nvs.layout => masterState = IF nvs.mode = "fbkmod" THEN "fbset" ELSE "runn")

\* The pairs of a state and an event, each of them legal input, by which the
\* code can be led into the error state: choosing a layout while another mode
\* change is under way or from idle, an update ordered or an old launch ending
\* while registration has the word.
Fatal == {<<"idset", "flashOk">>, <<"enidl", "flashOk">>, <<"enfba", "flashOk">>,
          <<"diseng", "flashOk">>, <<"engup", "flashOk">>, <<"engap", "flashOk">>,
          <<"regis", "trgup">>, <<"regis", "diseng">>}

\* The state machine fails in no other way: no other cell of the tables that
\* holds error_Mstate is reached, whatever the interleaving.
ErrorRoutes ==
  [][masterState' = "error" /\ masterState # "error"
       => <<masterState, Head(evtQ)>> \in Fatal]_vars

=============================================================================
