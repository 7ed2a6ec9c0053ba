--------------------------- MODULE ScenarioControl ---------------------------
(***************************************************************************)
(* The life cycle of chaos scenarios: Server.StartScenario and             *)
(* Server.StopScenario, the runner goroutine each start launches, the      *)
(* ScenarioController whose overlay the fault stage reads, and the admin   *)
(* handlers of the global kill switch.                                     *)
(*                                                                         *)
(* A run is named by the generation number its start was given.  Start     *)
(* and stop hold scenarioMu and are single steps.  The runner holds no     *)
(* lock while it works on the overlay, so every access it makes to shared  *)
(* state is a step of its own.                                             *)
(***************************************************************************)
EXTENDS Naturals

CONSTANTS
    MaxRuns,      \* bound on scenarioGen: runs started in one process lifetime
    PhaseCounts,  \* the lengths a scenario's list of phases may have
    Admins        \* callers of POST /api/chaos/halt

ASSUME ScenarioAssumption ==
    /\ MaxRuns \in Nat
    /\ PhaseCounts \subseteq Nat \ {0}  \* Scenario.Validate rejects zero phases

VARIABLES
    scenarioGen,     \* Server.scenarioGen
    scenarioCancel,  \* Server.scenarioCancel: the run it cancels, or NoRun
    cancelled,       \* cancelled[g]: the context of run g is done
    pc,              \* where the goroutine of run g stands
    phase,           \* index of the phase run g is at, from 1
    phaseCount,      \* number of phases of run g
    overlay,         \* ScenarioController.active: whose phase is installed
    halted,          \* KillSwitch.halted
    halting,         \* halt handlers between Halt() and Stop()
    bornHalted       \* history: was the switch halted when run g started?

chaosVars == <<halted, halting>>
runVars == <<cancelled, pc, phase, phaseCount, bornHalted>>
vars == <<scenarioGen, scenarioCancel, overlay, chaosVars, runVars>>

Run == 1 .. MaxRuns
NoRun == 0
NoOverlay == [run |-> NoRun, phase |-> 0]

Locations == {"idle", "check", "install", "sleep", "clear", "finish", "done"}

(* The goroutine of run g exists. *)
Running(g) == pc[g] \notin {"idle", "done"}

(* Run g has been started and nobody has stopped it. *)
Live(g) == Running(g) /\ ~cancelled[g]

Init ==
    /\ scenarioGen = 0
    /\ scenarioCancel = NoRun
    /\ cancelled = [g \in Run |-> FALSE]
    /\ pc = [g \in Run |-> "idle"]
    /\ phase = [g \in Run |-> 0]
    /\ phaseCount = [g \in Run |-> 0]
    /\ overlay = NoOverlay
    /\ halted = FALSE
    /\ halting = {}
    /\ bornHalted = [g \in Run |-> FALSE]

-----------------------------------------------------------------------------
(* Start and stop.                                                         *)

(* Variant: a start that is never refused. *)
StartScenarioOverRunning(n) ==
    LET g == scenarioGen + 1
    IN  /\ scenarioGen < MaxRuns
        /\ scenarioGen' = g
        /\ scenarioCancel' = g
        /\ pc' = [pc EXCEPT ![g] = "check"]
        /\ phase' = [phase EXCEPT ![g] = 1]
        /\ phaseCount' = [phaseCount EXCEPT ![g] = n]
        /\ bornHalted' = [bornHalted EXCEPT ![g] = halted]
        /\ UNCHANGED <<cancelled, overlay, chaosVars>>

(* A start while another scenario holds the slot is refused (409) and      *)
(* changes nothing, so only the accepted start is an action.               *)
StartScenario(n) ==
    LET g == scenarioGen + 1
    IN  /\ scenarioCancel = NoRun
        /\ scenarioGen < MaxRuns
        /\ scenarioGen' = g
        /\ scenarioCancel' = g
        /\ pc' = [pc EXCEPT ![g] = "check"]
        /\ phase' = [phase EXCEPT ![g] = 1]
        /\ phaseCount' = [phaseCount EXCEPT ![g] = n]
        /\ bornHalted' = [bornHalted EXCEPT ![g] = halted]
        /\ UNCHANGED <<cancelled, overlay, chaosVars>>

(* The body of StopScenario, run under scenarioMu. *)
CancelActive ==
    /\ cancelled' = [g \in Run |-> cancelled[g] \/ g = scenarioCancel]
    /\ scenarioCancel' = NoRun
    /\ UNCHANGED <<scenarioGen, pc, phase, phaseCount, bornHalted, overlay>>

StopScenario ==
    /\ scenarioCancel # NoRun
    /\ CancelActive
    /\ UNCHANGED chaosVars

-----------------------------------------------------------------------------
(* The kill switch.  The halt handler sets the switch and only then stops  *)
(* the scenario; any other request may be served between the two.          *)

HaltSwitch(a) ==
    /\ a \notin halting
    /\ halted' = TRUE
    /\ halting' = halting \union {a}
    /\ UNCHANGED <<scenarioGen, scenarioCancel, overlay, runVars>>

(* Variant: halting leaves the scenario alone. *)
HaltStopForgotten(a) ==
    /\ a \in halting
    /\ halting' = halting \ {a}
    /\ UNCHANGED <<scenarioGen, scenarioCancel, overlay, halted, runVars>>

HaltStop(a) ==
    /\ a \in halting
    /\ halting' = halting \ {a}
    /\ CancelActive
    /\ UNCHANGED halted

Resume ==
    /\ halted
    /\ halted' = FALSE
    /\ UNCHANGED <<scenarioGen, scenarioCancel, overlay, halting, runVars>>

-----------------------------------------------------------------------------
(* The runner goroutine of run g.                                          *)

MoveTo(g, location) == pc' = [pc EXCEPT ![g] = location]

(* Top of the phase loop: leave it after the last phase or when ctx is done. *)
RunnerCheck(g) ==
    /\ pc[g] = "check"
    /\ MoveTo(g, IF phase[g] > phaseCount[g] \/ cancelled[g]
                   THEN "clear" ELSE "install")
    /\ UNCHANGED <<scenarioGen, scenarioCancel, overlay, chaosVars,
                   cancelled, phase, phaseCount, bornHalted>>

(* ctrl.SetActive: the context may have been cancelled since the check. *)
RunnerInstall(g) ==
    /\ pc[g] = "install"
    /\ MoveTo(g, "sleep")
    /\ overlay' = [run |-> g, phase |-> phase[g]]
    /\ UNCHANGED <<scenarioGen, scenarioCancel, chaosVars,
                   cancelled, phase, phaseCount, bornHalted>>

(* Variant: the phases are counted down. *)
RunnerWakeBackwards(g) ==
    /\ pc[g] = "sleep"
    /\ MoveTo(g, "check")
    /\ phase' = [phase EXCEPT ![g] = @ - 1]
    /\ UNCHANGED <<scenarioGen, scenarioCancel, overlay, chaosVars,
                   cancelled, phaseCount, bornHalted>>

(* The sleep ends when its timer fires, or at once when ctx is done. *)
RunnerWake(g) ==
    /\ pc[g] = "sleep"
    /\ MoveTo(g, "check")
    /\ phase' = [phase EXCEPT ![g] = @ + 1]
    /\ UNCHANGED <<scenarioGen, scenarioCancel, overlay, chaosVars,
                   cancelled, phaseCount, bornHalted>>

(* Variant: no deferred Clear. *)
RunnerClearForgotten(g) ==
    /\ pc[g] = "clear"
    /\ MoveTo(g, "finish")
    /\ UNCHANGED <<scenarioGen, scenarioCancel, overlay, chaosVars,
                   cancelled, phase, phaseCount, bornHalted>>

(* The deferred ctrl.Clear, whichever run's phase is installed. *)
RunnerClear(g) ==
    /\ pc[g] = "clear"
    /\ MoveTo(g, "finish")
    /\ overlay' = NoOverlay
    /\ UNCHANGED <<scenarioGen, scenarioCancel, chaosVars,
                   cancelled, phase, phaseCount, bornHalted>>

(* Variant: the tail releases the slot whoever owns it. *)
RunnerFinishUnguarded(g) ==
    /\ pc[g] = "finish"
    /\ MoveTo(g, "done")
    /\ scenarioCancel' = NoRun
    /\ UNCHANGED <<scenarioGen, overlay, chaosVars,
                   cancelled, phase, phaseCount, bornHalted>>

(* Variant: only a run that was stopped releases the slot. *)
RunnerFinishIfStopped(g) ==
    /\ pc[g] = "finish"
    /\ MoveTo(g, "done")
    /\ scenarioCancel' = IF scenarioGen = g /\ cancelled[g] THEN NoRun
                                                           ELSE scenarioCancel
    /\ UNCHANGED <<scenarioGen, overlay, chaosVars,
                   cancelled, phase, phaseCount, bornHalted>>

(* The tail of the goroutine: release the slot unless a later run owns it. *)
RunnerFinish(g) ==
    /\ pc[g] = "finish"
    /\ MoveTo(g, "done")
    /\ scenarioCancel' = IF scenarioGen = g THEN NoRun ELSE scenarioCancel
    /\ UNCHANGED <<scenarioGen, overlay, chaosVars,
                   cancelled, phase, phaseCount, bornHalted>>

RunnerStep(g) ==
    \/ RunnerCheck(g)
    \/ RunnerInstall(g)
    \/ RunnerWake(g)
    \/ RunnerClear(g)
    \/ RunnerFinish(g)

Next ==
    \/ \E n \in PhaseCounts : StartScenario(n)
    \/ StopScenario
    \/ \E a \in Admins : HaltSwitch(a)
    \/ \E a \in Admins : HaltStop(a)
    \/ Resume
    \/ \E g \in Run : RunnerCheck(g)
    \/ \E g \in Run : RunnerInstall(g)
    \/ \E g \in Run : RunnerWake(g)
    \/ \E g \in Run : RunnerClear(g)
    \/ \E g \in Run : RunnerFinish(g)

Spec == Init /\ [][Next]_vars

(* Goroutines are scheduled and timers fire; admin requests need not come. *)
Fairness == \A g \in Run : WF_vars(RunnerStep(g))

FairSpec == Spec /\ Fairness

-----------------------------------------------------------------------------
(* The shape of the state of the scenario controller and the kill switch   *)
(* (Server's scenario fields, ActiveRun, KillSwitch).                      *)
TypeOK ==
    /\ scenarioGen \in 0 .. MaxRuns
    /\ scenarioCancel \in Run \union {NoRun}
    /\ cancelled \in [Run -> BOOLEAN]
    /\ pc \in [Run -> Locations]
    /\ phase \in [Run -> Nat]
    /\ phaseCount \in [Run -> Nat]
    /\ overlay \in [run : Run \union {NoRun}, phase : Nat]
    /\ halted \in BOOLEAN
    /\ halting \subseteq Admins
    /\ bornHalted \in [Run -> BOOLEAN]

(* The slot scenarioCancel is held by exactly the run that is live: every  *)
(* run nobody stopped can still be stopped, at most one is live, and a     *)
(* start is refused with 409 only while one is (StartScenario,             *)
(* StopScenario and the generation guard of the goroutine's tail).         *)
SlotHeldByLiveRun ==
    \A g \in Run : scenarioCancel = g <=> Live(g)

(* An installed overlay belongs to a goroutine that has still to execute   *)
(* its deferred Clear: no phase's faults outlive the runner, however starts, *)
(* stops and clears of several runs interleave.                            *)
OverlayHasRunner ==
    overlay.run # NoRun =>
        pc[overlay.run] \in {"check", "install", "sleep", "clear"}

(* Once the halt handlers have returned, a scenario that is live under the *)
(* halted switch was started under it: no scenario from before the halt is *)
(* left to resume silently (the order of Halt and Stop in chaosHalt).      *)
HaltAbortsEarlierRuns ==
    halted /\ halting = {} => \A g \in Run : Live(g) => bornHalted[g]

(* The phase a live run has installed is taken away by that run, or by the *)
(* goroutine of a run that was stopped: live runs never disturb each other *)
(* (the 409 of StartScenario).                                             *)
OverlayDisplacedOnlyByStoppedRun ==
    [][\A g \in Run :
         overlay.run = g /\ Live(g) =>
             \/ overlay'.run = g
             \/ pc'[g] # pc[g]
             \/ \E h \in Run : cancelled[h] /\ pc'[h] # pc[h]
      ]_overlay

(* A stopped run stops injecting: from some point on its phase is never    *)
(* installed again (sleep's ctx.Done branch, the ctx check of the loop and *)
(* the deferred Clear).                                                    *)
StopTakesEffect ==
    \A g \in Run : cancelled[g] ~> [](overlay.run # g)

(* Every scenario comes to an end, so that the 409 answered to other       *)
(* starts is temporary.                                                    *)
SlotIsFreed == scenarioCancel # NoRun ~> scenarioCancel = NoRun

(* What the documentation promises: while a scenario runs, its current     *)
(* phase is the overlay.  The runner's Clear and SetActive carry no        *)
(* generation guard, so the goroutine of a stopped run breaks it.          *)
LivePhaseIsOverlaid ==
    \A g \in Run :
        Live(g) /\ pc[g] = "sleep" => overlay = [run |-> g, phase |-> phase[g]]
=============================================================================
