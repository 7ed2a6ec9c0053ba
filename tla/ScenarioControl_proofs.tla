------------------------ MODULE ScenarioControl_proofs ------------------------
(***************************************************************************)
(* Proofs about ScenarioControl, for any number of runs, phases and admins. *)
(*                                                                         *)
(* SlotHeldByLiveRun is not inductive: the tail of a goroutine releases the *)
(* slot when its generation is the latest, so one must know that the slot  *)
(* is never held by an earlier generation and that generations above       *)
(* scenarioGen have not been started.                                      *)
(***************************************************************************)
EXTENDS ScenarioControl, TLAPS

(* Generations are handed out in order. *)
StartedUpToGen ==
    \A g \in Run : /\ pc[g] = "idle" <=> g > scenarioGen
                   /\ pc[g] = "idle" => ~cancelled[g]

(* Only the latest generation can hold the slot. *)
SlotIsLatest == scenarioCancel # NoRun => scenarioCancel = scenarioGen

SlotInv == TypeOK /\ StartedUpToGen /\ SlotIsLatest /\ SlotHeldByLiveRun

-----------------------------------------------------------------------------
(* Every reachable state has the types of the Go fields. *)
THEOREM TypeCorrect == Spec => []TypeOK
<1>1. Init => TypeOK
  <2> SUFFICES ASSUME Init PROVE TypeOK
    OBVIOUS
  <2>1. cancelled \in [Run -> BOOLEAN] /\ bornHalted \in [Run -> BOOLEAN]
    BY Zenon DEF Init
  <2>2. overlay \in [run : Run \union {NoRun}, phase : Nat]
    BY DEF Init, NoOverlay, NoRun
  <2>3. /\ pc \in [Run -> Locations]
        /\ phase \in [Run -> Nat]
        /\ phaseCount \in [Run -> Nat]
    BY DEF Init, Locations
  <2>4. scenarioGen \in 0 .. MaxRuns /\ scenarioCancel \in Run \union {NoRun}
    BY ScenarioAssumption DEF Init
  <2> QED
    BY <2>1, <2>2, <2>3, <2>4 DEF Init, TypeOK
<1>2. TypeOK /\ [Next]_vars => TypeOK'
  <2> SUFFICES ASSUME TypeOK, [Next]_vars PROVE TypeOK'
    OBVIOUS
  <2> USE ScenarioAssumption DEF TypeOK, Run, NoRun, NoOverlay, Locations,
                                 chaosVars, runVars
  <2>1. ASSUME NEW n \in PhaseCounts, StartScenario(n) PROVE TypeOK'
    BY <2>1 DEF StartScenario
  <2>2. CASE StopScenario
    BY <2>2 DEF StopScenario, CancelActive
  <2>3. ASSUME NEW a \in Admins, HaltSwitch(a) PROVE TypeOK'
    BY <2>3 DEF HaltSwitch
  <2>4. ASSUME NEW a \in Admins, HaltStop(a) PROVE TypeOK'
    BY <2>4 DEF HaltStop, CancelActive
  <2>5. CASE Resume
    BY <2>5 DEF Resume
  <2>6. ASSUME NEW g \in Run, RunnerCheck(g) PROVE TypeOK'
    BY <2>6 DEF RunnerCheck, MoveTo
  <2>7. ASSUME NEW g \in Run, RunnerInstall(g) PROVE TypeOK'
    BY <2>7 DEF RunnerInstall, MoveTo
  <2>8. ASSUME NEW g \in Run, RunnerWake(g) PROVE TypeOK'
    BY <2>8 DEF RunnerWake, MoveTo
  <2>9. ASSUME NEW g \in Run, RunnerClear(g) PROVE TypeOK'
    BY <2>9 DEF RunnerClear, MoveTo
  <2>10. ASSUME NEW g \in Run, RunnerFinish(g) PROVE TypeOK'
    BY <2>10 DEF RunnerFinish, MoveTo
  <2>11. CASE UNCHANGED vars
    BY <2>11 DEF vars
  <2> QED
    BY <2>1, <2>2, <2>3, <2>4, <2>5, <2>6, <2>7, <2>8, <2>9, <2>10, <2>11
       DEF Next
<1> QED
  BY <1>1, <1>2, PTL DEF Spec

-----------------------------------------------------------------------------
(* The body of StopScenario empties the slot and leaves no run live. *)
LEMMA CancelActivePreserves ==
    ASSUME SlotInv, TypeOK', CancelActive
    PROVE  /\ StartedUpToGen' /\ SlotIsLatest' /\ SlotHeldByLiveRun'
           /\ \A g \in Run : ~Live(g)'
<1> USE DEF CancelActive
<1>1. \A g \in Run : ~Live(g)'
  BY DEF SlotInv, SlotHeldByLiveRun, Live, Running, TypeOK
<1>2. SlotIsLatest'
  BY DEF SlotIsLatest
<1>3. SlotHeldByLiveRun'
  BY <1>1 DEF SlotHeldByLiveRun, Run, NoRun
<1>4. StartedUpToGen'
  BY DEF SlotInv, StartedUpToGen, SlotHeldByLiveRun, Live, Running, TypeOK
<1> QED
  BY <1>1, <1>2, <1>3, <1>4

(* A step of a goroutine that neither ends it nor touches the slot keeps   *)
(* the set of live runs as it was.                                         *)
LEMMA MovePreserves ==
    ASSUME SlotInv, TypeOK', NEW g \in Run,
           NEW location \in Locations \ {"idle", "done"},
           Running(g), MoveTo(g, location),
           UNCHANGED <<scenarioGen, scenarioCancel, cancelled>>
    PROVE  StartedUpToGen' /\ SlotIsLatest' /\ SlotHeldByLiveRun'
<1> USE DEF SlotInv, TypeOK, MoveTo, Running
<1>1. StartedUpToGen'
  BY DEF StartedUpToGen
<1>2. SlotIsLatest'
  BY DEF SlotIsLatest
<1>3. SlotHeldByLiveRun'
  BY DEF SlotHeldByLiveRun, Live
<1> QED
  BY <1>1, <1>2, <1>3

LEMMA SlotInvStep == SlotInv /\ TypeOK' /\ [Next]_vars => SlotInv'
<1> SUFFICES ASSUME SlotInv, TypeOK', [Next]_vars
             PROVE  StartedUpToGen' /\ SlotIsLatest' /\ SlotHeldByLiveRun'
  BY DEF SlotInv
<1> USE ScenarioAssumption DEF chaosVars, runVars
<1>1. ASSUME NEW n \in PhaseCounts, StartScenario(n)
      PROVE  StartedUpToGen' /\ SlotIsLatest' /\ SlotHeldByLiveRun'
  <2> DEFINE new == scenarioGen + 1
  <2> USE <1>1 DEF StartScenario, SlotInv, TypeOK, Run, NoRun
  <2>1. new \in Run /\ pc[new] = "idle" /\ ~cancelled[new]
    BY DEF StartedUpToGen
  <2>2. StartedUpToGen'
    BY <2>1 DEF StartedUpToGen
  <2>3. SlotIsLatest'
    BY DEF SlotIsLatest
  <2>4. \A g \in Run : Live(g)' <=> g = new
    BY <2>1 DEF SlotHeldByLiveRun, Live, Running
  <2> QED
    BY <2>2, <2>3, <2>4 DEF SlotHeldByLiveRun
<1>2. CASE StopScenario
  BY <1>2, CancelActivePreserves DEF StopScenario
<1>3. ASSUME NEW a \in Admins, HaltSwitch(a)
      PROVE  StartedUpToGen' /\ SlotIsLatest' /\ SlotHeldByLiveRun'
  BY <1>3 DEF HaltSwitch, SlotInv, StartedUpToGen, SlotIsLatest,
              SlotHeldByLiveRun, Live, Running
<1>4. ASSUME NEW a \in Admins, HaltStop(a)
      PROVE  StartedUpToGen' /\ SlotIsLatest' /\ SlotHeldByLiveRun'
  BY <1>4, CancelActivePreserves DEF HaltStop
<1>5. CASE Resume
  BY <1>5 DEF Resume, SlotInv, StartedUpToGen, SlotIsLatest,
              SlotHeldByLiveRun, Live, Running
<1>6. ASSUME NEW g \in Run, RunnerCheck(g)
      PROVE  StartedUpToGen' /\ SlotIsLatest' /\ SlotHeldByLiveRun'
  <2>1. CASE phase[g] > phaseCount[g] \/ cancelled[g]
    BY <1>6, <2>1, MovePreserves DEF RunnerCheck, Running, Locations
  <2>2. CASE ~(phase[g] > phaseCount[g] \/ cancelled[g])
    BY <1>6, <2>2, MovePreserves DEF RunnerCheck, Running, Locations
  <2> QED
    BY <2>1, <2>2
<1>7. ASSUME NEW g \in Run, RunnerInstall(g)
      PROVE  StartedUpToGen' /\ SlotIsLatest' /\ SlotHeldByLiveRun'
  BY <1>7, MovePreserves DEF RunnerInstall, Running, Locations
<1>8. ASSUME NEW g \in Run, RunnerWake(g)
      PROVE  StartedUpToGen' /\ SlotIsLatest' /\ SlotHeldByLiveRun'
  BY <1>8, MovePreserves DEF RunnerWake, Running, Locations
<1>9. ASSUME NEW g \in Run, RunnerClear(g)
      PROVE  StartedUpToGen' /\ SlotIsLatest' /\ SlotHeldByLiveRun'
  BY <1>9, MovePreserves DEF RunnerClear, Running, Locations
<1>10. ASSUME NEW g \in Run, RunnerFinish(g)
       PROVE  StartedUpToGen' /\ SlotIsLatest' /\ SlotHeldByLiveRun'
  <2> USE <1>10 DEF RunnerFinish, MoveTo, SlotInv, TypeOK
  <2>1. StartedUpToGen'
    BY DEF StartedUpToGen
  <2>2. SlotIsLatest'
    BY DEF SlotIsLatest
  <2>3. CASE scenarioGen = g
    <3>1. \A h \in Run : ~Live(h)'
      BY <2>3 DEF SlotIsLatest, SlotHeldByLiveRun, Live, Running, Run, NoRun
    <3> QED
      BY <2>1, <2>2, <2>3, <3>1 DEF SlotHeldByLiveRun, Run, NoRun
  <2>4. CASE scenarioGen # g
    <3>1. ~Live(g)
      BY <2>4 DEF SlotIsLatest, SlotHeldByLiveRun, Run, NoRun
    <3> QED
      BY <2>1, <2>2, <2>4, <3>1 DEF SlotHeldByLiveRun, Live, Running
  <2> QED
    BY <2>3, <2>4
<1>11. CASE UNCHANGED vars
  BY <1>11 DEF vars, SlotInv, StartedUpToGen, SlotIsLatest,
               SlotHeldByLiveRun, Live, Running
<1> QED
  BY <1>1, <1>2, <1>3, <1>4, <1>5, <1>6, <1>7, <1>8, <1>9, <1>10, <1>11
     DEF Next

LEMMA SlotInvInit == Init /\ TypeOK => SlotInv
<1> SUFFICES ASSUME Init, TypeOK
             PROVE  StartedUpToGen /\ SlotIsLatest /\ SlotHeldByLiveRun
  BY DEF SlotInv
<1>1. \A g \in Run : pc[g] = "idle" /\ ~cancelled[g]
  BY Zenon DEF Init
<1> QED
  BY <1>1, ScenarioAssumption DEF Init, StartedUpToGen, SlotIsLatest,
     SlotHeldByLiveRun, Live, Running, Run, NoRun

LEMMA SlotInvariant == Spec => []SlotInv
BY TypeCorrect, SlotInvInit, SlotInvStep, PTL DEF Spec

(* Exactly the live run holds the scenario slot: no run becomes impossible *)
(* to stop, and no start is refused for a run that is over.                *)
THEOREM SlotCorrect == Spec => []SlotHeldByLiveRun
<1>1. SlotInv => SlotHeldByLiveRun
  BY DEF SlotInv
<1> QED
  BY <1>1, SlotInvariant, PTL

-----------------------------------------------------------------------------
(* No overlay outlives the goroutine that installed it, for any number of  *)
(* overlapping runs: the deferred Clear of runner.go is enough for that.   *)
THEOREM OverlayCorrect == Spec => []OverlayHasRunner
<1>1. Init => OverlayHasRunner
  BY DEF Init, OverlayHasRunner, NoOverlay
<1>2. TypeOK /\ OverlayHasRunner /\ [Next]_vars => OverlayHasRunner'
  <2> SUFFICES ASSUME TypeOK, OverlayHasRunner, [Next]_vars
               PROVE  OverlayHasRunner'
    OBVIOUS
  <2> USE DEF TypeOK, OverlayHasRunner, NoOverlay, NoRun, chaosVars, runVars
  <2>1. ASSUME NEW n \in PhaseCounts, StartScenario(n)
        PROVE  OverlayHasRunner'
    BY <2>1 DEF StartScenario
  <2>2. CASE StopScenario
    BY <2>2 DEF StopScenario, CancelActive
  <2>3. ASSUME NEW a \in Admins, HaltSwitch(a) PROVE OverlayHasRunner'
    BY <2>3 DEF HaltSwitch
  <2>4. ASSUME NEW a \in Admins, HaltStop(a) PROVE OverlayHasRunner'
    BY <2>4 DEF HaltStop, CancelActive
  <2>5. CASE Resume
    BY <2>5 DEF Resume
  <2>6. ASSUME NEW g \in Run, RunnerCheck(g) PROVE OverlayHasRunner'
    BY <2>6 DEF RunnerCheck, MoveTo
  <2>7. ASSUME NEW g \in Run, RunnerInstall(g) PROVE OverlayHasRunner'
    BY <2>7 DEF RunnerInstall, MoveTo
  <2>8. ASSUME NEW g \in Run, RunnerWake(g) PROVE OverlayHasRunner'
    BY <2>8 DEF RunnerWake, MoveTo
  <2>9. ASSUME NEW g \in Run, RunnerClear(g) PROVE OverlayHasRunner'
    BY <2>9 DEF RunnerClear, MoveTo
  <2>10. ASSUME NEW g \in Run, RunnerFinish(g) PROVE OverlayHasRunner'
    BY <2>10 DEF RunnerFinish, MoveTo
  <2>11. CASE UNCHANGED vars
    BY <2>11 DEF vars
  <2> QED
    BY <2>1, <2>2, <2>3, <2>4, <2>5, <2>6, <2>7, <2>8, <2>9, <2>10, <2>11
       DEF Next
<1> QED
  BY <1>1, <1>2, TypeCorrect, PTL DEF Spec

(* A step of a goroutine starts no run, so it makes none live. *)
LEMMA RunnerMakesNoneLive ==
    ASSUME TypeOK, NEW g \in Run, RunnerStep(g)
    PROVE  /\ \A h \in Run : Live(h)' => Live(h)
           /\ UNCHANGED <<halted, halting, bornHalted>>
BY DEF RunnerStep, RunnerCheck, RunnerInstall, RunnerWake, RunnerClear,
       RunnerFinish, MoveTo, Live, Running, TypeOK, chaosVars

(* Once every halt handler has returned, no scenario started before the    *)
(* halt is live, however halts, resumes, starts and stops interleave.      *)
THEOREM HaltCorrect == Spec => []HaltAbortsEarlierRuns
<1>1. Init => HaltAbortsEarlierRuns
  BY DEF Init, HaltAbortsEarlierRuns
<1>2. SlotInv /\ TypeOK' /\ HaltAbortsEarlierRuns /\ [Next]_vars
        => HaltAbortsEarlierRuns'
  <2> SUFFICES ASSUME SlotInv, TypeOK', HaltAbortsEarlierRuns, [Next]_vars
               PROVE  HaltAbortsEarlierRuns'
    OBVIOUS
  <2> USE DEF HaltAbortsEarlierRuns
  <2>1. ASSUME NEW n \in PhaseCounts, StartScenario(n)
        PROVE  HaltAbortsEarlierRuns'
    <3> DEFINE new == scenarioGen + 1
    <3>1. \A g \in Run : g # new => (Live(g)' <=> Live(g))
                                    /\ bornHalted'[g] = bornHalted[g]
      BY <2>1 DEF StartScenario, Live, Running, SlotInv, TypeOK
    <3>2. new \in Run /\ bornHalted'[new] = halted
      BY <2>1, ScenarioAssumption DEF StartScenario, SlotInv, TypeOK, Run
    <3> QED
      BY <2>1, <3>1, <3>2 DEF StartScenario, chaosVars
  <2>2. CASE StopScenario
    BY <2>2, CancelActivePreserves DEF StopScenario
  <2>3. ASSUME NEW a \in Admins, HaltSwitch(a) PROVE HaltAbortsEarlierRuns'
    BY <2>3 DEF HaltSwitch
  <2>4. ASSUME NEW a \in Admins, HaltStop(a) PROVE HaltAbortsEarlierRuns'
    BY <2>4, CancelActivePreserves DEF HaltStop
  <2>5. CASE Resume
    BY <2>5 DEF Resume
  <2>6. ASSUME NEW g \in Run, RunnerStep(g) PROVE HaltAbortsEarlierRuns'
    BY <2>6, RunnerMakesNoneLive DEF SlotInv
  <2>7. CASE UNCHANGED vars
    BY <2>7 DEF vars, chaosVars, runVars, Live, Running
  <2> QED
    BY <2>1, <2>2, <2>3, <2>4, <2>5, <2>6, <2>7 DEF Next, RunnerStep
<1> QED
  BY <1>1, <1>2, SlotInvariant, TypeCorrect, PTL DEF Spec

-----------------------------------------------------------------------------
(* At most one run is live: the slot has room for one generation. *)
LEMMA OneLiveRun ==
    ASSUME SlotInv, NEW g \in Run, NEW h \in Run, Live(g), Live(h)
    PROVE  g = h
BY DEF SlotInv, SlotHeldByLiveRun

(* A live run loses its overlay only to its own goroutine or to that of a  *)
(* run that was stopped: the 409 of StartScenario keeps live runs apart,   *)
(* whatever goroutines of stopped runs are still on their way out.         *)
THEOREM OverlayDisplacement == Spec => OverlayDisplacedOnlyByStoppedRun
<1> DEFINE Displaced == \A g \in Run :
              overlay.run = g /\ Live(g) =>
                 \/ overlay'.run = g
                 \/ pc'[g] # pc[g]
                 \/ \E h \in Run : cancelled[h] /\ pc'[h] # pc[h]
<1>1. SlotInv /\ [Next]_vars => [Displaced]_overlay
  <2> SUFFICES ASSUME SlotInv, [Next]_vars, overlay' # overlay,
                      NEW g \in Run, overlay.run = g, Live(g)
               PROVE  \/ overlay'.run = g
                      \/ pc'[g] # pc[g]
                      \/ \E h \in Run : cancelled[h] /\ pc'[h] # pc[h]
    OBVIOUS
  <2>1. PICK h \in Run : RunnerInstall(h) \/ RunnerClear(h)
    BY DEF Next, StartScenario, StopScenario, HaltSwitch, HaltStop, Resume,
           CancelActive, RunnerCheck, RunnerWake, RunnerFinish, vars
  <2>2. pc'[h] # pc[h] /\ Running(h)
    BY <2>1 DEF RunnerInstall, RunnerClear, MoveTo, Running, SlotInv, TypeOK
  <2>3. CASE cancelled[h]
    BY <2>2, <2>3
  <2>4. CASE ~cancelled[h]
    BY <2>2, <2>4, OneLiveRun DEF Live
  <2> QED
    BY <2>3, <2>4
<1> QED
  BY <1>1, SlotInvariant, PTL DEF Spec, OverlayDisplacedOnlyByStoppedRun
=============================================================================
