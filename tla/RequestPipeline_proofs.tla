----------------------- MODULE RequestPipeline_proofs -----------------------
(***************************************************************************)
(* Proofs about RequestPipeline, for any number of requests, any           *)
(* configurations, overlays and bounds: the kill switch suppresses faults, *)
(* every request gets the one answer it should, a retry storm stays within *)
(* its bound, the rule that is matched is the most specific one, buckets   *)
(* are drawn by their weights, and what is injected was in force.  The     *)
(* sections on operators hold for any sequence of rules or of buckets.     *)
(***************************************************************************)
EXTENDS RequestPipeline, FoldLemmas

-----------------------------------------------------------------------------
(* What the proofs need of the shape of a context: it is a record with at  *)
(* least these fields.                                                     *)
Record(c) == c = [f \in DOMAIN c |-> c[f]]

Running(c) ==
    /\ Record(c)
    /\ {"at", "request", "gen", "terminal", "connFault", "fault", "response", "forward",
        "simulation", "profile", "nextFault"} \subseteq DOMAIN c
    /\ c.at \in {"switch", "overlay", "fault", "rest"}
    /\ c.terminal \in BOOLEAN /\ c.forward \in BOOLEAN

(* Until a terminal fault hits, nothing has answered; after it the fault   *)
(* stage is over and the answer is there: a response, or what to do to the *)
(* connection.                                                             *)
Unanswered(c) == c.connFault = Unset /\ c.response = Unset

Answered(c) ==
    /\ c.at = "rest"
    /\ c.response = "fault" \/ c.connFault # Unset
    /\ c.response \in {Unset, "fault"}

OneAnswer(c) == IF c.terminal THEN Answered(c) ELSE Unanswered(c)

(* The answer of a request that is done, as PipelineAnswers has it.        *)
RightAnswer(c) ==
    /\ c.at = "done"
    /\ c.answer # "noResponse"
    /\ c.terminal => c.answer \in {"fault", "closed", "truncated"}

Context(c) == c = NoRequest \/ (Running(c) /\ OneAnswer(c)) \/ RightAnswer(c)

(* A request the switch has covered so far still stands before the switch, *)
(* which is halted, or has skipped the faults.                             *)
Silent(r) ==
    quiet[r] /\ ctx[r].at \in {"switch", "overlay", "fault", "rest"} =>
        /\ ctx[r].fault = Unset
        /\ ctx[r].at = "rest" \/ (ctx[r].at = "switch" /\ halted)

ContextInv ==
    /\ ctx = [r \in Requests |-> ctx[r]]
    /\ \A r \in Requests : Context(ctx[r])

QuietInv ==
    /\ quiet = [r \in Requests |-> quiet[r]]
    /\ \A r \in Requests : Silent(r)

IInv == ContextInv /\ QuietInv

-----------------------------------------------------------------------------
(* The context of one request changes.                                     *)
Moves(r, c) == ctx' = [ctx EXCEPT ![r] = c]

LEMMA MoveKeeps ==
  ASSUME IInv, NEW r \in Requests, NEW c, Moves(r, c), Context(c)
  PROVE  ContextInv'
BY DEF IInv, ContextInv, Moves

(* The fault stage moves on: the switch is as it was, and a request it     *)
(* covers is not hit.                                                      *)
LEMMA StageKeeps ==
  ASSUME IInv, NEW r \in Requests, NEW c, Moves(r, c), Running(c), OneAnswer(c),
         UNCHANGED <<halted, quiet>>,
         quiet[r] => c.fault = Unset /\ c.at = "rest"
  PROVE  IInv'
<1>1. ContextInv'
  BY MoveKeeps DEF Context
<1>2. ASSUME NEW s \in Requests PROVE Silent(s)'
  <2>1. CASE s = r
    BY <2>1 DEF IInv, ContextInv, QuietInv, Silent, Moves
  <2>2. CASE s # r
    BY <2>2 DEF IInv, ContextInv, QuietInv, Silent, Moves
  <2> QED
    BY <2>1, <2>2
<1> QED
  BY <1>1, <1>2 DEF IInv, QuietInv

(* A request that may be hit is in the fault stage, and so not covered.    *)
LEMMA HitIsLoud ==
  ASSUME IInv, NEW r \in Requests, ctx[r].at \in {"overlay", "fault"}
  PROVE  /\ ~quiet[r]
         /\ Running(ctx[r]) /\ ~ctx[r].terminal /\ Unanswered(ctx[r])
BY DEF IInv, ContextInv, QuietInv, Silent, Context, OneAnswer, Answered, NoRequest, RightAnswer

-----------------------------------------------------------------------------
(* The stages behind the fault stage.                                      *)
LEMMA FinishAnswers ==
  ASSUME NEW c, Running(c), OneAnswer(c), c.at = "rest",
         NEW d \in Then(Then(Then(Simulate(c), Script), Forward), Answer)
  PROVE  RightAnswer(d)
<1> DEFINE Fails(x) == x.at = "done" /\ x.answer = "error" /\ ~x.terminal
           Goes(x) == /\ x.at = "rest" /\ x.terminal = c.terminal /\ x.connFault = c.connFault
                      /\ Record(x) /\ {"at", "terminal", "connFault", "response", "forward"} \subseteq DOMAIN x
                      /\ c.terminal => x.response = c.response
                      /\ x.forward = c.forward
<1>1. \A x \in Simulate(c) :
          \/ Fails(x)
          \/ Goes(x) /\ (~c.terminal /\ ~c.forward => x.response = "simulated")
  BY DEF Simulate, Ended, Running, Record
<1>2. ASSUME NEW x \in Then(Simulate(c), Script)
      PROVE  \/ Fails(x)
             \/ Goes(x) /\ (~c.terminal /\ ~c.forward => x.response = "simulated")
  BY <1>1, <1>2 DEF Then, Script, Ended
<1>3. ASSUME NEW x \in Then(Then(Simulate(c), Script), Forward)
      PROVE  \/ Fails(x)
             \/ Goes(x) /\ (~c.terminal => x.response \in {"simulated", "upstream"})
  BY <1>2, <1>3 DEF Then, Forward, Ended, Record
<1>4. PICK x \in Then(Then(Simulate(c), Script), Forward) :
          d \in IF x.at = "done" THEN {x} ELSE Answer(x)
  BY DEF Then
<1>5. CASE Fails(x)
  BY <1>4, <1>5 DEF RightAnswer
<1>6. CASE Goes(x) /\ (~c.terminal => x.response \in {"simulated", "upstream"})
  <2> DEFINE answer == IF x.connFault = "halfResponse" /\ x.response # Unset THEN "truncated"
                       ELSE IF x.connFault # Unset THEN "closed"
                       ELSE IF x.response = Unset THEN "noResponse" ELSE x.response
  <2>1. d \in {Ended(x, answer)}
    BY <1>4, <1>6 DEF Answer
  <2> HIDE DEF answer
  <2>2. d.at = "done" /\ d.terminal = x.terminal /\ d.answer = answer
    BY <2>1 DEF Ended
  <2> USE DEF answer
  <2>3. CASE c.terminal
    BY <1>6, <2>2, <2>3 DEF RightAnswer, OneAnswer, Answered, Unset
  <2>4. CASE ~c.terminal
    BY <1>6, <2>2, <2>4 DEF RightAnswer, OneAnswer, Unanswered, Unset
  <2> QED
    BY <2>3, <2>4
<1> QED
  BY <1>3, <1>4, <1>5, <1>6

-----------------------------------------------------------------------------
LEMMA InvInit == Init => IInv
BY DEF Init, IInv, ContextInv, QuietInv, Context, Silent, NoRequest

(* The steps around the requests: halting covers the requests before the   *)
(* switch, resuming uncovers them.                                         *)
LEMMA AroundKeeps ==
  ASSUME IInv,
         \/ \E c \in Configs : Rebuild(c)
         \/ Halt \/ Resume \/ Tick
         \/ \E o \in Overlays \union {NoOverlay} : ChangeOverlay(o)
  PROVE  IInv'
<1>1. ctx' = ctx
  BY DEF Rebuild, Halt, Resume, Tick, ChangeOverlay
<1>2. ContextInv'
  BY <1>1 DEF IInv, ContextInv
<1>3. CASE Resume
  <2>1. \A r \in Requests : quiet'[r] = (quiet[r] /\ ~Undecided(r))
    BY <1>3 DEF Resume
  <2>2. ASSUME NEW r \in Requests PROVE Silent(r)'
    BY <1>1, <2>1 DEF IInv, QuietInv, Silent, Undecided
  <2>3. quiet' = [r \in Requests |-> quiet'[r]]
    BY <1>3 DEF Resume
  <2> QED
    BY <1>2, <2>2, <2>3 DEF IInv, QuietInv
<1>4. CASE ~Resume
  <2>1. quiet' = quiet /\ (halted' = halted \/ halted')
    BY <1>4 DEF Rebuild, Halt, Tick, ChangeOverlay, chaosVars, historyVars
  <2> QED
    BY <1>1, <1>2, <2>1 DEF IInv, QuietInv, Silent
<1> QED
  BY <1>3, <1>4

LEMMA ArriveKeeps ==
  ASSUME IInv, NEW r \in Requests, NEW q \in Arrivals, Arrive(r, q)
  PROVE  IInv'
<1> DEFINE new == [at |-> "switch", request |-> q, gen |-> Current, matched |-> NoRule,
                   simulation |-> Unset, forward |-> FALSE, profile |-> NoProfile,
                   nextFault |-> 1, terminal |-> FALSE, connFault |-> Unset,
                   fault |-> Unset, response |-> Unset]
           Fresh(d) == Running(d) /\ Unanswered(d) /\ ~d.terminal /\ d.fault = Unset /\ d.at = "switch"
<1>1. Fresh(Matched(new))
  BY DEF Matched, Running, Unanswered, Record
<1>2. ASSUME NEW d \in Routed(Matched(new)) PROVE Fresh(d)
  <2> DEFINE m == Matched(new)
  <2>1. PICK b : d = [m EXCEPT !.profile = b.profile, !.simulation = b.simulation,
                               !.forward = b.action = "forward"]
    BY <1>2 DEF Routed
  <2>2. Fresh(m)
    BY <1>1
  <2> HIDE DEF m
  <2> QED
    BY <2>1, <2>2 DEF Running, Unanswered, Record
<1>3. RightAnswer(Ended(Matched(new), "error"))
  BY <1>1 DEF RightAnswer, Ended
<1> HIDE DEF new
<1>4. CASE Matched(new).matched = NoRule
  <2>1. Moves(r, Ended(Matched(new), "error")) /\ UNCHANGED <<quiet, halted>>
    BY <1>4 DEF Arrive, Moves, new, chaosVars
  <2>2. ContextInv'
    BY <1>3, <2>1, MoveKeeps DEF Context
  <2>3. ASSUME NEW s \in Requests PROVE Silent(s)'
    <3>1. CASE s = r
      BY <1>3, <2>1, <3>1 DEF IInv, ContextInv, Silent, Moves, RightAnswer
    <3>2. CASE s # r
      BY <2>1, <3>2 DEF IInv, ContextInv, QuietInv, Silent, Moves
    <3> QED
      BY <3>1, <3>2
  <2> QED
    BY <2>1, <2>2, <2>3 DEF IInv, QuietInv
<1>5. CASE Matched(new).matched # NoRule
  <2>1. PICK d \in Routed(Matched(new)) : Moves(r, d)
    BY <1>5 DEF Arrive, Moves, new
  <2>2. quiet' = [quiet EXCEPT ![r] = halted] /\ halted' = halted
    BY <1>5 DEF Arrive, new, chaosVars
  <2>3. ContextInv'
    BY <1>2, <2>1, MoveKeeps DEF Context, OneAnswer
  <2>4. ASSUME NEW s \in Requests PROVE Silent(s)'
    <3>1. CASE s = r
      BY <1>2, <2>1, <2>2, <3>1 DEF IInv, ContextInv, QuietInv, Silent, Moves
    <3>2. CASE s # r
      BY <2>1, <2>2, <3>2 DEF IInv, ContextInv, QuietInv, Silent, Moves
    <3> QED
      BY <3>1, <3>2
  <2>5. quiet' = [s \in Requests |-> quiet'[s]]
    BY <2>2 DEF IInv, QuietInv
  <2> QED
    BY <2>3, <2>4, <2>5 DEF IInv, QuietInv
<1> QED
  BY <1>4, <1>5

LEMMA FaultStageKeeps ==
  ASSUME IInv, NEW r \in Requests,
         \/ CheckSwitch(r) \/ ReadOverlay(r) \/ FaultsDone(r) \/ FaultMisses(r)
         \/ ModifierHits(r) \/ ErrorHits(r) \/ ConnFaultHits(r) \/ RetryStormHits(r)
  PROVE  IInv'
<1> DEFINE c == ctx[r]
<1>1. UNCHANGED <<halted, quiet>>
  BY DEF CheckSwitch, ReadOverlay, FaultsDone, FaultMisses, ModifierHits, ErrorHits,
         ConnFaultHits, RetryStormHits, Local, chaosVars, historyVars
<1>2. ASSUME c.at \in {"overlay", "fault"}
      PROVE  ~quiet[r] /\ Running(c) /\ ~c.terminal /\ Unanswered(c)
  BY <1>2, HitIsLoud
<1>3. CASE CheckSwitch(r)
  <2> DEFINE d == [c EXCEPT !.at = IF halted THEN "rest" ELSE "overlay"]
  <2>1. c.at = "switch" /\ Moves(r, d)
    BY <1>3 DEF CheckSwitch, Moves, IInv, ContextInv
  <2>2. Running(c) /\ ~c.terminal /\ Unanswered(c)
    BY <2>1 DEF IInv, ContextInv, Context, OneAnswer, Answered, NoRequest, RightAnswer
  <2>3. Running(d) /\ OneAnswer(d) /\ d.fault = c.fault
    BY <2>2 DEF Running, Record, OneAnswer, Unanswered
  <2>4. quiet[r] => c.fault = Unset /\ halted
    BY <2>1 DEF IInv, QuietInv, Silent
  <2>5. halted => d.at = "rest"
    BY <2>2 DEF Running
  <2> HIDE DEF c, d
  <2> QED
    BY <1>1, <2>1, <2>3, <2>4, <2>5, StageKeeps
<1>4. CASE ReadOverlay(r)
  <2> DEFINE d == [c EXCEPT !.at = "fault",
                            !.profile = Effective(overlay, Rule(c).id, c.profile)]
  <2>1. c.at = "overlay" /\ Moves(r, d)
    BY <1>4 DEF ReadOverlay, Moves, IInv, ContextInv
  <2>2. Running(d) /\ OneAnswer(d)
    BY <1>2, <2>1 DEF Running, Record, OneAnswer, Unanswered
  <2> HIDE DEF d
  <2> QED
    BY <1>1, <1>2, <2>1, <2>2, StageKeeps
<1>5. CASE FaultsDone(r)
  <2> DEFINE d == [c EXCEPT !.at = "rest"]
  <2>1. c.at = "fault" /\ Moves(r, d)
    BY <1>5 DEF FaultsDone, Moves, IInv, ContextInv
  <2>2. Running(d) /\ OneAnswer(d)
    BY <1>2, <2>1 DEF Running, Record, OneAnswer, Unanswered
  <2> HIDE DEF d
  <2> QED
    BY <1>1, <1>2, <2>1, <2>2, StageKeeps
<1>6. ASSUME FaultPending(r), ctx' = [ctx EXCEPT ![r].nextFault = @ + 1] PROVE IInv'
  <2> DEFINE d == [c EXCEPT !.nextFault = c.nextFault + 1]
  <2>1. c.at = "fault" /\ Moves(r, d)
    BY <1>6 DEF FaultPending, Moves, IInv, ContextInv
  <2>2. Running(d) /\ OneAnswer(d)
    BY <1>2, <2>1 DEF Running, Record, OneAnswer, Unanswered
  <2> HIDE DEF d
  <2> QED
    BY <1>1, <1>2, <2>1, <2>2, StageKeeps
<1>7. CASE FaultMisses(r)
  BY <1>6, <1>7 DEF FaultMisses
<1>8. CASE ModifierHits(r)
  <2> DEFINE d == [c EXCEPT !.fault = NextFault(r).type, !.nextFault = c.nextFault + 1]
  <2>1. c.at = "fault" /\ Moves(r, d)
    BY <1>8 DEF ModifierHits, Hits, FaultPending, Moves, IInv, ContextInv
  <2>2. Running(d) /\ OneAnswer(d)
    BY <1>2, <2>1 DEF Running, Record, OneAnswer, Unanswered
  <2> HIDE DEF d
  <2> QED
    BY <1>1, <1>2, <2>1, <2>2, StageKeeps
<1>9. ASSUME NEW f, ctx' = [ctx EXCEPT ![r] = [ShortCircuited(c, f) EXCEPT !.response = "fault"]],
             c.at = "fault"
      PROVE  IInv'
  <2> DEFINE d == [ShortCircuited(c, f) EXCEPT !.response = "fault"]
  <2>1. Running(d) /\ OneAnswer(d)
    BY <1>2, <1>9 DEF ShortCircuited, Running, Record, OneAnswer, Answered
  <2>2. Moves(r, d)
    BY <1>9 DEF Moves
  <2> HIDE DEF d
  <2> QED
    BY <1>1, <1>2, <1>9, <2>1, <2>2, StageKeeps
<1>10. CASE ErrorHits(r)
  BY <1>9, <1>10 DEF ErrorHits, Hits, FaultPending
<1>11. CASE ConnFaultHits(r)
  <2> DEFINE d == [ShortCircuited(c, NextFault(r)) EXCEPT !.connFault = NextFault(r).type]
  <2>1. c.at = "fault" /\ Moves(r, d) /\ NextFault(r).type \in {"hang", "reset", "halfResponse"}
    BY <1>11 DEF ConnFaultHits, Hits, FaultPending, Moves
  <2>2. Running(d) /\ OneAnswer(d)
    BY <1>2, <2>1 DEF ShortCircuited, Running, Record, OneAnswer, Answered, Unanswered, Unset
  <2> HIDE DEF d
  <2> QED
    BY <1>1, <1>2, <2>1, <2>2, StageKeeps
<1>12. CASE RetryStormHits(r)
  BY <1>6, <1>9, <1>12 DEF RetryStormHits, Hits, FaultPending
<1> QED
  BY <1>3, <1>4, <1>5, <1>7, <1>8, <1>10, <1>11, <1>12

LEMMA FinishKeeps ==
  ASSUME IInv, NEW r \in Requests, Finish(r)
  PROVE  IInv'
<1>1. Running(ctx[r]) /\ OneAnswer(ctx[r]) /\ ctx[r].at = "rest"
  BY DEF Finish, IInv, ContextInv, Context, NoRequest, RightAnswer
<1>2. PICK d \in Then(Then(Then(Simulate(ctx[r]), Script), Forward), Answer) : Moves(r, d)
  BY DEF Finish, Moves
<1>3. RightAnswer(d)
  BY <1>1, <1>2, FinishAnswers
<1>4. ContextInv'
  BY <1>2, <1>3, MoveKeeps DEF Context
<1>5. quiet' = [quiet EXCEPT ![r] = FALSE] /\ halted' = halted
  BY DEF Finish, chaosVars
<1>6. ASSUME NEW s \in Requests PROVE Silent(s)'
  <2>1. CASE s = r
    BY <1>5, <2>1 DEF IInv, QuietInv, Silent
  <2>2. CASE s # r
    BY <1>2, <1>5, <2>2 DEF IInv, ContextInv, QuietInv, Silent, Moves
  <2> QED
    BY <2>1, <2>2
<1>7. quiet' = [s \in Requests |-> quiet'[s]]
  BY <1>5 DEF IInv, QuietInv
<1> QED
  BY <1>4, <1>6, <1>7 DEF IInv, QuietInv

LEMMA InvStep == IInv /\ [Next]_vars => IInv'
<1> SUFFICES ASSUME IInv, [Next]_vars PROVE IInv'
  OBVIOUS
<1>1. CASE UNCHANGED vars
  BY <1>1 DEF vars, chaosVars, historyVars, IInv, ContextInv, QuietInv, Silent
<1> QED
  BY <1>1, AroundKeeps, ArriveKeeps, FaultStageKeeps, FinishKeeps DEF Next

-----------------------------------------------------------------------------
(* A request that arrives while the switch is halted, and reaches its      *)
(* fault stage before it is resumed, has no fault injected (Execute of the *)
(* fault stage reads Halted before anything else), for any number of       *)
(* requests and whatever scenarios and rebuilds do.                        *)
THEOREM HaltCorrect == Spec => []HaltSuppressesFaults
<1>1. IInv => HaltSuppressesFaults
  BY DEF IInv, ContextInv, QuietInv, Context, Running, RightAnswer, NoRequest, Silent,
         HaltSuppressesFaults, Arrived, Done
<1> QED
  BY <1>1, InvInit, InvStep, PTL DEF Spec

(* Handler.ServeHTTP never lacks a response of a request the pipeline did  *)
(* not fail, and after a terminal fault the client sees the fault alone,   *)
(* whichever rule, bucket and profile the request met.                     *)
THEOREM AnswersCorrect == Spec => []PipelineAnswers
<1>1. IInv => PipelineAnswers
  BY DEF IInv, ContextInv, Context, Running, RightAnswer, NoRequest, PipelineAnswers, Done
<1> QED
  BY <1>1, InvInit, InvStep, PTL DEF Spec

-----------------------------------------------------------------------------
(* Retry storms.                                                           *)
RunningAt == {"switch", "overlay", "fault", "rest"}
Entry == [count : Nat, start : Nat]

StormsTyped ==
    /\ builds \in Seq(Configs) /\ retry \in Seq([Keys -> Entry])
    /\ Len(builds) = Len(retry) /\ Len(builds) \in Nat \ {0}
    /\ now \in Nat
    /\ IsFiniteSet(storms)
    /\ \A s \in storms : s.gen \in 1 .. Len(builds) /\ s.key \in Keys /\ s.at \in Nat /\ s.at <= now

(* A running request is in a pipeline that was built.                      *)
Placed(c) ==
    c.at \in RunningAt => c.gen \in 1 .. Len(builds) /\ c.request \in Arrivals

Failed(g, k) == {s \in storms : s.gen = g /\ s.key = k}

(* No failure of a key came after the window its entry counts, so that the *)
(* one that opens the next window leaves all of them behind; the entry     *)
(* counts at least the failures of its window, and these are within the    *)
(* bound of a fault.                                                       *)
Within(g, k) ==
    Failed(g, k) # {} =>
        \E f \in StormFaults(builds[g]) : Cardinality(InWindow(g, k)) <= f.failFirst

StormsCounted(g, k) ==
    /\ retry[g][k].count = 0 => Failed(g, k) = {}
    /\ retry[g][k].start <= now
    /\ \A f \in StormFaults(builds[g]), s \in Failed(g, k) : s.at < retry[g][k].start + f.window
    /\ Cardinality(InWindow(g, k)) <= retry[g][k].count
    /\ Within(g, k)

StormInv ==
    /\ StormsTyped
    /\ \A r \in Requests : Placed(ctx[r])
    /\ \A g \in 1 .. Len(builds), k \in Keys : OneWindow(builds[g]) => StormsCounted(g, k)

(* A step of a request stays in its pipeline.                              *)
Stays(c, d) == c.at \in RunningAt /\ d.gen = c.gen /\ d.request = c.request

LEMMA StaysPlaced ==
  ASSUME IInv, StormInv, NEW r \in Requests, NEW d, Moves(r, d), UNCHANGED builds,
         d.at \notin RunningAt \/ Stays(ctx[r], d) \/ Placed(d)
  PROVE  (\A s \in Requests : Placed(ctx[s]))'
<1> SUFFICES ASSUME NEW s \in Requests, ctx'[s].at \in RunningAt
             PROVE  ctx'[s].gen \in 1 .. Len(builds) /\ ctx'[s].request \in Arrivals
  BY DEF Placed
<1>1. ctx'[s] = IF s = r THEN d ELSE ctx[s]
  BY DEF IInv, ContextInv, Moves
<1>2. Placed(ctx[s]) /\ Placed(ctx[r])
  BY DEF StormInv
<1> QED
  BY <1>1, <1>2 DEF Placed, Stays

(* A step that leaves the counters alone.                                  *)
LEMMA CountersKeep ==
  ASSUME StormInv, UNCHANGED <<builds, retry, storms>>, now' = now \/ now' = now + 1,
         (\A s \in Requests : Placed(ctx[s]))'
  PROVE  StormInv'
<1>1. now \in Nat /\ now' \in Nat /\ now <= now'
  BY DEF StormInv, StormsTyped
<1>2. \A s \in storms : s.at <= now'
  BY <1>1 DEF StormInv, StormsTyped
<1>3. StormsTyped'
  BY <1>1, <1>2 DEF StormInv, StormsTyped
<1>4. ASSUME NEW g \in 1 .. Len(builds), NEW k \in Keys, OneWindow(builds[g])
      PROVE  StormsCounted(g, k)'
  <2>1. StormsCounted(g, k) /\ retry[g][k].start \in Nat
    BY <1>4 DEF StormInv, StormsTyped, Entry
  <2>2. retry[g][k].start <= now'
    BY <1>1, <2>1 DEF StormsCounted
  <2>3. InWindow(g, k)' = InWindow(g, k) /\ Failed(g, k)' = Failed(g, k)
    BY DEF InWindow, Failed
  <2> QED
    BY <2>1, <2>2, <2>3 DEF StormsCounted, Within
<1> QED
  BY <1>3, <1>4 DEF StormInv

(* The fault that hits belongs to the pipeline, and its key is one of      *)
(* those the pipeline counts.                                              *)
LEMMA PendingFault ==
  ASSUME StormInv, NEW r \in Requests, Hits(r, {"retryStorm"})
  PROVE  /\ ctx[r].gen \in 1 .. Len(builds)
         /\ NextFault(r) \in StormFaults(builds[ctx[r].gen])
         /\ RetryKey(NextFault(r), ctx[r].request) \in Keys
         /\ NextFault(r).failFirst \in Nat \ {0} /\ NextFault(r).window \in Nat \ {0}
<1> DEFINE c == builds[ctx[r].gen]
           f == NextFault(r)
<1>1. ctx[r].at = "fault" /\ ctx[r].gen \in 1 .. Len(builds) /\ ctx[r].request \in Arrivals
  BY DEF StormInv, Placed, RunningAt, Hits, FaultPending
<1>2. c \in Configs
  BY <1>1 DEF StormInv, StormsTyped
<1>3. f \in FaultsOf(c) /\ f.type = "retryStorm"
  <2>1. ctx[r].nextFault \in DOMAIN FaultsIn(c, ctx[r].profile) /\ f.type = "retryStorm"
    BY DEF Hits, FaultPending, Config
  <2>2. /\ ctx[r].profile \in DOMAIN c.profiles
        /\ FaultsIn(c, ctx[r].profile) = c.profiles[ctx[r].profile].faults
    BY <2>1 DEF FaultsIn
  <2>3. f \in ToSet(c.profiles[ctx[r].profile].faults)
    BY <2>1, <2>2 DEF NextFault, Config, ToSet
  <2> QED
    BY <2>1, <2>2, <2>3 DEF FaultsOf
<1>4. f \in StormFaults(c)
  BY <1>3 DEF StormFaults
<1> HIDE DEF c, f
<1>5. {f.failFirst, f.window} \subseteq Nat \ {0}
  BY <1>2, <1>4, PipelineAssumption
<1>6. RetryKey(f, ctx[r].request) \in Keys
  <2>1. PICK q \in Arrivals : q = ctx[r].request
    BY <1>1
  <2>2. f \in UNION {FaultsOf(c0) : c0 \in Configs}
    BY <1>2, <1>3
  <2> QED
    BY <2>1, <2>2 DEF Keys
<1> QED
  BY <1>1, <1>4, <1>5, <1>6 DEF c, f

(* Counting a request in the entry of its key, and failing it when the     *)
(* count is within the bound of its fault, keeps the count.                *)
LEMMA CountKeeps ==
  ASSUME StormInv, NEW g \in 1 .. Len(builds), NEW k \in Keys, OneWindow(builds[g]),
         NEW f \in StormFaults(builds[g]), f.failFirst \in Nat \ {0}, f.window \in Nat \ {0},
         UNCHANGED <<builds, now>>, NEW entry, entry = Counted(retry[g][k], f),
         retry'[g][k] = entry,
         NEW s0, s0.gen = g, s0.key = k, s0.at = now,
         \/ storms' = storms
         \/ storms' = storms \union {s0} /\ entry.count <= f.failFirst
  PROVE  StormsCounted(g, k)'
<1>1. PICK old : old = retry[g][k]
  OBVIOUS
<1>2. PICK failed : failed = Failed(g, k)
  OBVIOUS
<1>3. PICK window : window = InWindow(g, k)
  OBVIOUS
<1>4. /\ old.count \in Nat /\ old.start \in Nat /\ now \in Nat /\ IsFiniteSet(storms)
      /\ \A s \in failed : s.at \in Nat /\ s.at <= now
  BY <1>1, <1>2 DEF StormInv, StormsTyped, Entry, Failed
<1>5. /\ old.count = 0 => failed = {}
      /\ old.start <= now
      /\ \A s \in failed : s.at < old.start + f.window
      /\ Cardinality(window) <= old.count
      /\ Within(g, k)
  BY <1>1, <1>2, <1>3 DEF StormInv, StormsCounted
<1>6. IsFiniteSet(window) /\ Cardinality(window) \in Nat
  <2>1. window \in SUBSET storms
    BY <1>3 DEF InWindow
  <2> QED
    BY <1>4, <2>1, FS_Subset, FS_CardinalityType
<1>7. PICK kept : kept = {s \in failed : s.at >= entry.start}
  OBVIOUS
<1>8. /\ entry.count \in Nat \ {0} /\ entry.start \in Nat /\ entry.start <= now
      /\ now < entry.start + f.window
      /\ kept = {} \/ (kept = window /\ entry.count = old.count + 1)
  <2>1. CASE old.count = 0 \/ now - old.start >= f.window
    <3>1. entry.start = now /\ entry.count = 1
      BY <1>1, <2>1 DEF Counted
    <3>2. \A s \in failed : s.at < now
      BY <1>4, <1>5, <2>1
    <3>3. kept = {}
      BY <1>4, <1>7, <3>1, <3>2
    <3> QED
      BY <1>4, <3>1, <3>3
  <2>2. CASE ~(old.count = 0 \/ now - old.start >= f.window)
    <3>1. entry = [old EXCEPT !.count = @ + 1]
      BY <1>1, <2>2 DEF Counted
    <3>2. entry.start = old.start /\ entry.count = old.count + 1
      <4>1. old \in Entry
        BY <1>1 DEF StormInv, StormsTyped
      <4> QED
        BY <3>1, <4>1 DEF Entry
    <3>3. kept = window
      BY <1>1, <1>2, <1>3, <1>7, <3>2 DEF InWindow, Failed
    <3> QED
      BY <1>4, <1>5, <2>2, <3>2, <3>3
  <2> QED
    BY <2>1, <2>2
<1>9. IsFiniteSet(kept) /\ Cardinality(kept) \in Nat /\ Cardinality(kept) + 1 <= entry.count
  <2>1. CASE kept = {}
    BY <1>8, <2>1, FS_EmptySet
  <2>2. CASE kept = window /\ entry.count = old.count + 1
    BY <1>4, <1>5, <1>6, <2>2
  <2> QED
    BY <1>8, <2>1, <2>2
<1>10. \A f1 \in StormFaults(builds[g]) : f1.window = f.window
  BY DEF OneWindow
<1>11. CASE storms' = storms
  <2>1. Failed(g, k)' = failed /\ InWindow(g, k)' = kept
    BY <1>2, <1>7, <1>11 DEF Failed, InWindow
  <2>2. \A s \in failed : s.at < entry.start + f.window
    BY <1>4, <1>8
  <2>3. Within(g, k)'
    <3>1. CASE kept = {}
      <4>1. Cardinality(kept) <= f.failFirst
        BY <3>1, FS_EmptySet
      <4> QED
        BY <2>1, <4>1 DEF Within
    <3>2. CASE kept = window
      BY <1>2, <1>3, <1>5, <2>1, <3>2 DEF Within
    <3> QED
      BY <1>8, <3>1, <3>2
  <2>4. entry.count # 0 /\ Cardinality(kept) <= entry.count
    BY <1>8, <1>9
  <2> QED
    BY <1>8, <1>10, <2>1, <2>2, <2>3, <2>4 DEF StormsCounted
<1>12. CASE storms' = storms \union {s0} /\ entry.count <= f.failFirst
  <2>1. Failed(g, k)' = failed \union {s0} /\ InWindow(g, k)' = kept \union {s0}
    BY <1>2, <1>7, <1>8, <1>12 DEF Failed, InWindow
  <2>2. \A s \in failed \union {s0} : s.at < entry.start + f.window
    BY <1>4, <1>8
  <2>3. /\ Cardinality(kept \union {s0}) \in Nat
        /\ Cardinality(kept \union {s0}) <= Cardinality(kept) + 1
    <3>1. Cardinality(kept \union {s0}) = IF s0 \in kept THEN Cardinality(kept) ELSE Cardinality(kept) + 1
      BY <1>9, FS_AddElement
    <3> QED
      BY <1>9, <3>1
  <2>4. entry.count # 0 /\ Cardinality(kept \union {s0}) <= entry.count
    BY <1>8, <1>9, <2>3
  <2>5. Within(g, k)'
    <3>1. Cardinality(kept \union {s0}) <= f.failFirst
      BY <1>8, <1>12, <2>3, <2>4
    <3> QED
      BY <2>1, <3>1 DEF Within
  <2> QED
    BY <1>8, <1>10, <2>1, <2>2, <2>4, <2>5 DEF StormsCounted
<1> QED
  BY <1>11, <1>12

LEMMA StormHitKeeps ==
  ASSUME IInv, StormInv, NEW r \in Requests, RetryStormHits(r)
  PROVE  StormInv'
<1>1. PICK f : f = NextFault(r)
  OBVIOUS
<1>2. PICK g : g = ctx[r].gen
  OBVIOUS
<1>3. PICK key : key = RetryKey(f, ctx[r].request)
  OBVIOUS
<1>4. PICK entry : entry = Counted(retry[g][key], f)
  OBVIOUS
<1>5. PICK s0 : s0 = [request |-> r, gen |-> g, key |-> key, at |-> now]
  OBVIOUS
<1>6. /\ g \in 1 .. Len(builds) /\ key \in Keys /\ f \in StormFaults(builds[g])
      /\ f.failFirst \in Nat \ {0} /\ f.window \in Nat \ {0}
  BY <1>1, <1>2, <1>3, PendingFault DEF RetryStormHits
<1>7. /\ UNCHANGED <<builds, now>> /\ retry' = [retry EXCEPT ![g][key] = entry]
      /\ \/ storms' = storms
         \/ storms' = storms \union {s0} /\ entry.count <= f.failFirst
  BY <1>1, <1>2, <1>3, <1>4, <1>5 DEF RetryStormHits
<1>8. (\A s \in Requests : Placed(ctx[s]))'
  <2>1. ctx[r].at = "fault" /\ Running(ctx[r])
    BY HitIsLoud DEF RetryStormHits, Hits, FaultPending
  <2>2. \/ Moves(r, [ShortCircuited(ctx[r], f) EXCEPT !.response = "fault"])
        \/ Moves(r, [ctx[r] EXCEPT !.nextFault = ctx[r].nextFault + 1])
    BY <1>1 DEF RetryStormHits, Moves, IInv, ContextInv
  <2>3. \E d : Moves(r, d) /\ Stays(ctx[r], d)
    <3>1. Stays(ctx[r], [ShortCircuited(ctx[r], f) EXCEPT !.response = "fault"])
      BY <2>1 DEF ShortCircuited, Running, Record, Stays, RunningAt
    <3>2. Stays(ctx[r], [ctx[r] EXCEPT !.nextFault = ctx[r].nextFault + 1])
      BY <2>1 DEF Running, Record, Stays, RunningAt
    <3> QED
      BY <2>2, <3>1, <3>2
  <2> QED
    BY <1>7, <2>3, StaysPlaced
<1>9. entry \in Entry /\ s0.gen = g /\ s0.key = key /\ s0.at = now /\ now \in Nat
  <2>1. retry[g][key] \in Entry /\ now \in Nat
    BY <1>6 DEF StormInv, StormsTyped
  <2> QED
    BY <1>4, <1>5, <2>1 DEF Counted, Entry
<1>10. /\ retry' \in Seq([Keys -> Entry]) /\ Len(retry') = Len(retry)
       /\ retry'[g][key] = entry
       /\ \A h \in 1 .. Len(builds), k \in Keys :
              h # g \/ k # key => retry'[h][k] = retry[h][k]
  <2>1. /\ retry \in Seq([Keys -> Entry]) /\ g \in 1 .. Len(retry)
        /\ Len(retry) = Len(builds)
    BY <1>6 DEF StormInv, StormsTyped
  <2>2. retry[g] \in [Keys -> Entry]
    BY <2>1
  <2>3. PICK row : row = [retry[g] EXCEPT ![key] = entry]
    OBVIOUS
  <2>4. /\ row \in [Keys -> Entry] /\ row[key] = entry
        /\ \A k \in Keys \ {key} : row[k] = retry[g][k]
    BY <1>6, <1>9, <2>2, <2>3
  <2>5. retry' = [retry EXCEPT ![g] = row]
    BY <1>7, <2>3
  <2>6. /\ retry' \in Seq([Keys -> Entry]) /\ Len(retry') = Len(retry)
        /\ retry'[g] = row /\ \A h \in 1 .. Len(retry) : h # g => retry'[h] = retry[h]
    BY <2>1, <2>4, <2>5
  <2> QED
    BY <2>1, <2>4, <2>6
<1>11. StormsTyped'
  <2>1. IsFiniteSet(storms')
    BY <1>7, FS_AddElement DEF StormInv, StormsTyped
  <2>2. \A s \in storms' : s.gen \in 1 .. Len(builds) /\ s.key \in Keys /\ s.at \in Nat /\ s.at <= now
    BY <1>6, <1>7, <1>9 DEF StormInv, StormsTyped
  <2> QED
    BY <1>7, <1>10, <2>1, <2>2 DEF StormInv, StormsTyped
<1>12. ASSUME NEW h \in 1 .. Len(builds), NEW k \in Keys, OneWindow(builds[h])
       PROVE  StormsCounted(h, k)'
  <2>1. CASE h = g /\ k = key
    BY <1>4, <1>6, <1>7, <1>9, <1>10, <1>12, <2>1, CountKeeps
  <2>2. CASE h # g \/ k # key
    <3>1. retry'[h][k] = retry[h][k]
      BY <1>10, <2>2
    <3>2. Failed(h, k)' = Failed(h, k)
      BY <1>7, <1>9, <2>2 DEF Failed
    <3>3. InWindow(h, k)' = InWindow(h, k)
      BY <1>7, <1>9, <2>2, <3>1 DEF InWindow
    <3>4. StormsCounted(h, k)
      BY <1>12 DEF StormInv
    <3> QED
      BY <1>7, <3>1, <3>2, <3>3, <3>4 DEF StormsCounted, Within
  <2> QED
    BY <2>1, <2>2
<1> QED
  BY <1>7, <1>8, <1>11, <1>12 DEF StormInv

(* A pipeline that was just built has no entry and no failure.             *)
LEMMA RebuildKeepsStorms ==
  ASSUME StormInv, NEW c \in Configs, Rebuild(c)
  PROVE  StormInv'
<1>1. PICK n \in Nat : n = Len(builds)
  BY DEF StormInv, StormsTyped
<1>2. /\ builds \in Seq(Configs) /\ retry \in Seq([Keys -> Entry]) /\ Len(retry) = n /\ now \in Nat
      /\ NewCounter \in [Keys -> Entry] /\ \A k \in Keys : NewCounter[k] = NoEntry
  BY <1>1 DEF StormInv, StormsTyped, NewCounter, NoEntry, Entry
<1>3. /\ builds' = Append(builds, c) /\ retry' = Append(retry, NewCounter)
      /\ UNCHANGED <<storms, now, ctx>>
  BY DEF Rebuild, historyVars
<1>4. /\ builds' \in Seq(Configs) /\ retry' \in Seq([Keys -> Entry])
      /\ Len(builds') = n + 1 /\ Len(retry') = n + 1
      /\ \A g \in 1 .. n : builds'[g] = builds[g] /\ retry'[g] = retry[g]
      /\ retry'[n + 1] = NewCounter
  BY <1>1, <1>2, <1>3
<1>5. 1 .. Len(builds') = (1 .. n) \union {n + 1}
  BY <1>4
<1>6. StormsTyped'
  BY <1>1, <1>3, <1>4 DEF StormInv, StormsTyped
<1>7. (\A r \in Requests : Placed(ctx[r]))'
  BY <1>1, <1>3, <1>4 DEF StormInv, Placed
<1>8. ASSUME NEW g \in 1 .. n, NEW k \in Keys, OneWindow(builds'[g])
      PROVE  StormsCounted(g, k)'
  <2>1. builds'[g] = builds[g] /\ retry'[g] = retry[g]
    BY <1>4
  <2>2. StormsCounted(g, k)
    BY <1>1, <1>8, <2>1 DEF StormInv
  <2>3. InWindow(g, k)' = InWindow(g, k) /\ Failed(g, k)' = Failed(g, k)
    BY <1>3, <2>1 DEF InWindow, Failed
  <2> QED
    BY <1>3, <2>1, <2>2, <2>3 DEF StormsCounted, Within
<1>9. ASSUME NEW k \in Keys PROVE StormsCounted(n + 1, k)'
  <2>1. \A s \in storms : s.gen # n + 1
    BY <1>1 DEF StormInv, StormsTyped
  <2>2. Failed(n + 1, k)' = {} /\ InWindow(n + 1, k)' = {}
    BY <1>3, <2>1 DEF Failed, InWindow
  <2>3. retry'[n + 1][k].count = 0 /\ retry'[n + 1][k].start = 0
    BY <1>2, <1>4 DEF NoEntry
  <2>4. Cardinality(InWindow(n + 1, k)') = 0
    BY <2>2, FS_EmptySet
  <2>5. now' \in Nat
    BY <1>2, <1>3
  <2> QED
    BY <2>2, <2>3, <2>4, <2>5 DEF StormsCounted, Within
<1>10. (\A g \in 1 .. Len(builds), k \in Keys : OneWindow(builds[g]) => StormsCounted(g, k))'
  <2> SUFFICES ASSUME NEW g \in 1 .. Len(builds'), NEW k \in Keys, OneWindow(builds'[g])
               PROVE  StormsCounted(g, k)'
    OBVIOUS
  <2>1. g \in 1 .. n \/ g = n + 1
    BY <1>5
  <2> QED
    BY <1>8, <1>9, <2>1
<1> QED
  BY <1>6, <1>7, <1>10 DEF StormInv

LEMMA StormInit == Init => StormInv
<1> SUFFICES ASSUME Init PROVE StormInv
  OBVIOUS
<1>1. PICK c \in Configs : builds = <<c>>
  BY DEF Init
<1>2. /\ retry = <<NewCounter>> /\ storms = {} /\ now = 0
      /\ NewCounter \in [Keys -> Entry] /\ \A k \in Keys : NewCounter[k] = NoEntry
  BY DEF Init, NewCounter, NoEntry, Entry
<1>3. StormsTyped
  BY <1>1, <1>2, FS_EmptySet DEF StormsTyped
<1>4. \A r \in Requests : Placed(ctx[r])
  BY DEF Init, NoRequest, Placed, RunningAt
<1>5. ASSUME NEW g \in 1 .. Len(builds), NEW k \in Keys PROVE StormsCounted(g, k)
  <2>1. g = 1 /\ retry[g][k].count = 0 /\ retry[g][k].start = 0
    BY <1>1, <1>2 DEF NoEntry
  <2>2. InWindow(g, k) = {} /\ Failed(g, k) = {}
    BY <1>2 DEF InWindow, Failed
  <2>3. Cardinality(InWindow(g, k)) = 0
    BY <2>2, FS_EmptySet
  <2> QED
    BY <1>2, <2>1, <2>2, <2>3 DEF StormsCounted, Within
<1> QED
  BY <1>3, <1>4, <1>5 DEF StormInv

(* The steps of a request that count nothing.                              *)
LEMMA MoveKeepsStorms ==
  ASSUME IInv, StormInv, NEW r \in Requests, NEW d, Moves(r, d),
         UNCHANGED <<builds, retry, now, storms>>,
         d.at \notin RunningAt \/ Stays(ctx[r], d) \/ Placed(d)
  PROVE  StormInv'
BY StaysPlaced, CountersKeep

LEMMA ArriveKeepsStorms ==
  ASSUME IInv, StormInv, NEW r \in Requests, NEW q \in Arrivals, Arrive(r, q)
  PROVE  StormInv'
<1>1. PICK new : new = [at |-> "switch", request |-> q, gen |-> Current, matched |-> NoRule,
                        simulation |-> Unset, forward |-> FALSE, profile |-> NoProfile,
                        nextFault |-> 1, terminal |-> FALSE, connFault |-> Unset,
                        fault |-> Unset, response |-> Unset]
  OBVIOUS
<1>2. PICK m : m = Matched(new)
  OBVIOUS
<1>3. /\ m.gen = Len(builds) /\ m.request = q
      /\ Record(m) /\ {"gen", "request", "profile", "simulation", "forward"} \subseteq DOMAIN m
  BY <1>1, <1>2 DEF Matched, Record, Current
<1>4. Len(builds) \in 1 .. Len(builds)
  BY DEF StormInv, StormsTyped
<1>5. UNCHANGED <<builds, retry, now, storms>>
  BY DEF Arrive
<1>6. PICK d \in IF m.matched = NoRule THEN {Ended(m, "error")} ELSE Routed(m) : Moves(r, d)
  BY <1>1, <1>2 DEF Arrive, Moves
<1>7. CASE m.matched = NoRule
  <2>1. d.at = "done"
    BY <1>6, <1>7 DEF Ended
  <2> QED
    BY <1>5, <1>6, <2>1, MoveKeepsStorms DEF RunningAt
<1>8. CASE m.matched # NoRule
  <2>1. PICK b : d = [m EXCEPT !.profile = b.profile, !.simulation = b.simulation,
                               !.forward = b.action = "forward"]
    BY <1>6, <1>8 DEF Routed
  <2>2. d.gen = Len(builds) /\ d.request = q
    BY <1>3, <2>1 DEF Record
  <2> QED
    BY <1>4, <1>5, <1>6, <2>2, MoveKeepsStorms DEF Placed
<1> QED
  BY <1>7, <1>8

LEMMA FinishKeepsStorms ==
  ASSUME IInv, StormInv, NEW r \in Requests, Finish(r)
  PROVE  StormInv'
<1>1. PICK d \in Then(Then(Then(Simulate(ctx[r]), Script), Forward), Answer) : Moves(r, d)
  BY DEF Finish, Moves
<1>2. Running(ctx[r]) /\ OneAnswer(ctx[r]) /\ ctx[r].at = "rest"
  BY DEF Finish, IInv, ContextInv, Context, NoRequest, RightAnswer
<1>3. d.at = "done"
  BY <1>1, <1>2, FinishAnswers DEF RightAnswer
<1> QED
  BY <1>1, <1>3, MoveKeepsStorms DEF Finish, RunningAt

LEMMA FaultStageKeepsStorms ==
  ASSUME IInv, StormInv, NEW r \in Requests,
         \/ CheckSwitch(r) \/ ReadOverlay(r) \/ FaultsDone(r) \/ FaultMisses(r)
         \/ ModifierHits(r) \/ ErrorHits(r) \/ ConnFaultHits(r)
  PROVE  StormInv'
<1>1. PICK c : c = ctx[r]
  OBVIOUS
<1>2. c.at \in RunningAt /\ Running(c)
  BY <1>1 DEF CheckSwitch, ReadOverlay, FaultsDone, FaultMisses, ModifierHits, ErrorHits,
         ConnFaultHits, Hits, FaultPending, IInv, ContextInv, Context, NoRequest, RightAnswer, RunningAt
<1>3. UNCHANGED <<builds, retry, now, storms>>
  BY DEF CheckSwitch, ReadOverlay, FaultsDone, FaultMisses, ModifierHits, ErrorHits,
         ConnFaultHits, Local, historyVars
<1>4. ASSUME NEW d, Moves(r, d), d.gen = c.gen, d.request = c.request PROVE StormInv'
  BY <1>1, <1>2, <1>3, <1>4, MoveKeepsStorms DEF Stays
<1>5. ctx = [s \in Requests |-> ctx[s]]
  BY DEF IInv, ContextInv
<1>6. CASE CheckSwitch(r)
  <2> DEFINE d == [c EXCEPT !.at = IF halted THEN "rest" ELSE "overlay"]
  <2>1. Moves(r, d)
    BY <1>1, <1>5, <1>6 DEF CheckSwitch, Moves
  <2>2. d.gen = c.gen /\ d.request = c.request
    BY <1>2 DEF Running, Record
  <2> QED
    BY <1>4, <2>1, <2>2
<1>7. CASE ReadOverlay(r)
  <2> DEFINE d == [c EXCEPT !.at = "fault", !.profile = Effective(overlay, Rule(c).id, c.profile)]
  <2>1. Moves(r, d)
    BY <1>1, <1>5, <1>7 DEF ReadOverlay, Moves
  <2>2. d.gen = c.gen /\ d.request = c.request
    BY <1>2 DEF Running, Record
  <2> QED
    BY <1>4, <2>1, <2>2
<1>8. CASE FaultsDone(r)
  <2> DEFINE d == [c EXCEPT !.at = "rest"]
  <2>1. Moves(r, d)
    BY <1>1, <1>5, <1>8 DEF FaultsDone, Moves
  <2>2. d.gen = c.gen /\ d.request = c.request
    BY <1>2 DEF Running, Record
  <2> QED
    BY <1>4, <2>1, <2>2
<1>9. CASE FaultMisses(r)
  <2> DEFINE d == [c EXCEPT !.nextFault = c.nextFault + 1]
  <2>1. Moves(r, d)
    BY <1>1, <1>5, <1>9 DEF FaultMisses, Moves
  <2>2. d.gen = c.gen /\ d.request = c.request
    BY <1>2 DEF Running, Record
  <2> QED
    BY <1>4, <2>1, <2>2
<1>10. CASE ModifierHits(r)
  <2> DEFINE d == [c EXCEPT !.fault = NextFault(r).type, !.nextFault = c.nextFault + 1]
  <2>1. Moves(r, d)
    BY <1>1, <1>5, <1>10 DEF ModifierHits, Moves
  <2>2. d.gen = c.gen /\ d.request = c.request
    BY <1>2 DEF Running, Record
  <2> QED
    BY <1>4, <2>1, <2>2
<1>11. CASE ErrorHits(r)
  <2> DEFINE d == [ShortCircuited(c, NextFault(r)) EXCEPT !.response = "fault"]
  <2>1. Moves(r, d)
    BY <1>1, <1>11 DEF ErrorHits, Moves
  <2>2. d.gen = c.gen /\ d.request = c.request
    BY <1>2 DEF ShortCircuited, Running, Record
  <2> QED
    BY <1>4, <2>1, <2>2
<1>12. CASE ConnFaultHits(r)
  <2> DEFINE d == [ShortCircuited(c, NextFault(r)) EXCEPT !.connFault = NextFault(r).type]
  <2>1. Moves(r, d)
    BY <1>1, <1>12 DEF ConnFaultHits, Moves
  <2>2. d.gen = c.gen /\ d.request = c.request
    BY <1>2 DEF ShortCircuited, Running, Record
  <2> QED
    BY <1>4, <2>1, <2>2
<1> QED
  BY <1>6, <1>7, <1>8, <1>9, <1>10, <1>11, <1>12

LEMMA StormStep == IInv /\ StormInv /\ [Next]_vars => StormInv'
<1> SUFFICES ASSUME IInv, StormInv, [Next]_vars PROVE StormInv'
  OBVIOUS
<1>1. CASE UNCHANGED vars \/ Halt \/ Resume \/ Tick
          \/ \E o \in Overlays \union {NoOverlay} : ChangeOverlay(o)
  <2>1. UNCHANGED <<builds, retry, storms, ctx>> /\ (now' = now \/ now' = now + 1)
    BY <1>1 DEF vars, historyVars, chaosVars, Halt, Resume, Tick, ChangeOverlay
  <2>2. (\A s \in Requests : Placed(ctx[s]))'
    BY <2>1 DEF StormInv, Placed
  <2> QED
    BY <2>1, <2>2, CountersKeep
<1> QED
  BY <1>1, RebuildKeepsStorms, ArriveKeepsStorms, FinishKeepsStorms, FaultStageKeepsStorms,
     StormHitKeeps DEF Next

(* In the current window of a key no more requests fail than fail_first    *)
(* (shouldFail counts and compares under one lock), for any number of      *)
(* concurrent requests and of pipelines, where the faults that count under *)
(* the key agree on the window.                                            *)
THEOREM StormsCorrect == Spec => []StormIsBounded
<1>1. StormInv => StormIsBounded
  <2> SUFFICES ASSUME StormInv, NEW s \in storms, OneWindow(builds[s.gen])
               PROVE  \E f \in StormFaults(builds[s.gen]) :
                          Cardinality(InWindow(s.gen, s.key)) <= f.failFirst
    BY DEF StormIsBounded
  <2>1. Within(s.gen, s.key) /\ s \in Failed(s.gen, s.key)
    BY DEF StormInv, StormsTyped, StormsCounted, Failed
  <2> QED
    BY <2>1 DEF Within
<1> QED
  BY <1>1, InvInit, InvStep, StormInit, StormStep, PTL DEF Spec

-----------------------------------------------------------------------------
(* What SelectInSeq takes of the places of hits is the least of them.      *)
LEMMA MinIsLeast ==
  ASSUME NEW T \in SUBSET Nat, T # {}
  PROVE  Min(T) \in T /\ \A m \in T : Min(T) <= m
BY NatHasLeast DEF Min

-----------------------------------------------------------------------------
(* The order of the rules.  What is compared of a rule are numbers.        *)
LEMMA SpecTupleType ==
  ASSUME NEW rule \in Rules
  PROVE  SpecTuple(rule) \in Nat \X Nat \X Nat \X Nat
<1>1. ASSUME NEW pairs \in Pairs PROVE Cardinality(pairs) \in Nat
  BY <1>1, FS_CardinalityType DEF Pairs
<1>2. UrlScore(rule.path) \in Nat
  <2> DEFINE literals == {i \in DOMAIN rule.path : rule.path[i] # Wildcard}
  <2>1. rule.path \in Seq(STRING)
    BY DEF Rules
  <2>2. IsFiniteSet(DOMAIN rule.path)
    BY <2>1, FS_Interval
  <2>3. Cardinality(literals) \in Nat
    BY <2>2, FS_Subset, FS_CardinalityType
  <2> QED
    BY <2>3 DEF UrlScore
<1>3. rule.headers \in Pairs /\ rule.body \in Pairs /\ rule.query \in Pairs
  BY DEF Rules
<1> QED
  BY <1>1, <1>2, <1>3 DEF SpecTuple

(* The comparison of two rules, written out.                               *)
LEMMA MoreSpecificIsLexical ==
  ASSUME NEW a, NEW b
  PROVE  TupleMoreSpecific(a, b) <=>
            \/ a[1] > b[1]
            \/ a[1] = b[1] /\ a[2] > b[2]
            \/ a[1] = b[1] /\ a[2] = b[2] /\ a[3] > b[3]
            \/ a[1] = b[1] /\ a[2] = b[2] /\ a[3] = b[3] /\ a[4] > b[4]
<1> DEFINE Decides(k) == a[k] > b[k] /\ \A l \in 1 .. k - 1 : a[l] = b[l]
<1>1. TupleMoreSpecific(a, b) <=> Decides(1) \/ Decides(2) \/ Decides(3) \/ Decides(4)
  BY DEF TupleMoreSpecific
<1>2. /\ 1 .. 1 - 1 = {} /\ 1 .. 2 - 1 = {1} /\ 1 .. 3 - 1 = {1, 2} /\ 1 .. 4 - 1 = {1, 2, 3}
  OBVIOUS
<1> QED
  BY <1>1, <1>2

(* The comparison is a strict total order.                                 *)
LEMMA TuplesAreOrdered ==
  ASSUME NEW a \in Nat \X Nat \X Nat \X Nat, NEW b \in Nat \X Nat \X Nat \X Nat,
         NEW c \in Nat \X Nat \X Nat \X Nat
  PROVE  /\ ~TupleMoreSpecific(a, a)
         /\ a # b => TupleMoreSpecific(a, b) \/ TupleMoreSpecific(b, a)
         /\ TupleMoreSpecific(a, b) /\ TupleMoreSpecific(b, c) => TupleMoreSpecific(a, c)
<1>1. /\ \A k \in 1 .. 4 : a[k] \in Nat /\ b[k] \in Nat /\ c[k] \in Nat
      /\ a = <<a[1], a[2], a[3], a[4]>> /\ b = <<b[1], b[2], b[3], b[4]>>
  OBVIOUS
<1>2. ~TupleMoreSpecific(a, a)
  BY <1>1, MoreSpecificIsLexical
<1>3. a # b => TupleMoreSpecific(a, b) \/ TupleMoreSpecific(b, a)
  <2> SUFFICES ASSUME a # b PROVE TupleMoreSpecific(a, b) \/ TupleMoreSpecific(b, a)
    OBVIOUS
  <2>1. a[1] # b[1] \/ a[2] # b[2] \/ a[3] # b[3] \/ a[4] # b[4]
    BY <1>1
  <2> QED
    BY <1>1, <2>1, MoreSpecificIsLexical
<1>4. TupleMoreSpecific(a, b) /\ TupleMoreSpecific(b, c) => TupleMoreSpecific(a, c)
  BY <1>1, MoreSpecificIsLexical
<1> QED
  BY <1>2, <1>3, <1>4

(* sortBySpecificity orders the rules strictly and totally.                *)
LEMMA BeforeIsTotal ==
  ASSUME NEW rules \in Seq(Rules),
         NEW i \in DOMAIN rules, NEW j \in DOMAIN rules, NEW k \in DOMAIN rules
  PROVE  /\ ~Before(rules, i, i)
         /\ i # j => Before(rules, i, j) \/ Before(rules, j, i)
         /\ Before(rules, i, j) /\ Before(rules, j, k) => Before(rules, i, k)
<1>1. PICK a, b, c : a = SpecTuple(rules[i]) /\ b = SpecTuple(rules[j]) /\ c = SpecTuple(rules[k])
  OBVIOUS
<1>2. {a, b, c} \subseteq Nat \X Nat \X Nat \X Nat
  BY <1>1, SpecTupleType
<1>3. i \in Nat /\ j \in Nat /\ k \in Nat
  OBVIOUS
<1>4. /\ ~TupleMoreSpecific(a, a)
      /\ a # b => TupleMoreSpecific(a, b) \/ TupleMoreSpecific(b, a)
      /\ TupleMoreSpecific(a, b) /\ TupleMoreSpecific(b, c) => TupleMoreSpecific(a, c)
  BY <1>2, TuplesAreOrdered
<1> QED
  BY <1>1, <1>3, <1>4 DEF Before

(* So a rule's place is the number of rules before it.                     *)
LEMMA RulesAreSorted ==
  ASSUME NEW rules \in Seq(Rules)
  PROVE  LET order == BySpecificity(rules)
         IN  /\ order \in Seq(DOMAIN rules) /\ Len(order) = Len(rules)
             /\ \A i \in DOMAIN rules : \E k \in DOMAIN order : order[k] = i
             /\ \A k, l \in DOMAIN order : k < l => Before(rules, order[k], order[l])
<1> DEFINE order == BySpecificity(rules)
           n == Len(rules)
           before == {p \in (1 .. n) \X (1 .. n) : Before(rules, p[1], p[2])}
<1>1. n \in Nat /\ DOMAIN rules = 1 .. n
  OBVIOUS
<1> HIDE DEF n
<1>2. \A i, j \in 1 .. n : <<i, j>> \in before <=> Before(rules, i, j)
  OBVIOUS
<1> HIDE DEF before
<1>3. Orders(before, n)
  BY <1>1, <1>2, BeforeIsTotal DEF Orders
<1>4. \A i \in 1 .. n : Prior(before, n, i) = {j \in 1 .. n : Before(rules, j, i)}
  BY <1>2 DEF Prior
<1>5. order = [k \in 1 .. n |-> CHOOSE i \in 1 .. n : Cardinality(Prior(before, n, i)) = k - 1]
  <2>1. order = [k \in 1 .. n |-> CHOOSE i \in 1 .. n :
                     Cardinality({j \in 1 .. n : Before(rules, j, i)}) = k - 1]
    BY <1>1 DEF BySpecificity
  <2>2. \A k \in 1 .. n, i \in 1 .. n :
            Cardinality({j \in 1 .. n : Before(rules, j, i)}) = k - 1
                <=> Cardinality(Prior(before, n, i)) = k - 1
    BY <1>4
  <2> QED
    BY <2>1, <2>2
<1> HIDE DEF order
<1>6. Sorts(order, before, n)
  BY <1>1, <1>3, <1>5, RanksSort
<1>7. order \in Seq(1 .. n) /\ Len(order) = n /\ DOMAIN order = 1 .. n
  BY <1>1, <1>6 DEF Sorts
<1>8. \A k, l \in 1 .. n : k < l => Before(rules, order[k], order[l])
  BY <1>2, <1>6 DEF Sorts
<1> QED
  BY <1>1, <1>6, <1>7, <1>8 DEF Sorts, order, n

(* The match stage finds a rule if one matches, and no other that matches  *)
(* comes before it.                                                        *)
LEMMA FirstMatchIsFirst ==
  ASSUME NEW rules \in Seq(Rules), NEW q
  PROVE  LET matching == {i \in DOMAIN rules : MatchRule(rules[i], q)}
             best == FirstMatch(rules, q)
         IN  IF matching = {} THEN best = NoRule
             ELSE best \in matching /\ \A i \in matching \ {best} : Before(rules, best, i)
<1> DEFINE matching == {i \in DOMAIN rules : MatchRule(rules[i], q)}
           order == BySpecificity(rules)
           hits == {k \in 1 .. Len(order) : MatchRule(rules[order[k]], q)}
<1>1. /\ order \in Seq(DOMAIN rules)
      /\ \A i \in DOMAIN rules : \E k \in DOMAIN order : order[k] = i
      /\ \A k, l \in DOMAIN order : k < l => Before(rules, order[k], order[l])
  BY RulesAreSorted
<1>2. FirstMatch(rules, q) = IF (IF hits # {} THEN Min(hits) ELSE 0) = 0 THEN NoRule
                             ELSE order[IF hits # {} THEN Min(hits) ELSE 0]
  BY DEF FirstMatch, SelectInSeq
<1>3. hits \in SUBSET Nat /\ 0 \notin hits /\ DOMAIN order = 1 .. Len(order)
  BY <1>1
<1> HIDE DEF order
<1>4. CASE hits = {}
  BY <1>1, <1>2, <1>3, <1>4
<1>5. CASE hits # {}
  <2> DEFINE first == Min(hits)
  <2>1. first \in hits /\ \A k \in hits : first <= k
    BY <1>3, <1>5, MinIsLeast
  <2> HIDE DEF first
  <2>2. FirstMatch(rules, q) = order[first]
    BY <1>2, <1>3, <1>5, <2>1 DEF first
  <2>3. order[first] \in matching
    BY <1>1, <1>3, <2>1
  <2>4. ASSUME NEW i \in matching \ {order[first]} PROVE Before(rules, order[first], i)
    <3>1. PICK k \in DOMAIN order : order[k] = i
      BY <1>1
    <3>2. k \in hits /\ k # first
      BY <1>3, <3>1
    <3>3. first < k /\ first \in DOMAIN order
      BY <1>3, <2>1, <3>2
    <3> QED
      BY <1>1, <3>1, <3>3
  <2> QED
    BY <2>2, <2>3, <2>4
<1> QED
  BY <1>4, <1>5

-----------------------------------------------------------------------------
(* The weights of the buckets.                                             *)
Weights(buckets) == [i \in 1 .. Len(buckets) |-> buckets[i].weight]

(* Cumulative sums them up: the loop of selectBucket ends.                 *)
LEMMA CumulativeSumsUp ==
  ASSUME NEW buckets \in Seq(Buckets)
  PROVE  /\ SumsUp(Cumulative(buckets), Weights(buckets), Len(buckets))
         /\ \A i \in 1 .. Len(buckets) :
                Weights(buckets)[i] = buckets[i].weight /\ buckets[i].weight \in Nat \ {0}
<1> DEFINE n == Len(buckets)
           w == Weights(buckets)
           IsSum(s) == s = [i \in 0 .. n |-> IF i = 0 THEN 0 ELSE s[i - 1] + buckets[i].weight]
<1>1. n \in Nat
  OBVIOUS
<1>2. \A i \in 1 .. n : w[i] = buckets[i].weight /\ buckets[i].weight \in Nat \ {0}
  <2> SUFFICES ASSUME NEW i \in 1 .. n PROVE w[i] = buckets[i].weight /\ buckets[i].weight \in Nat \ {0}
    OBVIOUS
  <2>1. buckets[i] \in Buckets
    OBVIOUS
  <2> QED
    BY <2>1 DEF Buckets, Weights
<1>3. Cumulative(buckets) = CHOOSE s : IsSum(s)
  BY DEF Cumulative
<1> DEFINE c == Cumulative(buckets)
<1> HIDE DEF n, w, c
<1>4. PICK sum : SumsUp(sum, w, n)
  BY <1>1, <1>2, SumExists
<1>5. /\ DOMAIN sum = 0 .. n /\ sum = [i \in 0 .. n |-> sum[i]]
      /\ \A i \in 0 .. n : sum[i] \in Nat
      /\ sum[0] = 0 /\ \A i \in 1 .. n : sum[i] = sum[i - 1] + buckets[i].weight
  BY <1>2, <1>4 DEF SumsUp
<1>6. IsSum(sum)
  <2>1. \A i \in 0 .. n : sum[i] = IF i = 0 THEN 0 ELSE sum[i - 1] + buckets[i].weight
    <3> SUFFICES ASSUME NEW i \in 0 .. n
                 PROVE sum[i] = IF i = 0 THEN 0 ELSE sum[i - 1] + buckets[i].weight
      OBVIOUS
    <3>1. i = 0 \/ i \in 1 .. n
      BY <1>1
    <3> QED
      BY <1>5, <3>1
  <2> QED
    BY <1>5, <2>1
<1>7. IsSum(c)
  <2> HIDE DEF IsSum
  <2> QED
    BY <1>3, <1>6 DEF c
<1>8. /\ c = [i \in 0 .. n |-> c[i]] /\ c[0] = 0
      /\ \A i \in 1 .. n : c[i] = c[i - 1] + buckets[i].weight
  <2>1. DOMAIN c = 0 .. n /\ c = [i \in 0 .. n |-> c[i]]
    BY <1>7
  <2>2. \A i \in 0 .. n : c[i] = IF i = 0 THEN 0 ELSE c[i - 1] + buckets[i].weight
    BY <1>7
  <2>3. 0 \in 0 .. n /\ \A i \in 1 .. n : i \in 0 .. n /\ i # 0
    BY <1>1
  <2> QED
    BY <2>1, <2>2, <2>3
<1>9. \A i \in 0 .. n : c[i] = sum[i]
  <2> DEFINE bad == {i \in 0 .. n : c[i] # sum[i]}
  <2>1. ASSUME bad # {} PROVE FALSE
    <3>1. bad \in SUBSET Nat /\ (\A i \in bad : i \in 0 .. n /\ c[i] # sum[i])
      OBVIOUS
    <3>2. \A i \in 0 .. n : i \notin bad => c[i] = sum[i]
      OBVIOUS
    <3> HIDE DEF bad
    <3>3. PICK m \in bad : \A k \in bad : m <= k
      BY <2>1, <3>1, NatHasLeast
    <3>4. m \in 0 .. n /\ c[m] # sum[m]
      BY <3>1, <3>3
    <3>5. m # 0
      BY <1>5, <1>8, <3>4
    <3>6. PICK l : l = m - 1
      OBVIOUS
    <3>7. l \in 0 .. n /\ m \in 1 .. n /\ ~(m <= l)
      BY <1>1, <3>4, <3>5, <3>6
    <3>8. c[l] = sum[l]
      BY <3>2, <3>3, <3>7
    <3> QED
      BY <1>5, <1>8, <3>4, <3>6, <3>7, <3>8
  <2> QED
    BY <2>1
<1>10. SumsUp(c, w, n)
  BY <1>2, <1>5, <1>8, <1>9 DEF SumsUp
<1> QED
  BY <1>2, <1>10 DEF c, n, w

(* A draw chooses the bucket whose share it falls into.                    *)
LEMMA DrawsFall ==
  ASSUME NEW buckets \in Seq(Buckets), NEW pick \in Nat, pick < TotalWeight(buckets)
  PROVE  LET sum == Cumulative(buckets)
         IN  /\ SelectBucket(buckets, pick) \in DOMAIN buckets
             /\ \A b \in DOMAIN buckets :
                    SelectBucket(buckets, pick) = b <=> sum[b - 1] <= pick /\ pick < sum[b]
<1> DEFINE n == Len(buckets)
           c == Cumulative(buckets)
           w == Weights(buckets)
           over == {i \in 1 .. n : pick < c[i]}
<1>1. n \in Nat /\ DOMAIN buckets = 1 .. n
  OBVIOUS
<1>2. SumsUp(c, w, n) /\ \A i \in 1 .. n : w[i] \in Nat
  BY CumulativeSumsUp
<1>3. pick < c[n]
  BY DEF TotalWeight
<1>4. SelectBucket(buckets, pick) = IF over # {} THEN Min(over) ELSE 0
  <2> DEFINE sums == [i \in 1 .. n |-> c[i]]
             hits == {i \in 1 .. Len(sums) : pick < sums[i]}
  <2>1. SelectBucket(buckets, pick) = IF hits # {} THEN Min(hits) ELSE 0
    BY <1>1 DEF SelectBucket, SelectInSeq
  <2>2. Len(sums) = n
    BY <1>1
  <2>3. hits = over
    BY <2>2
  <2> QED
    BY <2>1, <2>3
<1> HIDE DEF n, c, w
<1>5. /\ c[0] = 0 /\ \A i \in 0 .. n : c[i] \in Nat
      /\ \A i \in 0 .. n, j \in 0 .. n : i <= j => c[i] <= c[j]
  BY <1>1, <1>2, SumsGrow DEF SumsUp
<1>6. n \in over
  <2>1. n # 0
    BY <1>3, <1>5
  <2> QED
    BY <1>1, <1>3, <2>1
<1>7. over \in SUBSET Nat
  OBVIOUS
<1>8. Min(over) \in over /\ \A k \in over : Min(over) <= k
  BY <1>6, <1>7, MinIsLeast
<1> DEFINE first == SelectBucket(buckets, pick)
<1>9. first \in over /\ \A k \in over : first <= k
  BY <1>4, <1>6, <1>8
<1> HIDE DEF first
<1>10. \A i \in 1 .. n : i \in over <=> pick < c[i]
  OBVIOUS
<1>11. first \in 1 .. n
  BY <1>9
<1> HIDE DEF over
<1>12. ASSUME NEW b \in 1 .. n, first = b PROVE c[b - 1] <= pick /\ pick < c[b]
  <2>1. pick < c[b]
    BY <1>9, <1>10, <1>12
  <2>2. c[b - 1] <= pick
    <3>1. PICK a : a = b - 1
      OBVIOUS
    <3>2. a \in 0 .. n /\ ~(b <= a) /\ (a = 0 \/ a \in 1 .. n)
      BY <1>1, <3>1
    <3>3. a \notin over
      BY <1>9, <1>12, <3>2
    <3>4. a = 0 \/ ~(pick < c[a])
      BY <1>10, <3>2, <3>3
    <3> QED
      BY <1>5, <3>1, <3>2, <3>4
  <2> QED
    BY <2>1, <2>2
<1>13. ASSUME NEW b \in 1 .. n, c[b - 1] <= pick, pick < c[b] PROVE first = b
  <2>1. first <= b
    BY <1>9, <1>10, <1>13
  <2>2. ASSUME first < b PROVE FALSE
    <3>1. PICK a : a = b - 1
      OBVIOUS
    <3>2. a \in 0 .. n /\ first \in 0 .. n /\ first <= a
      BY <1>1, <1>11, <2>2, <3>1
    <3>3. c[first] <= c[a]
      BY <1>5, <3>2
    <3>4. pick < c[first]
      BY <1>9, <1>10, <1>11
    <3>5. c[a] <= pick /\ c[a] \in Nat /\ c[first] \in Nat
      BY <1>5, <1>13, <3>1, <3>2
    <3> QED
      BY <3>3, <3>4, <3>5
  <2> QED
    BY <1>11, <2>1, <2>2
<1> QED
  BY <1>1, <1>11, <1>12, <1>13 DEF c, first

(* The draws of a bucket are the numbers of its share.                     *)
LEMMA SharesHold ==
  ASSUME NEW buckets \in Seq(Buckets), TotalWeight(buckets) = FullWeight
  PROVE  SharesMatch(buckets)
<1> DEFINE n == Len(buckets)
           c == Cumulative(buckets)
           w == Weights(buckets)
           chosen == [pick \in 0 .. FullWeight - 1 |-> SelectBucket(buckets, pick)]
<1>1. n \in Nat /\ DOMAIN buckets = 1 .. n /\ FullWeight \in Nat /\ c[n] = FullWeight
  BY PipelineAssumption DEF TotalWeight
<1>2. /\ SumsUp(c, w, n)
      /\ \A i \in 1 .. n : w[i] = buckets[i].weight /\ buckets[i].weight \in Nat
  BY CumulativeSumsUp
<1>3. \A pick \in 0 .. FullWeight - 1 : \A b \in 1 .. n :
          SelectBucket(buckets, pick) = b <=> c[b - 1] <= pick /\ pick < c[b]
  <2> SUFFICES ASSUME NEW pick \in 0 .. FullWeight - 1, NEW b \in 1 .. n
               PROVE  SelectBucket(buckets, pick) = b <=> c[b - 1] <= pick /\ pick < c[b]
    OBVIOUS
  <2>1. pick \in Nat /\ pick < TotalWeight(buckets)
    BY <1>1
  <2> QED
    BY <1>1, <2>1, DrawsFall
<1>4. ASSUME NEW b \in 1 .. n
      PROVE  Cardinality({pick \in DOMAIN chosen : chosen[pick] = b}) = buckets[b].weight
  <2> DEFINE drawn == {pick \in DOMAIN chosen : chosen[pick] = b}
  <2>1. drawn = {pick \in 0 .. FullWeight - 1 : c[b - 1] <= pick /\ pick < c[b]}
    BY <1>3
  <2> HIDE DEF n, c, w, drawn
  <2>2. PICK lo, hi : lo = c[b - 1] /\ hi = c[b]
    OBVIOUS
  <2>3. b \in 0 .. n /\ b - 1 \in 0 .. n /\ n \in 0 .. n /\ b <= n
    BY <1>1
  <2>4. /\ lo \in Nat /\ hi \in Nat /\ hi <= FullWeight
        /\ hi = lo + buckets[b].weight /\ buckets[b].weight \in Nat
    <3>1. c[b] <= c[n]
      BY <1>1, <1>2, <2>3, SumsGrow
    <3>2. lo \in Nat /\ hi \in Nat
      BY <2>2, <2>3, <1>2 DEF SumsUp
    <3>3. c[b] = c[b - 1] + w[b]
      BY <1>2 DEF SumsUp
    <3> QED
      BY <1>1, <1>2, <2>2, <3>1, <3>2, <3>3
  <2>5. drawn = lo .. hi - 1
    BY <1>1, <2>1, <2>2, <2>4
  <2>6. Cardinality(lo .. hi - 1) = IF lo > hi - 1 THEN 0 ELSE (hi - 1) - lo + 1
    <3>1. lo \in Int /\ hi - 1 \in Int
      BY <2>4
    <3> QED
      BY <3>1, FS_Interval
  <2>7. Cardinality(drawn) = buckets[b].weight
    <3>1. PICK weight \in Nat : weight = buckets[b].weight
      BY <2>4
    <3>2. hi = lo + weight /\ lo \in Nat
      BY <2>4, <3>1
    <3>3. Cardinality(lo .. hi - 1) = weight
      BY <2>6, <3>2
    <3> QED
      BY <2>5, <3>1, <3>3
  <2> QED
    BY <2>7 DEF drawn
<1> QED
  BY <1>1, <1>4 DEF SharesMatch

-----------------------------------------------------------------------------
(* The contexts there are.                                                 *)
RunningContexts ==
    [at : RunningAt, request : Arrivals, gen : Nat, matched : Nat, nextFault : Nat,
     simulation : STRING \union {Unset}, profile : STRING \union {NoProfile},
     forward : BOOLEAN, terminal : BOOLEAN, connFault : FaultTypes \union {Unset},
     fault : FaultTypes \union {Unset}, response : Responses]

DoneContexts ==
    [at : {"done"}, request : Arrivals, gen : Nat, matched : Nat, terminal : BOOLEAN,
     connFault : FaultTypes \union {Unset}, answer : Answers]

(* The rule of a request is still the first match in its pipeline.         *)
Picked(c) ==
    /\ c.gen \in 1 .. Len(builds)
    /\ c.matched = FirstMatch(Config(c).rules, c.request)

Injected(c, os, type) ==
    \E o \in os, b \in ToSet(Rule(c).buckets) :
        \E f \in ToSet(FaultsIn(Config(c), Effective(o, Rule(c).id, b.profile))) : f.type = type

(* The profile of a context is that of a bucket of its rule, and from the  *)
(* fault stage on the one in force under an overlay of its time; what was  *)
(* injected comes from such a profile.                                     *)
InForce(c, os) ==
    /\ c.at \in {"switch", "overlay"} =>
           c.fault = Unset /\ \E b \in ToSet(Rule(c).buckets) : c.profile = b.profile
    /\ c.at = "fault" =>
           \E o \in os, b \in ToSet(Rule(c).buckets) :
               c.profile = Effective(o, Rule(c).id, b.profile)
    /\ c.fault # Unset => Injected(c, os, c.fault)

Sound(c, os) ==
    \/ c = NoRequest
    \/ c \in DoneContexts /\ Picked(c)
    \/ c \in RunningContexts /\ Picked(c) /\ c.matched # NoRule /\ InForce(c, os)

Overlaid == Overlays \union {NoOverlay}

SoundInv ==
    /\ overlays \in [Requests -> SUBSET Overlaid]
    /\ overlay \in Overlaid
    /\ \A r \in Requests :
          Sound(ctx[r], overlays[r]) /\ (Undecided(r) => overlay \in overlays[r])

-----------------------------------------------------------------------------
(* What a request has seen stays true of it when pipelines and overlays    *)
(* are added.                                                              *)
LEMMA SoundLasts ==
  ASSUME NEW c, NEW os, NEW more, os \subseteq more, Sound(c, os),
         1 .. Len(builds) \subseteq 1 .. Len(builds'),
         \A g \in 1 .. Len(builds) : builds'[g] = builds[g]
  PROVE  Sound(c, more)'
<1>1. CASE c = NoRequest
  BY <1>1 DEF Sound
<1>2. CASE Picked(c)
  <2>1. Config(c)' = Config(c) /\ Rule(c)' = Rule(c) /\ Picked(c)'
    BY <1>2 DEF Picked, Config, Rule
  <2>2. InForce(c, os) => InForce(c, more)'
    BY <2>1 DEF InForce, Injected
  <2> QED
    BY <2>1, <2>2 DEF Sound
<1> QED
  BY <1>1, <1>2 DEF Sound

(* A request moves on while nothing changes around it.                     *)
LEMMA MoveIsSound ==
  ASSUME IInv, SoundInv, NEW r \in Requests, NEW d, Moves(r, d),
         UNCHANGED <<builds, overlay>>,
         NEW os \in SUBSET Overlaid, overlays' = [overlays EXCEPT ![r] = os],
         Sound(d, os), d.at \in {"switch", "overlay"} => overlay \in os
  PROVE  SoundInv'
<1>1. overlays' \in [Requests -> SUBSET Overlaid]
  BY DEF SoundInv
<1>2. ASSUME NEW s \in Requests
      PROVE  (Sound(ctx[s], overlays[s]) /\ (Undecided(s) => overlay \in overlays[s]))'
  <2>1. CASE s = r
    <3>1. ctx'[s] = d /\ overlays'[s] = os
      BY <2>1 DEF SoundInv, Moves, IInv, ContextInv
    <3>2. Sound(d, os)'
      BY SoundLasts
    <3> QED
      BY <3>1, <3>2 DEF Undecided
  <2>2. CASE s # r
    <3>1. ctx'[s] = ctx[s] /\ overlays'[s] = overlays[s]
      BY <2>2 DEF SoundInv, Moves, IInv, ContextInv
    <3>2. PICK c, o : c = ctx[s] /\ o = overlays[s]
      OBVIOUS
    <3>3. Sound(c, o) /\ (c.at \in {"switch", "overlay"} => overlay \in o)
      BY <3>2 DEF SoundInv, Undecided
    <3>4. Sound(c, o)'
      BY <3>3, SoundLasts
    <3> QED
      BY <3>1, <3>2, <3>3, <3>4 DEF Undecided
  <2> QED
    BY <2>1, <2>2
<1> QED
  BY <1>1, <1>2 DEF SoundInv

(* The steps around the requests.                                          *)
LEMMA AroundIsSound ==
  ASSUME StormInv, SoundInv,
         \/ UNCHANGED vars
         \/ \E c \in Configs : Rebuild(c)
         \/ Halt \/ Resume \/ Tick
         \/ \E o \in Overlays \union {NoOverlay} : ChangeOverlay(o)
  PROVE  SoundInv'
<1>1. /\ 1 .. Len(builds) \subseteq 1 .. Len(builds')
      /\ \A g \in 1 .. Len(builds) : builds'[g] = builds[g]
  <2>1. CASE builds' = builds
    BY <2>1
  <2>2. ASSUME NEW c \in Configs, builds' = Append(builds, c)
        PROVE  /\ 1 .. Len(builds) \subseteq 1 .. Len(builds')
               /\ \A g \in 1 .. Len(builds) : builds'[g] = builds[g]
    BY <2>2 DEF StormInv, StormsTyped
  <2> QED
    BY <2>1, <2>2 DEF vars, Rebuild, Halt, Resume, Tick, ChangeOverlay
<1>2. ctx' = ctx
  BY DEF vars, Rebuild, Halt, Resume, Tick, ChangeOverlay
<1>3. /\ overlay' \in Overlaid /\ overlays' \in [Requests -> SUBSET Overlaid]
      /\ \A r \in Requests : overlays[r] \subseteq overlays'[r]
      /\ \A r \in Requests : Undecided(r) /\ overlay \in overlays[r] => overlay' \in overlays'[r]
  <2>1. CASE UNCHANGED <<overlay, overlays>>
    BY <2>1 DEF SoundInv
  <2>2. ASSUME NEW o \in Overlaid, ChangeOverlay(o)
        PROVE  /\ overlay' \in Overlaid /\ overlays' \in [Requests -> SUBSET Overlaid]
               /\ \A r \in Requests : overlays[r] \subseteq overlays'[r]
               /\ \A r \in Requests : Undecided(r) /\ overlay \in overlays[r] => overlay' \in overlays'[r]
    BY <2>2 DEF SoundInv, ChangeOverlay
  <2> QED
    BY <2>1, <2>2 DEF vars, historyVars, chaosVars, Rebuild, Halt, Resume, Tick, Overlaid
<1>4. ASSUME NEW r \in Requests
      PROVE  (Sound(ctx[r], overlays[r]) /\ (Undecided(r) => overlay \in overlays[r]))'
  <2>1. PICK c, os, more : c = ctx[r] /\ os = overlays[r] /\ more = overlays'[r]
    OBVIOUS
  <2>2. Sound(c, os) /\ (c.at \in {"switch", "overlay"} => overlay \in os)
    BY <2>1 DEF SoundInv, Undecided
  <2>3. Sound(c, more)'
    BY <1>1, <1>3, <2>1, <2>2, SoundLasts
  <2> QED
    BY <1>2, <1>3, <2>1, <2>2, <2>3 DEF Undecided
<1> QED
  BY <1>3, <1>4 DEF SoundInv

(* A configuration's rules have rules' types, and their buckets are full.  *)
LEMMA RulesTyped ==
  ASSUME StormInv, NEW g \in 1 .. Len(builds)
  PROVE  /\ builds[g] \in Configs
         /\ builds[g].rules \in Seq(Rules)
         /\ \A i \in DOMAIN builds[g].rules :
               /\ builds[g].rules[i].buckets \in Seq(Buckets)
               /\ TotalWeight(builds[g].rules[i].buckets) = FullWeight
<1>1. builds[g] \in Configs
  BY DEF StormInv, StormsTyped
<1>2. /\ builds[g].rules \in Seq(Rules)
      /\ \A i \in DOMAIN builds[g].rules : TotalWeight(builds[g].rules[i].buckets) = FullWeight
  BY <1>1, PipelineAssumption
<1>3. \A i \in DOMAIN builds[g].rules : builds[g].rules[i] \in Rules
  BY <1>2
<1> QED
  BY <1>1, <1>2, <1>3 DEF Rules

(* The match stage finds a rule, or none.                                  *)
LEMMA FirstMatchTyped ==
  ASSUME NEW rules \in Seq(Rules), NEW q
  PROVE  FirstMatch(rules, q) \in DOMAIN rules \union {NoRule} /\ FirstMatch(rules, q) \in Nat
BY FirstMatchIsFirst DEF NoRule

(* A request arrives: it is matched and a bucket is drawn.                 *)
LEMMA ArriveIsSound ==
  ASSUME IInv, StormInv, SoundInv, NEW r \in Requests, NEW q \in Arrivals, Arrive(r, q)
  PROVE  SoundInv'
<1>1. PICK new : new = [at |-> "switch", request |-> q, gen |-> Current, matched |-> NoRule,
                        simulation |-> Unset, forward |-> FALSE, profile |-> NoProfile,
                        nextFault |-> 1, terminal |-> FALSE, connFault |-> Unset,
                        fault |-> Unset, response |-> Unset]
  OBVIOUS
<1>2. PICK m : m = Matched(new)
  OBVIOUS
<1>3. PICK i : i = FirstMatch(builds[Current].rules, q)
  OBVIOUS
<1>4. m = [at |-> "switch", request |-> q, gen |-> Current, matched |-> i,
           simulation |-> Unset, forward |-> FALSE, profile |-> NoProfile,
           nextFault |-> 1, terminal |-> FALSE, connFault |-> Unset,
           fault |-> Unset, response |-> Unset]
  BY <1>1, <1>2, <1>3 DEF Matched, Config
<1>5. /\ Current \in 1 .. Len(builds) /\ Current \in Nat
      /\ i \in DOMAIN builds[Current].rules \union {NoRule} /\ i \in Nat
  <2>1. Current \in 1 .. Len(builds) /\ Current \in Nat
    BY DEF StormInv, StormsTyped, Current
  <2> QED
    BY <1>3, <2>1, RulesTyped, FirstMatchTyped
<1>6. UNCHANGED <<builds, overlay>>
  BY DEF Arrive, chaosVars
<1>7. ctx = [s \in Requests |-> ctx[s]] /\ overlays \in [Requests -> SUBSET Overlaid]
  BY DEF IInv, ContextInv, SoundInv
<1>e. PICK e \in IF m.matched = NoRule THEN {Ended(m, "error")} ELSE Routed(m) : Moves(r, e)
  BY <1>1, <1>2 DEF Arrive, Moves
<1>o. IF m.matched = NoRule THEN overlays' = overlays
      ELSE overlays' = [overlays EXCEPT ![r] = {overlay}]
  BY <1>1, <1>2 DEF Arrive
<1>m. m.matched = i
  BY <1>4
<1>8. CASE i = NoRule
  <2>1. PICK d : d = Ended(m, "error") /\ Moves(r, d) /\ overlays' = overlays
    BY <1>8, <1>e, <1>o, <1>m
  <2>2. d = [at |-> "done", request |-> q, gen |-> Current, matched |-> i,
             terminal |-> FALSE, connFault |-> Unset, answer |-> "error"]
    BY <1>4, <2>1 DEF Ended
  <2>3. d \in DoneContexts
    <3>1. "error" \in Answers
      BY DEF Answers
    <3> QED
      BY <1>5, <2>2, <3>1 DEF DoneContexts
  <2>4. Picked(d)
    BY <1>3, <1>5, <2>2 DEF Picked, Config
  <2>5. Sound(d, overlays[r]) /\ d.at \notin {"switch", "overlay"}
    BY <2>2, <2>3, <2>4 DEF Sound
  <2>6. overlays' = [overlays EXCEPT ![r] = overlays[r]] /\ overlays[r] \in SUBSET Overlaid
    BY <1>7, <2>1
  <2> QED
    BY <1>6, <2>1, <2>5, <2>6, MoveIsSound
<1>9. CASE i # NoRule
  <2>1. PICK buckets : buckets = builds[Current].rules[i].buckets
    OBVIOUS
  <2>2. buckets \in Seq(Buckets) /\ TotalWeight(buckets) = FullWeight
    BY <1>5, <1>9, <2>1, RulesTyped
  <2>3. PICK d \in Routed(m) : Moves(r, d) /\ overlays' = [overlays EXCEPT ![r] = {overlay}]
    BY <1>9, <1>e, <1>o, <1>m
  <2>4. PICK pick \in 0 .. FullWeight - 1 :
            d = [m EXCEPT !.profile = buckets[SelectBucket(buckets, pick)].profile,
                          !.simulation = buckets[SelectBucket(buckets, pick)].simulation,
                          !.forward = buckets[SelectBucket(buckets, pick)].action = "forward"]
    BY <1>4, <2>1, <2>3 DEF Routed, Rule, Config
  <2>5. PICK k : k = SelectBucket(buckets, pick)
    OBVIOUS
  <2>6. k \in DOMAIN buckets
    <3>1. pick \in Nat /\ pick < TotalWeight(buckets)
      BY <2>2, PipelineAssumption
    <3> QED
      BY <2>2, <2>5, <3>1, DrawsFall
  <2>7. PICK b : b = buckets[k]
    OBVIOUS
  <2>8. b \in Buckets /\ b \in ToSet(buckets)
    BY <2>2, <2>6, <2>7 DEF ToSet
  <2>9. b.profile \in STRING /\ b.simulation \in STRING
    BY <2>8 DEF Buckets
  <2>10. d = [at |-> "switch", request |-> q, gen |-> Current, matched |-> i,
              simulation |-> b.simulation, forward |-> b.action = "forward", profile |-> b.profile,
              nextFault |-> 1, terminal |-> FALSE, connFault |-> Unset,
              fault |-> Unset, response |-> Unset]
    BY <1>4, <2>4, <2>5, <2>7
  <2>11. d \in RunningContexts
    <3>1. Unset \in Responses /\ "switch" \in RunningAt
      BY DEF Unset, Responses, RunningAt
    <3>2. (b.action = "forward") \in BOOLEAN
      OBVIOUS
    <3>3. PICK forward \in BOOLEAN : forward = (b.action = "forward")
      BY <3>2
    <3>4. d = [at |-> "switch", request |-> q, gen |-> Current, matched |-> i,
               simulation |-> b.simulation, forward |-> forward, profile |-> b.profile,
               nextFault |-> 1, terminal |-> FALSE, connFault |-> Unset,
               fault |-> Unset, response |-> Unset]
      BY <2>10, <3>3
    <3> QED
      BY <1>5, <2>9, <3>1, <3>4 DEF RunningContexts
  <2>12. Picked(d) /\ d.matched # NoRule
    BY <1>3, <1>5, <1>9, <2>10 DEF Picked, Config
  <2>13. InForce(d, {overlay})
    <3>1. ToSet(Rule(d).buckets) = ToSet(buckets)
      BY <2>1, <2>10 DEF Rule, Config
    <3>2. d.fault = Unset /\ d.profile = b.profile /\ d.at = "switch"
      BY <2>10
    <3> QED
      BY <2>8, <3>1, <3>2 DEF InForce
  <2>14. Sound(d, {overlay}) /\ {overlay} \in SUBSET Overlaid
    BY <2>11, <2>12, <2>13 DEF Sound, SoundInv
  <2> QED
    BY <1>6, <2>3, <2>14, MoveIsSound
<1> QED
  BY <1>8, <1>9

(* A fault that is rolled comes from a profile in force.                   *)
LEMMA PendingIsInForce ==
  ASSUME StormInv, SoundInv, NEW r \in Requests, FaultPending(r)
  PROVE  /\ Injected(ctx[r], overlays[r], NextFault(r).type)
         /\ NextFault(r).type \in FaultTypes
<1>1. PICK c : c = ctx[r]
  OBVIOUS
<1>2. c.at = "fault" /\ c.nextFault \in DOMAIN FaultsIn(Config(c), c.profile)
  BY <1>1 DEF FaultPending
<1>3. c \in RunningContexts /\ Picked(c) /\ InForce(c, overlays[r])
  BY <1>1, <1>2 DEF SoundInv, Sound, NoRequest, DoneContexts
<1>4. PICK o \in overlays[r], b \in ToSet(Rule(c).buckets) :
          c.profile = Effective(o, Rule(c).id, b.profile)
  BY <1>2, <1>3 DEF InForce
<1>5. PICK faults : faults = FaultsIn(Config(c), c.profile)
  OBVIOUS
<1>6. NextFault(r) = faults[c.nextFault] /\ c.nextFault \in DOMAIN faults
  BY <1>1, <1>2, <1>5 DEF NextFault
<1>7. Injected(c, overlays[r], NextFault(r).type)
  <2>1. NextFault(r) \in ToSet(faults)
    BY <1>6 DEF ToSet
  <2> QED
    BY <1>4, <1>5, <2>1 DEF Injected
<1>8. NextFault(r).type \in FaultTypes
  <2>1. Config(c) \in Configs
    BY <1>3, RulesTyped DEF Picked, Config
  <2>2. c.profile \in DOMAIN Config(c).profiles /\ faults = Config(c).profiles[c.profile].faults
    BY <1>2, <1>5 DEF FaultsIn
  <2>3. Config(c).profiles[c.profile] \in Profiles
    BY <2>1, <2>2, PipelineAssumption
  <2>4. faults \in Seq(Faults)
    BY <2>2, <2>3 DEF Profiles
  <2>5. NextFault(r) \in Faults
    BY <1>6, <2>4
  <2> QED
    BY <2>5 DEF Faults
<1> QED
  BY <1>1, <1>7, <1>8

(* A request in the fault stage moves on.                                  *)
LEMMA StageIsSound ==
  ASSUME IInv, SoundInv, NEW r \in Requests, NEW c, c = ctx[r], c.at \in RunningAt,
         NEW d, Moves(r, d), UNCHANGED <<builds, overlay, overlays>>,
         d \in RunningContexts,
         d.gen = c.gen, d.matched = c.matched, d.request = c.request,
         InForce(d, overlays[r]),
         d.at \in {"switch", "overlay"} => c.at \in {"switch", "overlay"}
  PROVE  SoundInv'
<1>1. c \in RunningContexts /\ Picked(c) /\ c.matched # NoRule
  BY DEF SoundInv, Sound, NoRequest, DoneContexts, RunningAt
<1>2. Picked(d) /\ d.matched # NoRule
  BY <1>1 DEF Picked, Config
<1>3. Sound(d, overlays[r])
  BY <1>2 DEF Sound
<1>4. overlays' = [overlays EXCEPT ![r] = overlays[r]] /\ overlays[r] \in SUBSET Overlaid
  BY DEF SoundInv
<1>5. d.at \in {"switch", "overlay"} => overlay \in overlays[r]
  BY DEF SoundInv, Undecided
<1> QED
  BY <1>3, <1>4, <1>5, MoveIsSound

(* What the invariant says of a request that runs.                         *)
LEMMA RunningIsSound ==
  ASSUME SoundInv, NEW r \in Requests, ctx[r].at \in RunningAt
  PROVE  /\ ctx[r] \in RunningContexts /\ Picked(ctx[r]) /\ InForce(ctx[r], overlays[r])
         /\ ctx[r].matched # NoRule
BY DEF SoundInv, Sound, NoRequest, DoneContexts, RunningAt

(* What is in force depends on little of a context.                        *)
LEMMA InForceLasts ==
  ASSUME NEW c, NEW d, NEW os, d.gen = c.gen, d.matched = c.matched,
         d.at \in {"fault", "rest"},
         d.at = "fault" => c.at = "fault" /\ d.profile = c.profile,
         InForce(c, os),
         d.fault # Unset => d.fault = c.fault \/ Injected(c, os, d.fault)
  PROVE  InForce(d, os)
<1>1. Config(d) = Config(c) /\ Rule(d) = Rule(c)
  BY DEF Config, Rule
<1> QED
  BY <1>1 DEF InForce, Injected

(* The fault stage decides on a profile.                                   *)
LEMMA DecisionIsSound ==
  ASSUME IInv, StormInv, SoundInv, NEW r \in Requests, CheckSwitch(r) \/ ReadOverlay(r)
  PROVE  SoundInv'
<1>1. PICK c : c = ctx[r]
  OBVIOUS
<1>2. c.at \in {"switch", "overlay"} /\ c.at \in RunningAt
  BY <1>1 DEF CheckSwitch, ReadOverlay, RunningAt
<1>3. /\ c \in RunningContexts /\ Picked(c) /\ InForce(c, overlays[r])
      /\ c.fault = Unset /\ overlay \in overlays[r]
  BY <1>1, <1>2, RunningIsSound DEF InForce, SoundInv, Undecided
<1>4. PICK b \in ToSet(Rule(c).buckets) : c.profile = b.profile
  BY <1>2, <1>3 DEF InForce
<1>5. UNCHANGED <<builds, overlay, overlays>>
  BY DEF CheckSwitch, ReadOverlay, Local, chaosVars, historyVars
<1>6. ctx = [s \in Requests |-> ctx[s]]
  BY DEF IInv, ContextInv
<1>7. CASE CheckSwitch(r)
  <2>1. PICK d : d = [c EXCEPT !.at = IF halted THEN "rest" ELSE "overlay"]
    OBVIOUS
  <2>2. Moves(r, d)
    BY <1>1, <1>6, <1>7, <2>1 DEF CheckSwitch, Moves
  <2>3. /\ d \in RunningContexts /\ d.gen = c.gen /\ d.matched = c.matched /\ d.request = c.request
        /\ d.at \in {"rest", "overlay"} /\ d.fault = Unset /\ d.profile = b.profile
    BY <1>3, <1>4, <2>1 DEF RunningContexts, RunningAt
  <2>4. Rule(d) = Rule(c)
    BY <2>3 DEF Rule, Config
  <2>5. InForce(d, overlays[r])
    BY <2>3, <2>4 DEF InForce
  <2> QED
    BY <1>1, <1>2, <1>5, <2>2, <2>3, <2>5, StageIsSound
<1>8. CASE ReadOverlay(r)
  <2>1. PICK p : p = Effective(overlay, Rule(c).id, c.profile)
    OBVIOUS
  <2>2. PICK d : d = [c EXCEPT !.at = "fault", !.profile = p]
    OBVIOUS
  <2>3. Moves(r, d)
    BY <1>1, <1>6, <1>8, <2>1, <2>2 DEF ReadOverlay, Moves
  <2>4. p \in STRING \union {NoProfile}
    <3>1. overlay.profile \in STRING \union {NoProfile}
      BY PipelineAssumption DEF SoundInv, Overlaid, NoOverlay
    <3> QED
      BY <1>3, <2>1, <3>1 DEF Effective, RunningContexts
  <2>5. /\ d \in RunningContexts /\ d.gen = c.gen /\ d.matched = c.matched /\ d.request = c.request
        /\ d.at = "fault" /\ d.fault = Unset /\ d.profile = p
    BY <1>3, <2>2, <2>4 DEF RunningContexts, RunningAt
  <2>6. Rule(d) = Rule(c)
    BY <2>5 DEF Rule, Config
  <2>7. InForce(d, overlays[r])
    BY <1>3, <1>4, <2>1, <2>5, <2>6 DEF InForce
  <2> QED
    BY <1>1, <1>2, <1>5, <2>3, <2>5, <2>7, StageIsSound
<1> QED
  BY <1>7, <1>8

(* The faults of the profile are rolled, one after the other.              *)
LEMMA FaultsAreSound ==
  ASSUME IInv, StormInv, SoundInv, NEW r \in Requests,
         \/ FaultsDone(r) \/ FaultMisses(r) \/ ModifierHits(r) \/ ErrorHits(r)
         \/ ConnFaultHits(r) \/ RetryStormHits(r)
  PROVE  SoundInv'
<1>1. PICK c, os : c = ctx[r] /\ os = overlays[r]
  OBVIOUS
<1>2. c.at = "fault" /\ c.at \in RunningAt
  BY <1>1 DEF FaultsDone, FaultMisses, ModifierHits, ErrorHits, ConnFaultHits, RetryStormHits,
              Hits, FaultPending, RunningAt
<1>3. c \in RunningContexts /\ Picked(c) /\ InForce(c, os)
  BY <1>1, <1>2, RunningIsSound
<1>4. UNCHANGED <<builds, overlay, overlays>>
  BY DEF FaultsDone, FaultMisses, ModifierHits, ErrorHits, ConnFaultHits, RetryStormHits,
         Local, chaosVars, historyVars
<1>5. ctx = [s \in Requests |-> ctx[s]]
  BY DEF IInv, ContextInv
<1>6. PICK f : f = NextFault(r)
  OBVIOUS
<1>7. FaultPending(r) => Injected(c, os, f.type) /\ f.type \in FaultTypes
  BY <1>1, <1>6, PendingIsInForce
<1>8. ASSUME NEW d, Moves(r, d), d \in RunningContexts,
             d.gen = c.gen, d.matched = c.matched, d.request = c.request,
             d.at \in {"fault", "rest"}, d.at = "fault" => d.profile = c.profile,
             d.fault = c.fault \/ (d.fault = f.type /\ FaultPending(r))
      PROVE  SoundInv'
  <2>1. InForce(d, os)
    BY <1>2, <1>3, <1>7, <1>8, InForceLasts
  <2> QED
    BY <1>1, <1>2, <1>4, <1>8, <2>1, StageIsSound
<1>9. CASE FaultsDone(r)
  <2>1. PICK d : d = [c EXCEPT !.at = "rest"]
    OBVIOUS
  <2>2. Moves(r, d)
    BY <1>1, <1>5, <1>9, <2>1 DEF FaultsDone, Moves
  <2>3. /\ d \in RunningContexts /\ d.gen = c.gen /\ d.matched = c.matched /\ d.request = c.request
        /\ d.at = "rest" /\ d.fault = c.fault
    BY <1>3, <2>1 DEF RunningContexts, RunningAt
  <2> QED
    BY <1>8, <2>2, <2>3
<1>10. ASSUME NEW d, Moves(r, d), d = [c EXCEPT !.nextFault = c.nextFault + 1] PROVE SoundInv'
  <2>1. /\ d \in RunningContexts /\ d.gen = c.gen /\ d.matched = c.matched /\ d.request = c.request
        /\ d.at = "fault" /\ d.fault = c.fault /\ d.profile = c.profile
    BY <1>2, <1>3, <1>10 DEF RunningContexts
  <2> QED
    BY <1>8, <1>10, <2>1
<1>11. CASE FaultMisses(r)
  <2>1. Moves(r, [c EXCEPT !.nextFault = c.nextFault + 1])
    BY <1>1, <1>5, <1>11 DEF FaultMisses, Moves
  <2> QED
    BY <1>10, <2>1
<1>12. CASE ModifierHits(r)
  <2>1. PICK d : d = [c EXCEPT !.fault = f.type, !.nextFault = c.nextFault + 1]
    OBVIOUS
  <2>2. Moves(r, d) /\ FaultPending(r)
    BY <1>1, <1>5, <1>6, <1>12, <2>1 DEF ModifierHits, Hits, Moves
  <2>3. /\ d \in RunningContexts /\ d.gen = c.gen /\ d.matched = c.matched /\ d.request = c.request
        /\ d.at = "fault" /\ d.fault = f.type /\ d.profile = c.profile
    <3>1. f.type \in FaultTypes \union {Unset} /\ c.nextFault + 1 \in Nat
      BY <1>3, <1>7, <2>2 DEF RunningContexts
    <3> QED
      BY <1>2, <1>3, <2>1, <3>1 DEF RunningContexts
  <2> QED
    BY <1>8, <2>2, <2>3
<1>13. ASSUME FaultPending(r)
       PROVE  LET d == ShortCircuited(c, f)
              IN  /\ d \in RunningContexts /\ d.gen = c.gen /\ d.matched = c.matched
                  /\ d.request = c.request /\ d.at = "rest" /\ d.fault = f.type
  BY <1>3, <1>7, <1>13 DEF RunningContexts, RunningAt, ShortCircuited
<1>14. ASSUME NEW d, Moves(r, d), FaultPending(r),
              d = [ShortCircuited(c, f) EXCEPT !.response = "fault"]
       PROVE SoundInv'
  <2>1. PICK e : e = ShortCircuited(c, f)
    OBVIOUS
  <2>2. "fault" \in Responses
    BY DEF Responses
  <2>3. /\ d \in RunningContexts /\ d.gen = c.gen /\ d.matched = c.matched /\ d.request = c.request
        /\ d.at = "rest" /\ d.fault = f.type
    BY <1>13, <1>14, <2>1, <2>2 DEF RunningContexts
  <2> QED
    BY <1>8, <1>14, <2>3
<1>15. CASE ErrorHits(r)
  <2>1. Moves(r, [ShortCircuited(c, f) EXCEPT !.response = "fault"]) /\ FaultPending(r)
    BY <1>1, <1>6, <1>15 DEF ErrorHits, Hits, Moves
  <2> QED
    BY <1>14, <2>1
<1>16. CASE ConnFaultHits(r)
  <2>1. PICK e, d : e = ShortCircuited(c, f) /\ d = [e EXCEPT !.connFault = f.type]
    OBVIOUS
  <2>2. Moves(r, d) /\ FaultPending(r)
    BY <1>1, <1>6, <1>16, <2>1 DEF ConnFaultHits, Hits, Moves
  <2>3. /\ d \in RunningContexts /\ d.gen = c.gen /\ d.matched = c.matched /\ d.request = c.request
        /\ d.at = "rest" /\ d.fault = f.type
    BY <1>7, <1>13, <2>1, <2>2 DEF RunningContexts
  <2> QED
    BY <1>8, <2>2, <2>3
<1>17. CASE RetryStormHits(r)
  <2>1. /\ FaultPending(r)
        /\ \/ Moves(r, [ShortCircuited(c, f) EXCEPT !.response = "fault"])
           \/ Moves(r, [c EXCEPT !.nextFault = c.nextFault + 1])
    BY <1>1, <1>5, <1>6, <1>17 DEF RetryStormHits, Hits, Moves
  <2> QED
    BY <1>10, <1>14, <2>1
<1> QED
  BY <1>9, <1>11, <1>12, <1>15, <1>16, <1>17

(* The stages behind it and the answer keep what is known of the request.  *)
LEMMA FinishIsSound ==
  ASSUME IInv, SoundInv, NEW r \in Requests, Finish(r)
  PROVE  SoundInv'
<1>1. PICK c : c = ctx[r]
  OBVIOUS
<1>2. c.at = "rest" /\ c.at \in RunningAt
  BY <1>1 DEF Finish, RunningAt
<1>3. c \in RunningContexts /\ Picked(c)
  BY <1>1, <1>2, RunningIsSound
<1> DEFINE Same(x) == x.gen = c.gen /\ x.matched = c.matched /\ x.request = c.request
           Goes(x) == x \in RunningContexts /\ x.at = "rest" /\ Same(x)
           Ends(x) == x \in DoneContexts /\ Same(x)
<1>4. ASSUME NEW x, Goes(x), NEW answer \in Answers PROVE Ends(Ended(x, answer))
  BY <1>4 DEF Ended, RunningContexts, DoneContexts
<1>5. /\ "error" \in Answers /\ "truncated" \in Answers /\ "closed" \in Answers
      /\ "noResponse" \in Answers /\ Responses \subseteq Answers
      /\ "simulated" \in Responses /\ "upstream" \in Responses
  BY DEF Answers, Responses
<1>6. Goes(c)
  BY <1>2, <1>3
<1>7. ASSUME NEW x, Goes(x), NEW response \in Responses PROVE Goes([x EXCEPT !.response = response])
  BY <1>7 DEF RunningContexts
<1>8. \A x : Ends(x) => x.at = "done"
  BY DEF DoneContexts
<1>9. \A x : Goes(x) => x.at # "done"
  OBVIOUS
<1> HIDE DEF Goes, Ends
<1>10. \A x \in Simulate(c) : Goes(x) \/ Ends(x)
  BY <1>4, <1>5, <1>6, <1>7 DEF Simulate
<1>11. \A x \in Then(Simulate(c), Script) : Goes(x) \/ Ends(x)
  BY <1>4, <1>5, <1>8, <1>9, <1>10 DEF Then, Script
<1>12. \A x \in Then(Then(Simulate(c), Script), Forward) : Goes(x) \/ Ends(x)
  <2> DEFINE S == Then(Simulate(c), Script)
  <2>1. \A x \in S : Goes(x) \/ Ends(x)
    BY <1>11
  <2> HIDE DEF S
  <2>2. \A x \in Then(S, Forward) : Goes(x) \/ Ends(x)
    BY <1>4, <1>5, <1>7, <1>8, <1>9, <2>1 DEF Then, Forward
  <2> QED
    BY <2>2 DEF S
<1>13. \A x \in Then(Then(Then(Simulate(c), Script), Forward), Answer) : Ends(x)
  <2> DEFINE S == Then(Then(Simulate(c), Script), Forward)
  <2>1. \A x \in S : Goes(x) \/ Ends(x)
    BY <1>12
  <2> HIDE DEF S
  <2>2. ASSUME NEW x, Goes(x), NEW y \in Answer(x) PROVE Ends(y)
    <3>1. PICK answer : y = Ended(x, answer)
                        /\ answer \in {"truncated", "closed", "noResponse", x.response}
      BY <2>2 DEF Answer
    <3>2. x.response \in Responses
      BY <2>2 DEF Goes, RunningContexts
    <3>3. answer \in Answers
      BY <1>5, <3>1, <3>2
    <3> QED
      BY <1>4, <2>2, <3>1, <3>3
  <2>3. \A x \in Then(S, Answer) : Ends(x)
    BY <1>8, <1>9, <2>1, <2>2 DEF Then
  <2> QED
    BY <2>3 DEF S
<1>14. PICK d \in Then(Then(Then(Simulate(c), Script), Forward), Answer) : Moves(r, d)
  BY <1>1 DEF Finish, Moves
<1>15. Ends(d) /\ d.at = "done"
  BY <1>8, <1>13, <1>14
<1>16. d \in DoneContexts /\ Picked(d)
  BY <1>3, <1>15 DEF Ends, Picked, Config
<1>17. /\ UNCHANGED <<builds, overlay>> /\ overlays' = [overlays EXCEPT ![r] = {}]
       /\ {} \in SUBSET Overlaid /\ Sound(d, {})
  BY <1>16 DEF Finish, chaosVars, Sound
<1> QED
  BY <1>14, <1>15, <1>17, MoveIsSound

(* At first there is no request.                                           *)
LEMMA SoundInit == Init => SoundInv
BY DEF Init, SoundInv, Sound, Overlaid, Undecided, NoRequest

(* No step of the request path or around it breaks this.                   *)
LEMMA SoundStep == IInv /\ StormInv /\ SoundInv /\ [Next]_vars => SoundInv'
BY AroundIsSound, ArriveIsSound, DecisionIsSound, FaultsAreSound, FinishIsSound DEF Next

(* The match stage: in the configuration a request arrived to, its rule    *)
(* matches, and none that matches is more specific or, equally specific,   *)
(* before it; there is no rule only if none matches.                       *)
THEOREM SpecificityCorrect == Spec => []MostSpecificWins
<1>1. StormInv /\ SoundInv => MostSpecificWins
  <2> SUFFICES ASSUME StormInv, SoundInv, NEW r \in Requests, Arrived(r)
               PROVE  LET rules == Config(ctx[r]).rules
                          matching == {i \in DOMAIN rules : MatchRule(rules[i], ctx[r].request)}
                          best == ctx[r].matched
                      IN  IF matching = {} THEN best = NoRule
                          ELSE /\ best \in matching
                               /\ \A i \in matching \ {best} :
                                     \/ TupleMoreSpecific(SpecTuple(rules[best]), SpecTuple(rules[i]))
                                     \/ SpecTuple(rules[best]) = SpecTuple(rules[i]) /\ best < i
    BY DEF MostSpecificWins
  <2>1. PICK c : c = ctx[r]
    OBVIOUS
  <2>2. Picked(c)
    BY <2>1 DEF SoundInv, Sound, Arrived, NoRequest
  <2>3. Config(c).rules \in Seq(Rules)
    BY <2>2, RulesTyped DEF Picked, Config
  <2> QED
    BY <2>1, <2>2, <2>3, FirstMatchIsFirst DEF Picked, Before
<1> QED
  BY <1>1, InvInit, InvStep, StormInit, StormStep, SoundInit, SoundStep, PTL DEF Spec

(* The fault stage injects nothing but what a profile holds that was in    *)
(* force for the rule of the request while the request ran, whatever       *)
(* phases came and went around it.                                         *)
THEOREM FaultsCorrect == Spec => []FaultsAreInForce
<1>1. SoundInv => FaultsAreInForce
  BY DEF SoundInv, Sound, InForce, Injected, FaultsAreInForce, Arrived, Done, DoneContexts, NoRequest
<1> QED
  BY <1>1, InvInit, InvStep, StormInit, StormStep, SoundInit, SoundStep, PTL DEF Spec

(* selectBucket gives every bucket of every pipeline as many draws as it   *)
(* has weight.                                                             *)
THEOREM SharesCorrect == Spec => []SharesMatchWeights
<1>1. StormInv => SharesMatchWeights
  <2> SUFFICES ASSUME StormInv, NEW g \in 1 .. Len(builds) PROVE builds[g] \in FairConfigs
    BY DEF SharesMatchWeights, ToSet, StormInv, StormsTyped
  <2> QED
    BY RulesTyped, SharesHold DEF FairConfigs
<1> QED
  BY <1>1, InvInit, InvStep, StormInit, StormStep, PTL DEF Spec

-----------------------------------------------------------------------------
(* What TypeOK says beyond the other invariants.                           *)
BoundedEntry == [count : Nat, start : 0 .. MaxTime]

BoundsInv ==
    /\ halted \in BOOLEAN /\ quiet \in [Requests -> BOOLEAN]
    /\ Len(builds) <= MaxBuilds /\ now \in 0 .. MaxTime
    /\ retry \in Seq([Keys -> BoundedEntry])
    /\ storms \subseteq [request : Requests, gen : Nat, key : Keys, at : 0 .. MaxTime]

LEMMA BoundsInit == Init => BoundsInv
<1> SUFFICES ASSUME Init PROVE BoundsInv
  OBVIOUS
<1>1. NewCounter \in [Keys -> BoundedEntry] /\ 0 \in 0 .. MaxTime
  BY PipelineAssumption DEF NewCounter, NoEntry, BoundedEntry
<1>2. PICK c \in Configs : builds = <<c>>
  BY DEF Init
<1>3. Len(builds) <= MaxBuilds
  BY <1>2, PipelineAssumption
<1>4. retry \in Seq([Keys -> BoundedEntry])
  BY <1>1 DEF Init
<1>5. halted \in BOOLEAN /\ quiet \in [Requests -> BOOLEAN]
  BY DEF Init
<1>6. now \in 0 .. MaxTime /\ storms = {}
  BY <1>1 DEF Init
<1> QED
  BY <1>3, <1>4, <1>5, <1>6 DEF BoundsInv

LEMMA BoundsStep == IInv /\ StormInv /\ BoundsInv /\ [Next]_vars => BoundsInv'
<1> SUFFICES ASSUME IInv, StormInv, BoundsInv, [Next]_vars PROVE BoundsInv'
  OBVIOUS
<1>1. UNCHANGED <<builds, retry, now, halted, storms>> /\ quiet' \in [Requests -> BOOLEAN] => BoundsInv'
  BY DEF BoundsInv
<1>2. CASE UNCHANGED vars
  BY <1>1, <1>2 DEF vars, historyVars, chaosVars, BoundsInv
<1>3. ASSUME NEW c \in Configs, Rebuild(c) PROVE BoundsInv'
  <2>1. /\ builds' = Append(builds, c) /\ retry' = Append(retry, NewCounter) /\ Len(builds) < MaxBuilds
        /\ UNCHANGED <<now, halted, quiet, storms>>
    BY <1>3 DEF Rebuild, historyVars, chaosVars
  <2>2. NewCounter \in [Keys -> BoundedEntry]
    BY PipelineAssumption DEF NewCounter, NoEntry, BoundedEntry
  <2>3. Len(builds') <= MaxBuilds
    BY <2>1, PipelineAssumption DEF StormInv, StormsTyped
  <2> QED
    BY <2>1, <2>2, <2>3 DEF BoundsInv
<1>4. CASE Halt
  BY <1>4 DEF Halt, historyVars, BoundsInv
<1>5. CASE Resume
  BY <1>5 DEF Resume, BoundsInv
<1>6. ASSUME NEW o, ChangeOverlay(o) PROVE BoundsInv'
  BY <1>1, <1>6 DEF ChangeOverlay, BoundsInv
<1>7. CASE Tick
  <2>1. now' \in 0 .. MaxTime
    BY <1>7, PipelineAssumption DEF Tick, BoundsInv
  <2> QED
    BY <1>7, <2>1 DEF Tick, chaosVars, historyVars, BoundsInv
<1>8. ASSUME NEW r \in Requests, NEW q \in Arrivals, Arrive(r, q) PROVE BoundsInv'
  <2>1. UNCHANGED <<builds, retry, now, halted, storms>>
    BY <1>8 DEF Arrive, chaosVars
  <2>2. quiet' = quiet \/ quiet' = [quiet EXCEPT ![r] = halted]
    BY <1>8 DEF Arrive
  <2> QED
    BY <1>1, <2>1, <2>2 DEF BoundsInv
<1>9. ASSUME NEW r \in Requests,
             \/ CheckSwitch(r) \/ ReadOverlay(r) \/ FaultsDone(r) \/ FaultMisses(r)
             \/ ModifierHits(r) \/ ErrorHits(r) \/ ConnFaultHits(r)
      PROVE  BoundsInv'
  BY <1>1, <1>9 DEF CheckSwitch, ReadOverlay, FaultsDone, FaultMisses, ModifierHits, ErrorHits,
        ConnFaultHits, Local, chaosVars, historyVars, BoundsInv
<1>10. ASSUME NEW r \in Requests, Finish(r) PROVE BoundsInv'
  BY <1>1, <1>10 DEF Finish, chaosVars, BoundsInv
<1>11. ASSUME NEW r \in Requests, RetryStormHits(r) PROVE BoundsInv'
  <2>1. PICK f, g, key, entry :
            /\ f = NextFault(r) /\ g = ctx[r].gen
            /\ key = RetryKey(f, ctx[r].request) /\ entry = Counted(retry[g][key], f)
    OBVIOUS
  <2>2. g \in 1 .. Len(builds) /\ g \in 1 .. Len(retry) /\ g \in Nat /\ key \in Keys
    BY <1>11, <2>1, PendingFault DEF RetryStormHits, StormInv, StormsTyped
  <2>3. /\ retry' = [retry EXCEPT ![g][key] = entry] /\ UNCHANGED <<builds, now, halted, quiet>>
        /\ \/ storms' = storms
           \/ storms' = storms \union {[request |-> r, gen |-> g, key |-> key, at |-> now]}
    BY <1>11, <2>1 DEF RetryStormHits, chaosVars
  <2>4. retry[g] \in [Keys -> BoundedEntry] /\ now \in 0 .. MaxTime
    BY <2>2 DEF BoundsInv
  <2>5. retry[g][key] \in BoundedEntry
    BY <2>2, <2>4
  <2>6. entry \in BoundedEntry
    <3>1. PICK old \in BoundedEntry : old = retry[g][key]
      BY <2>5
    <3>2. old.count + 1 \in Nat /\ old.start \in 0 .. MaxTime
      BY DEF BoundedEntry
    <3>3. entry = Counted(old, f)
      BY <2>1, <3>1
    <3> QED
      BY <2>4, <3>2, <3>3 DEF Counted, BoundedEntry
  <2>7. PICK row : row = [retry[g] EXCEPT ![key] = entry]
    OBVIOUS
  <2>8. row \in [Keys -> BoundedEntry] /\ retry' = [retry EXCEPT ![g] = row]
    BY <2>3, <2>4, <2>6, <2>7
  <2>9. retry' \in Seq([Keys -> BoundedEntry])
    BY <2>2, <2>8 DEF BoundsInv
  <2>10. storms' \subseteq [request : Requests, gen : Nat, key : Keys, at : 0 .. MaxTime]
    BY <2>2, <2>3, <2>4 DEF BoundsInv
  <2> QED
    BY <2>3, <2>9, <2>10 DEF BoundsInv
<1> QED
  BY <1>2, <1>3, <1>4, <1>5, <1>6, <1>7, <1>8, <1>9, <1>10, <1>11 DEF Next

(* The shape of pipelines, retry counters and contexts: a request stays in *)
(* the pipeline it arrived to, and its rule is one of that pipeline's.     *)
THEOREM TypeCorrect == Spec => []TypeOK
<1>1. StormInv /\ SoundInv /\ BoundsInv => TypeOK
  <2> SUFFICES ASSUME StormInv, SoundInv, BoundsInv PROVE TypeOK
    OBVIOUS
  <2>1. /\ builds \in Seq(Configs) /\ Current \in 1 .. MaxBuilds
        /\ Len(retry) = Current /\ Current \in Nat
    BY PipelineAssumption DEF StormInv, StormsTyped, BoundsInv, Current
  <2>2. storms \subseteq [request : Requests, gen : 1 .. Current, key : Keys, at : 0 .. MaxTime]
    BY DEF BoundsInv, StormInv, StormsTyped, Current
  <2>3. ASSUME NEW r \in Requests, ctx[r] # NoRequest
        PROVE  /\ ctx[r].at \in Stages
               /\ ctx[r].request \in Arrivals
               /\ ctx[r].gen \in 1 .. Current
               /\ ctx[r].matched \in DOMAIN Config(ctx[r]).rules \union {NoRule}
               /\ ctx[r].terminal \in BOOLEAN
               /\ IF ctx[r].at = "done" THEN ctx[r].answer \in Answers
                  ELSE ctx[r].response \in Responses /\ ctx[r].forward \in BOOLEAN
    <3>1. PICK c : c = ctx[r]
      OBVIOUS
    <3>2. Picked(c) /\ (c \in DoneContexts \/ c \in RunningContexts)
      BY <2>3, <3>1 DEF SoundInv, Sound
    <3>3. c.gen \in 1 .. Current /\ c.matched \in DOMAIN Config(c).rules \union {NoRule}
      BY <3>2, RulesTyped, FirstMatchTyped DEF Picked, Config, Current
    <3> QED
      BY <3>1, <3>2, <3>3 DEF DoneContexts, RunningContexts, RunningAt, Stages
  <2> QED
    BY <2>1, <2>2, <2>3 DEF TypeOK, BoundsInv, SoundInv, Overlaid, BoundedEntry
<1> QED
  BY <1>1, InvInit, InvStep, StormInit, StormStep, SoundInit, SoundStep, BoundsInit, BoundsStep,
     PTL DEF Spec
=============================================================================
