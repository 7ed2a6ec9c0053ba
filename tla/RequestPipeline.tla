--------------------------- MODULE RequestPipeline ---------------------------
(***************************************************************************)
(* The request path: concurrent requests, each through the pipeline that   *)
(* was active when it arrived (match, route, fault, simulation, script,    *)
(* forward) and through the HTTP adapter's answer, while rebuilds swap the *)
(* pipeline, the kill switch is flipped and scenario phases change the     *)
(* overlay.                                                                *)
(*                                                                         *)
(* Requests share the kill switch, the overlay, and the retry counter of   *)
(* the pipeline they run in; every access to one of these is a step of its *)
(* own.  Bodies, delays and status codes are left out.                     *)
(***************************************************************************)
EXTENDS RuleMatching

CONSTANTS
    Requests,     \* request handlers
    Arrivals,     \* what a request may look like
    Configs,      \* configurations a pipeline may be built from
    Overlays,     \* scenario phases: [rules, profile]
    FullWeight,   \* what the weights of a rule's buckets sum up to: 100
    MaxBuilds,    \* bound on pipelines built
    MaxTime       \* bound on the clock

NoProfile == ""
NoOverlay == [profile |-> NoProfile, rules |-> {}]

Pairs == {pairs \in SUBSET (STRING \X STRING) : IsFiniteSet(pairs)}

Buckets == [weight : Nat \ {0}, action : {"simulate", "forward"}, simulation : STRING,
            profile : STRING]
Rules == [id : STRING, disabled : BOOLEAN, protocol : STRING, method : STRING,
          path : Seq(STRING) \ {AnyPath}, headers : Pairs, query : Pairs, body : Pairs,
          buckets : Seq(Buckets)]
FaultTypes == {"jitter", "error", "slowBody", "hang", "reset", "halfResponse", "retryStorm"}
Faults == [type : FaultTypes, probability : {"never", "sometimes", "always"},
           keyBy : STRING, failFirst : Nat, window : Nat]
Profiles == [enabled : BOOLEAN, faults : Seq(Faults) \ {<< >>}]

FaultsOf(c) == UNION {ToSet(c.profiles[p].faults) : p \in DOMAIN c.profiles}
StormFaults(c) == {f \in FaultsOf(c) : f.type = "retryStorm"}

(* What Rule.Validate, FaultProfile.Validate and Fault.Validate let pass,  *)
(* as far as it matters here.                                              *)
ASSUME PipelineAssumption ==
    /\ {FullWeight, MaxBuilds} \subseteq Nat \ {0} /\ MaxTime \in Nat
    /\ \A c \in Configs :
          /\ c.rules \in Seq(Rules)
          /\ \A i \in DOMAIN c.rules : TotalWeight(c.rules[i].buckets) = FullWeight
          /\ c.simulations \subseteq STRING
          /\ \A p \in DOMAIN c.profiles : c.profiles[p] \in Profiles
          /\ \A f \in StormFaults(c) : {f.failFirst, f.window} \subseteq Nat \ {0}
    /\ Arrivals \subseteq [protocol : STRING, method : STRING, path : Seq(STRING),
                           headers : Pairs, query : Pairs, body : Pairs]
    /\ Overlays \subseteq [rules : SUBSET STRING, profile : STRING]

VARIABLES
    builds,    \* configurations of the pipelines built so far; the last is active
    retry,     \* retry[g][key]: the entry of key in the retry counter of pipeline g
    halted,    \* KillSwitch.halted
    overlay,   \* the active phase of ScenarioController, or NoOverlay
    now,       \* the clock, in seconds
    ctx,       \* the PipelineContext of each request, and where it stands
    quiet,     \* history of a request that is not done: the switch was halted from
               \* its arrival until its fault stage decided on a profile, or so far
    overlays,  \* history of such a request: the overlays there were during that time
    storms     \* history: failures by retry storms, per pipeline and key

chaosVars == <<halted, overlay>>
historyVars == <<quiet, overlays, storms>>
vars == <<builds, retry, now, ctx, chaosVars, historyVars>>

Current == Len(builds)

(* retryKey: the path, or the value of a header. *)
RetryKey(f, q) ==
    IF f.keyBy = "path" THEN <<"path", q.path>>
                        ELSE <<"header", {h \in q.headers : h[1] = f.keyBy}>>

Keys == {RetryKey(f, q) : f \in UNION {FaultsOf(c) : c \in Configs}, q \in Arrivals}

NoEntry == [count |-> 0, start |-> 0]
NewCounter == [k \in Keys |-> NoEntry]

NoRequest == [at |-> "free"]

Init ==
    /\ \E c \in Configs : builds = <<c>>
    /\ retry = <<NewCounter>>
    /\ halted = FALSE
    /\ overlay = NoOverlay
    /\ now = 0
    /\ ctx = [r \in Requests |-> NoRequest]
    /\ quiet = [r \in Requests |-> FALSE]
    /\ overlays = [r \in Requests |-> {}]
    /\ storms = {}

-----------------------------------------------------------------------------
(* What goes on around the requests. *)

Undecided(r) == ctx[r].at \in {"switch", "overlay"}

(* Variant: the new pipeline gets no retry counter. *)
RebuildWithoutCounter(c) ==
    /\ Len(builds) < MaxBuilds
    /\ builds' = Append(builds, c)
    /\ UNCHANGED <<retry, now, ctx, chaosVars, historyVars>>

(* A rebuild swaps in new stages, and with them an empty retry counter. *)
Rebuild(c) ==
    /\ Len(builds) < MaxBuilds
    /\ builds' = Append(builds, c)
    /\ retry' = Append(retry, NewCounter)
    /\ UNCHANGED <<now, ctx, chaosVars, historyVars>>

Halt ==
    /\ ~halted
    /\ halted' = TRUE
    /\ UNCHANGED <<builds, retry, now, ctx, overlay, historyVars>>

Resume ==
    /\ halted
    /\ halted' = FALSE
    /\ quiet' = [r \in Requests |-> quiet[r] /\ ~Undecided(r)]
    /\ UNCHANGED <<builds, retry, now, ctx, overlay, overlays, storms>>

(* SetActive and Clear, called by scenario runners. *)
ChangeOverlay(o) ==
    /\ overlay # o
    /\ overlay' = o
    /\ overlays' = [r \in Requests |->
                       IF Undecided(r) THEN overlays[r] \union {o} ELSE overlays[r]]
    /\ UNCHANGED <<builds, retry, now, ctx, halted, quiet, storms>>

Tick ==
    /\ now < MaxTime
    /\ now' = now + 1
    /\ UNCHANGED <<builds, retry, ctx, chaosVars, historyVars>>

-----------------------------------------------------------------------------
(* The stages. *)

Config(c) == builds[c.gen]
Rule(c) == Config(c).rules[c.matched]

(* The stages that read nothing shared leave everything else as it is. *)
Local == UNCHANGED <<builds, retry, now, chaosVars, historyVars>>

(* A request the pipeline ends with an error is answered with 404. *)
Ended(c, answer) ==
    [at |-> "done", request |-> c.request, gen |-> c.gen, matched |-> c.matched,
     terminal |-> c.terminal, connFault |-> c.connFault, answer |-> answer]

(* The match stage. *)
Matched(c) == [c EXCEPT !.matched = FirstMatch(Config(c).rules, c.request)]

(* The routing stage, for every draw. *)
Routed(c) ==
    {LET bucket == Rule(c).buckets[SelectBucket(Rule(c).buckets, pick)]
     IN  [c EXCEPT !.profile = bucket.profile, !.simulation = bucket.simulation,
                   !.forward = bucket.action = "forward"] :
        pick \in 0 .. FullWeight - 1}

(* pipelineProxy.Execute takes the active pipeline for the whole request;  *)
(* its first two stages read nothing else that changes.                    *)
Arrive(r, q) ==
    LET new == [at |-> "switch", request |-> q, gen |-> Current, matched |-> NoRule,
                simulation |-> Unset, forward |-> FALSE, profile |-> NoProfile,
                nextFault |-> 1, terminal |-> FALSE, connFault |-> Unset,
                fault |-> Unset, response |-> Unset]
        c == Matched(new)
    IN  /\ ctx[r].at = "free"
        /\ ctx' \in {[ctx EXCEPT ![r] = d] :
                       d \in IF c.matched = NoRule THEN {Ended(c, "error")} ELSE Routed(c)}
        /\ IF c.matched = NoRule THEN UNCHANGED <<quiet, overlays>>
           ELSE /\ quiet' = [quiet EXCEPT ![r] = halted]
                /\ overlays' = [overlays EXCEPT ![r] = {overlay}]
        /\ UNCHANGED <<builds, retry, now, chaosVars, storms>>

(* Variant: the switch only covers the profiles of buckets. *)
CheckSwitchOfBucket(r) ==
    /\ ctx[r].at = "switch"
    /\ ctx' = [ctx EXCEPT ![r].at = "overlay",
                          ![r].profile = IF halted THEN NoProfile ELSE @]
    /\ Local

(* The fault stage, first the kill switch. *)
CheckSwitch(r) ==
    /\ ctx[r].at = "switch"
    /\ ctx' = [ctx EXCEPT ![r].at = IF halted THEN "rest" ELSE "overlay"]
    /\ Local

(* The profile in force for a rule under an overlay. *)
Effective(o, ruleId, profile) == IF ruleId \in o.rules THEN o.profile ELSE profile

FaultsIn(c, profile) ==
    IF profile \in DOMAIN c.profiles /\ c.profiles[profile].enabled
      THEN c.profiles[profile].faults ELSE << >>

(* Variant: a recovery phase leaves the profile of the bucket in force. *)
ReadOverlayOfPhase(r) ==
    /\ ctx[r].at = "overlay"
    /\ ctx' = [ctx EXCEPT ![r].at = "fault",
                          ![r].profile = IF overlay.profile = NoProfile THEN @
                                         ELSE Effective(overlay, Rule(ctx[r]).id, @)]
    /\ Local

ReadOverlay(r) ==
    /\ ctx[r].at = "overlay"
    /\ ctx' = [ctx EXCEPT ![r].at = "fault",
                          ![r].profile = Effective(overlay, Rule(ctx[r]).id, @)]
    /\ Local

NextFault(r) == FaultsIn(Config(ctx[r]), ctx[r].profile)[ctx[r].nextFault]
FaultPending(r) ==
    /\ ctx[r].at = "fault"
    /\ ctx[r].nextFault \in DOMAIN FaultsIn(Config(ctx[r]), ctx[r].profile)

FaultsDone(r) ==
    /\ ctx[r].at = "fault"
    /\ ~FaultPending(r)
    /\ ctx' = [ctx EXCEPT ![r].at = "rest"]
    /\ Local

(* The roll goes against the fault. *)
FaultMisses(r) ==
    /\ FaultPending(r)
    /\ NextFault(r).probability # "always"
    /\ ctx' = [ctx EXCEPT ![r].nextFault = @ + 1]
    /\ Local

Hits(r, types) ==
    /\ FaultPending(r)
    /\ NextFault(r).type \in types
    /\ NextFault(r).probability # "never"

(* jitter and slowBody: the next fault is rolled too. *)
ModifierHits(r) ==
    /\ Hits(r, {"jitter", "slowBody"})
    /\ ctx' = [ctx EXCEPT ![r].fault = NextFault(r).type, ![r].nextFault = @ + 1]
    /\ Local

(* The first terminal fault keeps the later stages from doing anything. *)
ShortCircuited(c, f) ==
    [c EXCEPT !.at = "rest", !.fault = f.type, !.terminal = TRUE,
              !.forward = FALSE, !.simulation = Unset]

ErrorHits(r) ==
    /\ Hits(r, {"error"})
    /\ ctx' = [ctx EXCEPT ![r] = [ShortCircuited(@, NextFault(r)) EXCEPT !.response = "fault"]]
    /\ Local

ConnFaultHits(r) ==
    /\ Hits(r, {"hang", "reset", "halfResponse"})
    /\ ctx' = [ctx EXCEPT ![r] = [ShortCircuited(@, NextFault(r))
                                    EXCEPT !.connFault = NextFault(r).type]]
    /\ Local

(* Variant: the request that opens a window is not counted. *)
CountedFromZero(e, f) ==
    IF e.count = 0 \/ now - e.start >= f.window
      THEN [count |-> 0, start |-> now]
      ELSE [e EXCEPT !.count = @ + 1]

(* shouldFail: the entry after this request was counted. *)
Counted(e, f) ==
    IF e.count = 0 \/ now - e.start >= f.window
      THEN [count |-> 1, start |-> now]
      ELSE [e EXCEPT !.count = @ + 1]

RetryStormHits(r) ==
    LET f == NextFault(r)
        g == ctx[r].gen
        key == RetryKey(f, ctx[r].request)
        entry == Counted(retry[g][key], f)
    IN  /\ Hits(r, {"retryStorm"})
        /\ retry' = [retry EXCEPT ![g][key] = entry]
        /\ IF entry.count <= f.failFirst
             THEN /\ ctx' = [ctx EXCEPT ![r] =
                        [ShortCircuited(@, f) EXCEPT !.response = "fault"]]
                  /\ storms' = storms \union
                        {[request |-> r, gen |-> g, key |-> key, at |-> now]}
             ELSE /\ ctx' = [ctx EXCEPT ![r].nextFault = @ + 1]
                  /\ UNCHANGED storms
        /\ UNCHANGED <<builds, now, chaosVars, quiet, overlays>>

(* Variant: the stage does not look for a terminal fault. *)
SimulateAnyway(c) ==
    IF c.forward THEN {c}
    ELSE {Ended(c, "error")} \union
         {[c EXCEPT !.response = "simulated"] :
             found \in Config(c).simulations \intersect {c.simulation}}

(* The simulation stage fails without its simulation, or when its body     *)
(* cannot be rendered.                                                     *)
Simulate(c) ==
    IF c.terminal \/ c.forward THEN {c}
    ELSE {Ended(c, "error")} \union
         {[c EXCEPT !.response = "simulated"] :
             found \in Config(c).simulations \intersect {c.simulation}}

(* The script of a simulation changes its response, or fails. *)
Script(c) ==
    {c} \union IF c.terminal \/ c.forward THEN {} ELSE {Ended(c, "error")}

(* The forward stage calls the upstream, which may fail. *)
Forward(c) ==
    IF c.terminal \/ ~c.forward THEN {c}
    ELSE {[c EXCEPT !.response = "upstream"], Ended(c, "error")}

(* Handler.ServeHTTP after the pipeline, with connfault.Handle: hang and   *)
(* reset close the connection, halfResponse writes a part of the response  *)
(* if there is one.                                                        *)
Answer(c) ==
    LET answer == IF c.connFault = "halfResponse" /\ c.response # Unset THEN "truncated"
                  ELSE IF c.connFault # Unset THEN "closed"
                  ELSE IF c.response = Unset THEN "noResponse" ELSE c.response
    IN  {Ended(c, answer)}

(* A stage does nothing for a request that has ended. *)
Then(contexts, Stage(_)) == UNION {IF c.at = "done" THEN {c} ELSE Stage(c) : c \in contexts}

(* The stages behind the fault stage read nothing that changes. *)
Finish(r) ==
    /\ ctx[r].at = "rest"
    /\ ctx' \in {[ctx EXCEPT ![r] = d] :
                   d \in Then(Then(Then(Simulate(ctx[r]), Script), Forward), Answer)}
    /\ quiet' = [quiet EXCEPT ![r] = FALSE]
    /\ overlays' = [overlays EXCEPT ![r] = {}]
    /\ UNCHANGED <<builds, retry, now, chaosVars, storms>>

Next ==
    \/ \E c \in Configs : Rebuild(c)
    \/ Halt
    \/ Resume
    \/ \E o \in Overlays \union {NoOverlay} : ChangeOverlay(o)
    \/ Tick
    \/ \E r \in Requests, q \in Arrivals : Arrive(r, q)
    \/ \E r \in Requests : CheckSwitch(r)
    \/ \E r \in Requests : ReadOverlay(r)
    \/ \E r \in Requests : FaultsDone(r)
    \/ \E r \in Requests : FaultMisses(r)
    \/ \E r \in Requests : ModifierHits(r)
    \/ \E r \in Requests : ErrorHits(r)
    \/ \E r \in Requests : ConnFaultHits(r)
    \/ \E r \in Requests : RetryStormHits(r)
    \/ \E r \in Requests : Finish(r)

Spec == Init /\ [][Next]_vars

-----------------------------------------------------------------------------
Stages == {"switch", "overlay", "fault", "rest", "done"}
Responses == {Unset, "fault", "simulated", "upstream"}
Answers == Responses \union {"error", "closed", "truncated", "noResponse"}

(* The shape of the pipelines, their retry counters and the contexts of    *)
(* the requests.                                                           *)
TypeOK ==
    /\ builds \in Seq(Configs) /\ Current \in 1 .. MaxBuilds
    /\ retry \in Seq([Keys -> [count : Nat, start : 0 .. MaxTime]])
    /\ Len(retry) = Current
    /\ halted \in BOOLEAN /\ overlay \in Overlays \union {NoOverlay}
    /\ now \in 0 .. MaxTime
    /\ quiet \in [Requests -> BOOLEAN]
    /\ overlays \in [Requests -> SUBSET (Overlays \union {NoOverlay})]
    /\ storms \subseteq [request : Requests, gen : 1 .. Current, key : Keys, at : 0 .. MaxTime]
    /\ \A r \in Requests :
          \/ ctx[r] = NoRequest
          \/ /\ ctx[r].at \in Stages
             /\ ctx[r].request \in Arrivals
             /\ ctx[r].gen \in 1 .. Current
             /\ ctx[r].matched \in DOMAIN Config(ctx[r]).rules \union {NoRule}
             /\ ctx[r].terminal \in BOOLEAN
             /\ IF ctx[r].at = "done" THEN ctx[r].answer \in Answers
                ELSE ctx[r].response \in Responses /\ ctx[r].forward \in BOOLEAN

Arrived(r) == ctx[r].at # "free"
Done(r) == ctx[r].at = "done"

(* The matched rule is enabled and matches, no other matching rule is more *)
(* specific, and among equally specific ones it is the first, in the       *)
(* configuration the request arrived to (sortBySpecificity, the match      *)
(* stage).                                                                 *)
MostSpecificWins ==
    \A r \in Requests :
        Arrived(r) =>
            LET rules == Config(ctx[r]).rules
                matching == {i \in DOMAIN rules : MatchRule(rules[i], ctx[r].request)}
                best == ctx[r].matched
            IN  IF matching = {} THEN best = NoRule
                ELSE /\ best \in matching
                     /\ \A i \in matching \ {best} :
                           \/ TupleMoreSpecific(SpecTuple(rules[best]), SpecTuple(rules[i]))
                           \/ SpecTuple(rules[best]) = SpecTuple(rules[i]) /\ best < i

(* In every pipeline a bucket is chosen by exactly as many draws as it has *)
(* weight, and every draw chooses one (selectBucket).                      *)
SharesMatch(buckets) ==
    LET chosen == [pick \in 0 .. FullWeight - 1 |-> SelectBucket(buckets, pick)]
    IN  \A b \in DOMAIN buckets :
            Cardinality({pick \in DOMAIN chosen : chosen[pick] = b}) = buckets[b].weight

FairConfigs ==
    {c \in Configs : \A i \in DOMAIN c.rules : SharesMatch(c.rules[i].buckets)}

SharesMatchWeights == ToSet(builds) \subseteq FairConfigs

(* A request that arrives while the switch is halted, and reaches its      *)
(* fault stage before it is resumed, has no fault injected, whatever       *)
(* scenarios do meanwhile (Halted is read before profile and overlay).     *)
HaltSuppressesFaults ==
    \A r \in Requests : Arrived(r) /\ ~Done(r) /\ quiet[r] => ctx[r].fault = Unset

(* A fault that is injected belongs to an enabled profile that was in      *)
(* force for the rule while the request ran: that of its bucket, or that   *)
(* of a phase; a recovery phase that lasts keeps a request from faults     *)
(* (Overlay, Execute of the fault stage).                                  *)
FaultsAreInForce ==
    \A r \in Requests :
        Arrived(r) /\ ~Done(r) /\ ctx[r].fault # Unset =>
            \E o \in overlays[r], b \in ToSet(Rule(ctx[r]).buckets) :
                \E f \in ToSet(FaultsIn(Config(ctx[r]), Effective(o, Rule(ctx[r]).id, b.profile))) :
                    f.type = ctx[r].fault

(* The pipeline hands every request it does not fail back with a response  *)
(* or a connection fault (the 500 of Handler.ServeHTTP is never sent), and *)
(* a terminal fault is all the client gets to see: no later stage answers  *)
(* in its place, fails the request or asks the upstream (the               *)
(* FaultShortCircuit checks of the stages).                                *)
PipelineAnswers ==
    \A r \in Requests :
        Done(r) =>
            /\ ctx[r].answer # "noResponse"
            /\ ctx[r].terminal => ctx[r].answer \in {"fault", "closed", "truncated"}

(* In the current window of a key, one pipeline fails no more requests     *)
(* than fail_first, whatever the interleaving of the requests              *)
(* (shouldFail).  Faults share the entry of a key whatever profile they    *)
(* are of, and must agree on the window, or one ends that of the other.    *)
OneWindow(c) == \A e, f \in StormFaults(c) : e.window = f.window

InWindow(g, k) ==
    {s \in storms : s.gen = g /\ s.key = k /\ s.at >= retry[g][k].start}

StormIsBounded ==
    \A s \in storms :
        OneWindow(builds[s.gen]) =>
            \E f \in StormFaults(builds[s.gen]) :
                Cardinality(InWindow(s.gen, s.key)) <= f.failFirst

-----------------------------------------------------------------------------
(* A promise of the documentation that the code does not keep.             *)

(* halfResponse writes the headers and a fraction of the body and then     *)
(* cuts the connection.  The fault stage comes before any stage that makes *)
(* a response and keeps them from making one.                              *)
HalfResponseIsTruncated ==
    \A r \in Requests :
        Done(r) /\ ctx[r].terminal /\ ctx[r].connFault = "halfResponse" =>
            ctx[r].answer = "truncated"
=============================================================================
