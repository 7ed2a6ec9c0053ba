------------------------- MODULE ControlPlane_proofs -------------------------
(***************************************************************************)
(* Proofs about ControlPlane, for any clients, applications, requests,     *)
(* imports, tables and budget, for any overlap of the handlers, and any    *)
(* failure of the store.  They rest on four invariants:                    *)
(*   - the paths: what a handler has still to do tells whether a reload is *)
(*     still to come;                                                      *)
(*   - the data: it tells what the handler has checked, of the store it    *)
(*     read and, while requests do not overlap, of the store as it is;     *)
(*   - the events: their captures bracket what the broker got of them, for *)
(*     any batches, whatever the admin API does to the event rules;        *)
(*   - the rebuilds: what is not live as it is stored will be read again,  *)
(*     by a handler still on its way, or is on record as unpublished.      *)
(***************************************************************************)
EXTENDS ControlPlane, TLAPS, FiniteSetTheorems, FunctionTheorems

-----------------------------------------------------------------------------
(* The steps a handler takes from its first write to its reload.           *)
LateSteps == {"cascade", "sweep", "bulk", "reload", "import", "scenarios",
              "eventRules", "respond", "sims", "profiles", "rule"}
Step == ReadSteps \union {"write"} \union LateSteps

(* A path ends in its only reload, has all its checks before its write,    *)
(* and a sweep only as the step that is under way.                         *)
Orderly(p) ==
    /\ p \in Seq(Step)
    /\ p # << >> => p[Len(p)] = "reload"
    /\ \A i \in 1 .. Len(p) : p[i] = "reload" => i = Len(p)
    /\ \A i, j \in 1 .. Len(p) : i < j /\ p[i] \notin ReadSteps => p[j] \in LateSteps
    /\ \A i \in 1 .. Len(p) : p[i] = "sweep" => i = 1

(* No cascade is being swept.                                              *)
Calm(p) == \A i \in 1 .. Len(p) : p[i] # "sweep"

(* The handler has written or is about to: it will reload.                 *)
Late(p) == p # << >> /\ \A i \in 1 .. Len(p) : p[i] \in LateSteps

(* What the proofs need of the type of a handler: it is a record.          *)
Shape(h) ==
    h = [f \in DOMAIN h |-> h[f]] /\ {"path", "cascade", "seen"} \subseteq DOMAIN h

HandlersTyped == handler = [c \in Clients |-> handler[c]] /\ \A c \in Clients : Shape(handler[c])

-----------------------------------------------------------------------------
(* Paths: their tails, what is put before them, and their heads.           *)
LEMMA TailOrderly ==
  ASSUME NEW p, Orderly(p), p # << >>, Head(p) # "reload"
  PROVE  /\ Orderly(Tail(p)) /\ Calm(Tail(p)) /\ Tail(p) # << >>
         /\ Head(p) \notin ReadSteps => Late(Tail(p))
<1>1. p \in Seq(Step)
  BY DEF Orderly
<1>2. Len(p) \in Nat \ {0} /\ Head(p) = p[1]
  BY <1>1
<1>3. Len(p) # 1
  BY <1>2 DEF Orderly
<1>4. Tail(p) \in Seq(Step)
  BY <1>1
<1>5. Len(Tail(p)) = Len(p) - 1
  BY <1>1
<1>6. \A i \in 1 .. Len(p) - 1 : Tail(p)[i] = p[i + 1]
  BY <1>1
<1>7. Len(Tail(p)) \in Nat \ {0}
  BY <1>2, <1>3, <1>5
<1>8. Tail(p) # << >>
  <2>1. Len(<< >>) = 0
    OBVIOUS
  <2> QED
    BY <1>7, <2>1
<1> DEFINE t == Tail(p)
<1> HIDE DEF t
<1>9. t[Len(t)] = "reload"
  <2>1. Len(t) \in 1 .. Len(p) - 1 /\ Len(t) + 1 = Len(p)
    BY <1>2, <1>3, <1>5 DEF t
  <2>2. t[Len(t)] = p[Len(p)]
    BY <1>6, <2>1 DEF t
  <2> QED
    BY <2>2 DEF Orderly
<1>10. \A i \in 1 .. Len(t) : t[i] = "reload" => i = Len(t)
  <2> SUFFICES ASSUME NEW i \in 1 .. Len(t), t[i] = "reload" PROVE i = Len(t)
    OBVIOUS
  <2>1. i + 1 \in 1 .. Len(p) /\ p[i + 1] = "reload"
    BY <1>2, <1>5, <1>6 DEF t
  <2>2. i + 1 = Len(p)
    BY <2>1 DEF Orderly
  <2>3. i \in Nat /\ Len(t) = Len(p) - 1
    BY <1>5, <1>7 DEF t
  <2> QED
    BY <1>2, <2>2, <2>3
<1>11. \A i, j \in 1 .. Len(t) : i < j /\ t[i] \notin ReadSteps => t[j] \in LateSteps
  <2> SUFFICES ASSUME NEW i \in 1 .. Len(t), NEW j \in 1 .. Len(t), i < j, t[i] \notin ReadSteps
               PROVE  t[j] \in LateSteps
    OBVIOUS
  <2>1. /\ i + 1 \in 1 .. Len(p) /\ j + 1 \in 1 .. Len(p) /\ i + 1 < j + 1
        /\ t[i] = p[i + 1] /\ t[j] = p[j + 1]
    BY <1>2, <1>5, <1>6 DEF t
  <2> QED
    BY <2>1 DEF Orderly
<1>12. ASSUME p[1] \notin ReadSteps
       PROVE  \A i \in 1 .. Len(t) : t[i] \in LateSteps
  <2> SUFFICES ASSUME NEW i \in 1 .. Len(t) PROVE t[i] \in LateSteps
    OBVIOUS
  <2>1. i + 1 \in 1 .. Len(p) /\ 1 \in 1 .. Len(p) /\ 1 < i + 1 /\ t[i] = p[i + 1]
    BY <1>2, <1>5, <1>6 DEF t
  <2> QED
    BY <1>12, <2>1 DEF Orderly
<1>13. Calm(t)
  <2> SUFFICES ASSUME NEW i \in 1 .. Len(t) PROVE t[i] # "sweep"
    BY DEF Calm
  <2>1. i + 1 \in 1 .. Len(p) /\ i + 1 # 1 /\ t[i] = p[i + 1]
    BY <1>2, <1>5, <1>6 DEF t
  <2> QED
    BY <2>1 DEF Orderly
<1> QED
  BY <1>2, <1>4, <1>8, <1>9, <1>10, <1>11, <1>12, <1>13 DEF Orderly, Late, Calm, t

LEMMA PrefixOrderly ==
  ASSUME NEW p, Orderly(p), Late(p), Calm(p), NEW q \in Seq(LateSteps \ {"reload"}),
         \A i \in 1 .. Len(q) : q[i] = "sweep" => i = 1
  PROVE  /\ Orderly(q \o p) /\ Late(q \o p)
         /\ Calm(q) => Calm(q \o p)
<1>1. p \in Seq(Step) /\ q \in Seq(Step) /\ p # << >>
  BY DEF Orderly, Late, Step
<1>2. /\ q \o p \in Seq(Step) /\ Len(q \o p) = Len(q) + Len(p)
      /\ Len(p) \in Nat \ {0} /\ Len(q) \in Nat
      /\ \A i \in 1 .. Len(q) : (q \o p)[i] = q[i]
      /\ \A i \in Len(q) + 1 .. Len(q) + Len(p) : (q \o p)[i] = p[i - Len(q)]
  BY <1>1
<1>3. \A i \in 1 .. Len(q) : q[i] \in LateSteps \ {"reload"}
  OBVIOUS
<1> HIDE DEF LateSteps
<1>4. \A i \in 1 .. Len(q \o p) : (q \o p)[i] \in LateSteps
  <2> SUFFICES ASSUME NEW i \in 1 .. Len(q \o p) PROVE (q \o p)[i] \in LateSteps
    OBVIOUS
  <2>1. CASE i <= Len(q)
    BY <1>2, <1>3, <2>1
  <2>2. CASE i > Len(q)
    <3>1. i - Len(q) \in 1 .. Len(p)
      BY <1>2, <2>2
    <3> QED
      BY <1>2, <2>2, <3>1 DEF Late
  <2> QED
    BY <1>2, <2>1, <2>2
<1>5. \A i \in 1 .. Len(q \o p) : (q \o p)[i] = "reload" => i = Len(q \o p)
  <2> SUFFICES ASSUME NEW i \in 1 .. Len(q \o p), (q \o p)[i] = "reload" PROVE i = Len(q \o p)
    OBVIOUS
  <2>1. i > Len(q)
    BY <1>2, <1>3
  <2>2. i - Len(q) \in 1 .. Len(p) /\ p[i - Len(q)] = "reload"
    BY <1>2, <2>1
  <2>3. i - Len(q) = Len(p)
    BY <2>2 DEF Orderly
  <2> QED
    BY <1>2, <2>3
<1>6. (q \o p)[Len(q \o p)] = "reload"
  BY <1>1, <1>2 DEF Orderly
<1>7. \A i \in 1 .. Len(q \o p) : (q \o p)[i] = "sweep" => i \in 1 .. Len(q) /\ q[i] = "sweep"
  <2> SUFFICES ASSUME NEW i \in 1 .. Len(q \o p), (q \o p)[i] = "sweep"
               PROVE  i \in 1 .. Len(q) /\ q[i] = "sweep"
    OBVIOUS
  <2>1. CASE i <= Len(q)
    BY <1>2, <2>1
  <2>2. CASE i > Len(q)
    <3>1. i - Len(q) \in 1 .. Len(p) /\ p[i - Len(q)] = "sweep"
      BY <1>2, <2>2
    <3> QED
      BY <3>1 DEF Calm
  <2> QED
    BY <1>2, <2>1, <2>2
<1> QED
  BY <1>1, <1>2, <1>4, <1>5, <1>6, <1>7 DEF Orderly, Late, Calm

LEMMA HeadTells ==
  ASSUME NEW p, Orderly(p), p # << >>
  PROVE  /\ Head(p) \in LateSteps => Late(p)
         /\ Head(p) \notin LateSteps => ~Late(p)
         /\ Head(p) # "sweep" => Calm(p)
<1>1. p \in Seq(Step)
  BY DEF Orderly
<1>2. 1 \in 1 .. Len(p) /\ Head(p) = p[1]
  BY <1>1
<1>3. ASSUME p[1] \in LateSteps, NEW i \in 1 .. Len(p) PROVE p[i] \in LateSteps
  <2>1. p[1] \notin ReadSteps
    BY <1>3 DEF LateSteps, ReadSteps
  <2>2. CASE i = 1
    BY <1>3, <2>2
  <2>3. CASE i # 1
    BY <1>2, <2>1, <2>3 DEF Orderly
  <2> QED
    BY <2>2, <2>3
<1>4. p[1] # "sweep" => Calm(p)
  BY DEF Orderly, Calm
<1> QED
  BY <1>2, <1>3, <1>4 DEF Late

(* The paths handlers start with, and the ends of one.                     *)
LEMMA EndsOrderly ==
  /\ Orderly(<< >>) /\ Calm(<< >>) /\ ~Late(<< >>)
  /\ Orderly(<<"reload">>) /\ Calm(<<"reload">>) /\ Late(<<"reload">>)
<1>1. << >> \in Seq(Step) /\ Len(<< >>) = 0
  OBVIOUS
<1>2. <<"reload">> \in Seq(Step) /\ Len(<<"reload">>) = 1 /\ <<"reload">>[1] = "reload"
  BY DEF Step, LateSteps
<1> QED
  BY <1>1, <1>2 DEF Orderly, Late, Calm, LateSteps

LEMMA ImportStepsOrderly == Orderly(ImportSteps) /\ Calm(ImportSteps)
BY DEF Orderly, Calm, ImportSteps, Step, ReadSteps, LateSteps

LEMMA StepsOrderly ==
  ASSUME NEW req \in Requests
  PROVE  Orderly(Steps(req)) /\ Calm(Steps(req))
<1> DEFINE Good(p) == Orderly(p) /\ Calm(p)
<1> USE DEF Orderly, Calm, Step, ReadSteps, LateSteps
<1>1. ASSUME NEW op \in {"post", "put", "delete", "deleteAll"} PROVE Good(RuleSteps(op))
  <2>1. CASE op = "post"
    BY <2>1 DEF RuleSteps
  <2>2. CASE op = "put"
    BY <2>2 DEF RuleSteps
  <2>3. CASE op = "delete"
    BY <2>3 DEF RuleSteps
  <2>4. CASE op = "deleteAll"
    BY <2>4 DEF RuleSteps
  <2> QED
    BY <2>1, <2>2, <2>3, <2>4
<1>2. \A op : Good(SimulationSteps(op)) /\ Good(EventRuleSteps(op))
  BY DEF SimulationSteps, EventRuleSteps
<1>3. ASSUME NEW op PROVE Good(ProfileSteps(op))
  <2>1. CASE op = "delete"
    BY <2>1 DEF ProfileSteps
  <2>2. CASE op # "delete"
    BY <2>2 DEF ProfileSteps
  <2> QED
    BY <2>1, <2>2
<1>4. ASSUME NEW op PROVE Good(ScenarioSteps(op))
  <2>1. CASE op = "delete"
    BY <2>1 DEF ScenarioSteps
  <2>2. CASE op # "delete"
    BY <2>2 DEF ScenarioSteps
  <2> QED
    BY <2>1, <2>2
<1> HIDE DEF Good, Orderly, Calm, Step, ReadSteps, LateSteps
<1>5. req.table \in Table /\ req.op \in {"post", "put", "delete", "deleteAll"}
  BY AdminAssumption
<1>6. Good(Steps(req))
  BY <1>1, <1>2, <1>3, <1>4, <1>5 DEF Steps, Table
<1> QED
  BY <1>6 DEF Good

-----------------------------------------------------------------------------
PathInv == HandlersTyped /\ \A c \in Clients : Orderly(handler[c].path)

(* What a cascade is about to delete, no rule it read refers to.           *)
SweepInv ==
    \A c \in Clients :
        At(c, "sweep") => handler[c].cascade \intersect ReferencedSims(handler[c].seen) = {}

IInv == PathInv /\ SweepInv

(* The step of one handler, to a path.                                     *)
Moves(c, p) ==
    /\ HandlersTyped'
    /\ handler'[c].path = p
    /\ \A d \in Clients \ {c} : handler'[d] = handler[d]

LEMMA MovesKeep ==
  ASSUME IInv, NEW c \in Clients, NEW p, Moves(c, p), Orderly(p)
  PROVE  /\ PathInv'
         /\ Calm(p) => SweepInv'
<1>1. PathInv'
  BY DEF IInv, PathInv, Moves
<1>2. ASSUME Calm(p), NEW d \in Clients, At(d, "sweep")'
      PROVE  (handler[d].cascade \intersect ReferencedSims(handler[d].seen) = {})'
  <2>1. CASE d = c
    <3>1. p # << >> /\ Head(p) = "sweep" /\ p \in Seq(Step)
      BY <1>2, <2>1 DEF At, Moves, Orderly
    <3>2. 1 \in 1 .. Len(p) /\ p[1] = "sweep"
      BY <3>1
    <3> QED
      BY <1>2, <3>2 DEF Calm
  <2>2. CASE d # c
    <3>1. handler'[d] = handler[d]
      BY <2>2 DEF Moves
    <3>2. At(d, "sweep")
      BY <1>2, <3>1 DEF At
    <3> QED
      BY <3>1, <3>2 DEF IInv, SweepInv, ReferencedSims
  <2> QED
    BY <2>1, <2>2
<1> QED
  BY <1>1, <1>2 DEF SweepInv

LEMMA CalmMoves ==
  ASSUME IInv, NEW c \in Clients, NEW p, Moves(c, p), Orderly(p), Calm(p)
  PROVE  IInv'
BY MovesKeep DEF IInv

(* One of a cascade.                                                       *)
LEMMA SweepMoves ==
  ASSUME IInv, NEW c \in Clients, NEW p, Moves(c, p), Orderly(p),
         handler'[c].cascade \intersect ReferencedSims(handler'[c].seen) = {}
  PROVE  IInv'
<1>1. ASSUME NEW d \in Clients, At(d, "sweep")'
      PROVE  (handler[d].cascade \intersect ReferencedSims(handler[d].seen) = {})'
  <2>1. CASE d = c
    BY <2>1 DEF ReferencedSims
  <2>2. CASE d # c
    <3>1. handler'[d] = handler[d]
      BY <2>2 DEF Moves
    <3>2. At(d, "sweep")
      BY <1>1, <3>1 DEF At
    <3> QED
      BY <3>1, <3>2 DEF IInv, SweepInv, ReferencedSims
  <2> QED
    BY <2>1, <2>2
<1> QED
  BY <1>1, MovesKeep DEF IInv, SweepInv

(* The path after a check, and after a write or a step of an import.       *)
LEMMA EarlySteps ==
  ASSUME IInv, NEW c \in Clients, NEW s \in ReadSteps \union {"write"}, At(c, s)
  PROVE  /\ ~Late(handler[c].path) /\ Orderly(handler[c].path) /\ Calm(handler[c].path)
         /\ Orderly(Tail(handler[c].path)) /\ Calm(Tail(handler[c].path))
<1>1. handler[c].path # << >> /\ Head(handler[c].path) = s /\ Orderly(handler[c].path)
  BY DEF At, IInv, PathInv
<1>2. s \notin LateSteps /\ s # "reload" /\ s # "sweep"
  BY DEF ReadSteps, LateSteps
<1> QED
  BY <1>1, <1>2, HeadTells, TailOrderly

LEMMA LaterSteps ==
  ASSUME IInv, NEW c \in Clients, NEW s \in LateSteps \ {"reload"}, At(c, s)
  PROVE  /\ Orderly(handler[c].path) /\ Late(handler[c].path)
         /\ s # "sweep" => Calm(handler[c].path)
         /\ Orderly(Tail(handler[c].path)) /\ Late(Tail(handler[c].path))
         /\ Calm(Tail(handler[c].path))
<1>1. handler[c].path # << >> /\ Head(handler[c].path) = s /\ Orderly(handler[c].path)
  BY DEF At, IInv, PathInv
<1>2. s \notin ReadSteps /\ s # "reload"
  BY DEF ReadSteps, LateSteps
<1> QED
  BY <1>1, <1>2, HeadTells, TailOrderly

-----------------------------------------------------------------------------
(* Every step keeps the invariant.                                         *)
LEMMA InvInit == Init => IInv
<1> SUFFICES ASSUME Init PROVE IInv
  OBVIOUS
<1>1. handler = [c \in Clients |-> Idle]
  BY DEF Init, AdminInit
<1>2. Idle.path = << >> /\ Shape(Idle)
  BY DEF Idle, Shape
<1> QED
  BY <1>1, <1>2, EndsOrderly DEF IInv, PathInv, SweepInv, At, HandlersTyped

LEMMA ArriveKeeps ==
  ASSUME IInv, NEW c \in Clients, NEW req, NEW path, Orderly(path), Calm(path), Arrive(c, req, path)
  PROVE  IInv'
<1>1. Moves(c, path)
  <2>1. Shape([Idle EXCEPT !.path = path, !.req = req])
        /\ [Idle EXCEPT !.path = path, !.req = req].path = path
    BY DEF Idle, Shape
  <2> QED
    BY <2>1 DEF Arrive, Moves, IInv, PathInv, HandlersTyped
<1> QED
  BY <1>1, CalmMoves

(* Whatever else a step changes of its handler, these are the paths.       *)
LEMMA Turns ==
  ASSUME IInv, NEW c \in Clients, NEW h, Shape(h), handler' = [handler EXCEPT ![c] = h]
  PROVE  Moves(c, h.path)
BY DEF Moves, IInv, PathInv, HandlersTyped

LEMMA Stops ==
  ASSUME IInv, NEW c \in Clients, handler' = [handler EXCEPT ![c] = Idle]
  PROVE  IInv'
<1>1. Idle.path = << >> /\ Shape(Idle)
  BY DEF Idle, Shape
<1> QED
  BY <1>1, Turns, EndsOrderly, CalmMoves

LEMMA CheckMoves ==
  ASSUME IInv, NEW c \in Clients, NEW passes, Check(c, passes), NEW s \in ReadSteps, At(c, s)
  PROVE  IInv'
<1>1. Orderly(Tail(handler[c].path)) /\ Calm(Tail(handler[c].path))
  BY EarlySteps
<1>2. CASE passes
  <2> DEFINE h == [handler[c] EXCEPT !.path = Tail(@)]
  <2>1. handler' = [handler EXCEPT ![c] = h]
    BY <1>2 DEF Check
  <2>2. Shape(h) /\ h.path = Tail(handler[c].path)
    BY DEF IInv, PathInv, HandlersTyped, Shape
  <2> HIDE DEF h
  <2>3. Moves(c, Tail(handler[c].path))
    BY <2>1, <2>2, Turns
  <2> QED
    BY <1>1, <2>3, CalmMoves
<1>3. CASE ~passes
  BY <1>3, Stops DEF Check
<1> QED
  BY <1>2, <1>3

-----------------------------------------------------------------------------
(* The handlers of the admin API.                                          *)
LEMMA ReadingKeeps ==
  ASSUME IInv, NEW c \in Clients,
         \/ CheckRuleRefs(c) \/ CheckProfileRef(c) \/ CheckRefsDone(c) \/ CheckDuplicates(c)
         \/ CheckExists(c) \/ CheckUnused(c) \/ ReadOwned(c) \/ ListRules(c) \/ ReadFails(c)
         \/ ValidateImport(c) \/ ReadStored(c)
  PROVE  IInv'
<1> DEFINE rest == Tail(handler[c].path)
<1>0. \A s \in ReadSteps :
          At(c, s) => /\ Orderly(rest) /\ Calm(rest)
                      /\ Orderly(handler[c].path) /\ Calm(handler[c].path)
  BY EarlySteps
<1>1. {"ruleRefs", "refs", "duplicates", "exists", "guard", "owned", "list", "validate", "stored"}
        = ReadSteps
  BY DEF ReadSteps
<1>2. CASE CheckRuleRefs(c) \/ CheckRefsDone(c) \/ CheckExists(c) \/ CheckUnused(c)
           \/ ValidateImport(c)
  BY <1>1, <1>2, CheckMoves
     DEF CheckRuleRefs, CheckRefsDone, CheckExists, CheckUnused, ValidateImport
<1>3. CASE CheckDuplicates(c)
  <2>1. CASE FindDuplicates(store.rules, handler[c].req.row) = {}
    <3> DEFINE h == [handler[c] EXCEPT !.path = Tail(@), !.stored = store.rules]
    <3>1. handler' = [handler EXCEPT ![c] = h]
      BY <1>3, <2>1 DEF CheckDuplicates
    <3>2. Shape(h) /\ h.path = rest
      BY DEF IInv, PathInv, HandlersTyped, Shape
    <3> HIDE DEF h
    <3>3. Moves(c, rest)
      BY <3>1, <3>2, Turns
    <3> QED
      BY <1>0, <1>1, <1>3, <3>3, CalmMoves DEF CheckDuplicates
  <2>2. CASE FindDuplicates(store.rules, handler[c].req.row) # {}
    BY <1>3, <2>2, Stops DEF CheckDuplicates
  <2> QED
    BY <2>1, <2>2
<1>4. CASE CheckProfileRef(c)
  <2>1. PICK p \in handler[c].req.row.profiles \ handler[c].checked :
            handler' = [handler EXCEPT ![c] =
                IF HasRow(store.profiles, p)
                THEN [handler[c] EXCEPT !.checked = handler[c].checked \union {p}]
                ELSE Idle]
    BY <1>4 DEF CheckProfileRef
  <2>2. CASE HasRow(store.profiles, p)
    <3> DEFINE h == [handler[c] EXCEPT !.checked = @ \union {p}]
    <3>1. handler' = [handler EXCEPT ![c] = h]
      BY <2>1, <2>2
    <3>2. Shape(h) /\ h.path = handler[c].path
      BY DEF IInv, PathInv, HandlersTyped, Shape
    <3> HIDE DEF h
    <3>3. Moves(c, handler[c].path)
      BY <3>1, <3>2, Turns
    <3> QED
      BY <1>0, <1>1, <1>4, <3>3, CalmMoves DEF CheckProfileRef
  <2>3. CASE ~HasRow(store.profiles, p)
    BY <2>1, <2>3, Stops
  <2> QED
    BY <2>2, <2>3
<1>5. CASE ReadOwned(c)
  <2>1. Moves(c, rest)
    BY <1>5 DEF ReadOwned, Moves, IInv, PathInv, HandlersTyped, Shape
  <2> QED
    BY <1>0, <1>1, <1>5, <2>1, CalmMoves DEF ReadOwned
<1>6. CASE ListRules(c)
  <2>1. Moves(c, rest)
    BY <1>6 DEF ListRules, Moves, IInv, PathInv, HandlersTyped, Shape
  <2> QED
    BY <1>0, <1>1, <1>6, <2>1, CalmMoves DEF ListRules
<1>7. CASE ReadFails(c)
  BY <1>7, Stops DEF ReadFails
<1>8. CASE ReadStored(c)
  <2>1. Moves(c, rest)
    BY <1>8 DEF ReadStored, Moves, IInv, PathInv, HandlersTyped, Shape
  <2> QED
    BY <1>0, <1>1, <1>8, <2>1, CalmMoves DEF ReadStored
<1> QED
  BY <1>2, <1>3, <1>4, <1>5, <1>6, <1>7, <1>8

LEMMA WritingKeeps ==
  ASSUME IInv, NEW c \in Clients,
         Write(c) \/ WriteMissing(c) \/ WriteFails(c)
  PROVE  IInv'
<1> DEFINE rest == Tail(handler[c].path)
<1>1. CASE Write(c)
  <2>1. Moves(c, rest)
    BY <1>1 DEF Write, Moves, IInv, PathInv, HandlersTyped, Shape
  <2>2. Orderly(rest) /\ Calm(rest)
    BY <1>1, EarlySteps DEF Write
  <2> QED
    BY <2>1, <2>2, CalmMoves
<1>2. CASE WriteMissing(c)
  BY <1>2, Stops DEF WriteMissing
<1>3. CASE WriteFails(c)
  BY <1>3, Stops DEF WriteFails, Abandon
<1> QED
  BY <1>1, <1>2, <1>3

LEMMA BulkKeeps ==
  ASSUME IInv, NEW c \in Clients,
         BulkDelete(c) \/ BulkDone(c) \/ BulkFails(c) \/ BulkMissing(c)
  PROVE  IInv'
<1> DEFINE path == handler[c].path
<1>1. /\ Orderly(path) /\ Late(path) /\ Calm(path)
      /\ Orderly(Tail(path)) /\ Late(Tail(path)) /\ Calm(Tail(path))
  <2>1. At(c, "bulk") /\ "bulk" \in LateSteps \ {"reload"}
    BY DEF BulkDelete, BulkDone, BulkFails, BulkMissing, LateSteps
  <2> QED
    BY <2>1, LaterSteps
<1>2. CASE BulkDelete(c)
  <2>1. <<"cascade">> \in Seq(LateSteps \ {"reload"}) /\ Calm(<<"cascade">>)
    BY DEF LateSteps, Calm
  <2>2. /\ Orderly(<<"cascade">> \o path) /\ Late(<<"cascade">> \o path)
        /\ Calm(<<"cascade">> \o path)
    BY <1>1, <2>1, PrefixOrderly DEF Calm
  <2>3. Moves(c, <<"cascade">> \o path)
    BY <1>2 DEF BulkDelete, Moves, IInv, PathInv, HandlersTyped, Shape
  <2> QED
    BY <2>2, <2>3, CalmMoves
<1>3. CASE BulkDone(c)
  <2>1. Moves(c, Tail(path))
    BY <1>3 DEF BulkDone, Moves, IInv, PathInv, HandlersTyped, Shape
  <2> QED
    BY <1>1, <2>1, CalmMoves
<1>4. CASE BulkFails(c) \/ BulkMissing(c)
  BY <1>4, Stops DEF BulkFails, BulkMissing, Abandon
<1> QED
  BY <1>2, <1>3, <1>4

LEMMA CascadeKeeps ==
  ASSUME IInv, NEW c \in Clients,
         \/ CascadeRead(c) \/ CascadeReadFails(c)
         \/ CascadeDelete(c) \/ CascadeDeleteFails(c) \/ CascadeDone(c)
  PROVE  IInv'
<1> DEFINE path == handler[c].path
<1>1. /\ Orderly(path) /\ Late(path)
      /\ Orderly(Tail(path)) /\ Late(Tail(path)) /\ Calm(Tail(path))
  <2>1. \E s \in LateSteps \ {"reload"} : At(c, s)
    BY DEF CascadeRead, CascadeReadFails, CascadeDelete, CascadeDeleteFails, CascadeDone, LateSteps
  <2> QED
    BY <2>1, LaterSteps
<1> USE DEF Moves, IInv, PathInv, HandlersTyped, Shape
<1>2. CASE CascadeRead(c)
  <2>1. /\ <<"sweep">> \in Seq(LateSteps \ {"reload"})
        /\ \A i \in 1 .. Len(<<"sweep">>) : i = 1
    BY DEF LateSteps
  <2>2. Orderly(<<"sweep">> \o Tail(path)) /\ Late(<<"sweep">> \o Tail(path))
    BY <1>1, <2>1, PrefixOrderly
  <2>3. Moves(c, <<"sweep">> \o Tail(path))
    BY <1>2 DEF CascadeRead
  <2>4. /\ handler'[c].seen = store.rules
        /\ handler'[c].cascade = handler[c].cascade \ ReferencedSims(store.rules)
    BY <1>2 DEF CascadeRead
  <2>5. handler'[c].cascade \intersect ReferencedSims(handler'[c].seen) = {}
    BY <2>4
  <2> QED
    BY <2>2, <2>3, <2>5, SweepMoves
<1>3. CASE CascadeReadFails(c)
  <2>1. Moves(c, Tail(path))
    BY <1>3 DEF CascadeReadFails
  <2> QED
    BY <1>1, <2>1, CalmMoves
<1>4. CASE CascadeDelete(c)
  <2>1. PICK s : handler' = [handler EXCEPT ![c].cascade = @ \ {s}]
    BY <1>4 DEF CascadeDelete
  <2>2. Moves(c, path)
    BY <2>1
  <2>3. /\ handler'[c].seen = handler[c].seen
        /\ handler'[c].cascade = handler[c].cascade \ {s}
    BY <2>1
  <2>4. handler[c].cascade \intersect ReferencedSims(handler[c].seen) = {}
    BY <1>4 DEF CascadeDelete, SweepInv
  <2>5. handler'[c].cascade \intersect ReferencedSims(handler'[c].seen) = {}
    BY <2>3, <2>4
  <2> QED
    BY <1>1, <2>2, <2>5, SweepMoves
<1>5. CASE CascadeDeleteFails(c)
  <2>1. PICK s : handler' = [handler EXCEPT ![c].cascade = @ \ {s}]
    BY <1>5 DEF CascadeDeleteFails
  <2>2. Moves(c, path)
    BY <2>1
  <2>3. /\ handler'[c].seen = handler[c].seen
        /\ handler'[c].cascade = handler[c].cascade \ {s}
    BY <2>1
  <2>4. handler[c].cascade \intersect ReferencedSims(handler[c].seen) = {}
    BY <1>5 DEF CascadeDeleteFails, SweepInv
  <2>5. handler'[c].cascade \intersect ReferencedSims(handler'[c].seen) = {}
    BY <2>3, <2>4
  <2> QED
    BY <1>1, <2>2, <2>5, SweepMoves
<1>6. CASE CascadeDone(c)
  <2>1. Moves(c, Tail(path))
    BY <1>6 DEF CascadeDone
  <2> QED
    BY <1>1, <2>1, CalmMoves
<1> QED
  BY <1>2, <1>3, <1>4, <1>5, <1>6

LEMMA ReloadKeeps ==
  ASSUME IInv, NEW c \in Clients, LoadTable(c) \/ RebuildFails(c) \/ Swap(c)
  PROVE  IInv'
<1>1. CASE LoadTable(c)
  BY <1>1 DEF LoadTable, IInv, PathInv, SweepInv, At, HandlersTyped
<1>2. CASE RebuildFails(c) \/ Swap(c)
  BY <1>2, Stops DEF RebuildFails, Swap, Abandon
<1> QED
  BY <1>1, <1>2

LEMMA AdminKeeps ==
  ASSUME IInv, NEW c \in Clients, AdminStep(c)
  PROVE  IInv'
<1>1. CASE Receive(c)
  BY <1>1, StepsOrderly, ArriveKeeps DEF Receive
<1> QED
  BY <1>1, ReadingKeeps, WritingKeeps, BulkKeeps, CascadeKeeps, ReloadKeeps DEF AdminStep

-----------------------------------------------------------------------------
(* The import.                                                             *)
LEMMA ImportEndsKeeps ==
  ASSUME IInv, NEW c \in Clients, NEW st, NEW wrote, NEW tables, ImportEnds(c, st, wrote, tables)
  PROVE  IInv'
<1>1. CASE wrote
  <2> DEFINE h == [Idle EXCEPT !.path = <<"reload">>]
  <2>1. handler' = [handler EXCEPT ![c] = h]
    BY <1>1 DEF ImportEnds
  <2>2. Shape(h) /\ h.path = <<"reload">>
    BY DEF Idle, Shape
  <2> HIDE DEF h
  <2>3. Moves(c, <<"reload">>)
    BY <2>1, <2>2, Turns
  <2> QED
    BY <2>3, CalmMoves, EndsOrderly
<1>2. CASE ~wrote
  BY <1>2, Stops DEF ImportEnds, Abandon
<1> QED
  BY <1>1, <1>2

LEMMA ImportLoopKeeps ==
  ASSUME IInv, NEW c \in Clients,
         ImportSkips(c) \/ ImportSaves(c) \/ ImportOverrides(c) \/ ImportRulesDone(c)
  PROVE  IInv'
<1> DEFINE path == handler[c].path
<1>1. /\ Orderly(path) /\ Late(path) /\ Calm(path)
      /\ Orderly(Tail(path)) /\ Late(Tail(path)) /\ Calm(Tail(path))
  <2>1. At(c, "import") /\ "import" \in LateSteps \ {"reload"}
    BY DEF ImportSkips, ImportSaves, ImportOverrides, ImportRulesDone, Importing, LateSteps
  <2> QED
    BY <2>1, LaterSteps
<1>2. CASE ImportSkips(c)
  <2>1. Moves(c, path)
    BY <1>2 DEF ImportSkips, Moves, IInv, PathInv, HandlersTyped, Shape
  <2> QED
    BY <1>1, <2>1, CalmMoves
<1>3. /\ SaveSteps \in Seq(LateSteps \ {"reload"}) /\ Calm(SaveSteps)
      /\ <<"cascade">> \o SaveSteps \in Seq(LateSteps \ {"reload"})
      /\ Calm(<<"cascade">> \o SaveSteps)
  <2> DEFINE CalmSteps == LateSteps \ {"reload", "sweep"}
  <2>1. <<"cascade">> \in Seq(CalmSteps) /\ SaveSteps \in Seq(CalmSteps)
    BY DEF SaveSteps, LateSteps
  <2> HIDE DEF CalmSteps
  <2>2. <<"cascade">> \o SaveSteps \in Seq(CalmSteps)
    BY <2>1
  <2>3. ASSUME NEW q \in Seq(CalmSteps)
        PROVE  q \in Seq(LateSteps \ {"reload"}) /\ Calm(q)
    <3>1. \A i \in 1 .. Len(q) : q[i] \in CalmSteps
      OBVIOUS
    <3> QED
      BY <3>1 DEF CalmSteps, Calm
  <2> QED
    BY <2>1, <2>2, <2>3
<1> DEFINE save == SaveSteps \o path
           override == (<<"cascade">> \o SaveSteps) \o path
<1>4. /\ Orderly(save) /\ Late(save) /\ Calm(save)
      /\ Orderly(override) /\ Late(override) /\ Calm(override)
  BY <1>1, <1>3, PrefixOrderly DEF Calm
<1>5. CASE ImportSaves(c)
  <2>1. Moves(c, save)
    BY <1>5 DEF ImportSaves, Moves, IInv, PathInv, HandlersTyped, Shape
  <2> QED
    BY <1>4, <2>1, CalmMoves
<1>6. CASE ImportOverrides(c)
  <2>1. Moves(c, override)
    <3>1. PICK owned, cascade :
              handler' = [handler EXCEPT ![c].path    = override,
                                         ![c].owned   = owned,
                                         ![c].cascade = cascade,
                                         ![c].wrote   = TRUE]
      BY <1>6 DEF ImportOverrides
    <3> QED
      BY <3>1 DEF Moves, IInv, PathInv, HandlersTyped, Shape
  <2> QED
    BY <1>4, <2>1, CalmMoves
<1>7. CASE ImportRulesDone(c)
  <2>1. Moves(c, Tail(path))
    BY <1>7 DEF ImportRulesDone, Moves, IInv, PathInv, HandlersTyped, Shape
  <2> QED
    BY <1>1, <2>1, CalmMoves
<1> QED
  BY <1>2, <1>5, <1>6, <1>7

LEMMA ImportWritesKeeps ==
  ASSUME IInv, NEW c \in Clients,
         ImportWrite(c) \/ ImportOverrideFails(c) \/ ImportWriteFails(c) \/ ImportResponds(c)
  PROVE  IInv'
<1> DEFINE path == handler[c].path
<1>1. CASE ImportWrite(c)
  <2>1. \E s \in LateSteps \ {"reload"} : At(c, s)
    BY <1>1 DEF ImportWrite, ImportWrites, RuleSave, LateSteps
  <2>2. Orderly(Tail(path)) /\ Late(Tail(path)) /\ Calm(Tail(path))
    BY <2>1, LaterSteps
  <2>3. Moves(c, Tail(path))
    <3>1. PICK wrote, todo : handler' = [handler EXCEPT ![c].path  = Tail(path),
                                                        ![c].wrote = wrote,
                                                        ![c].todo  = todo]
      BY <1>1 DEF ImportWrite
    <3> QED
      BY <3>1 DEF Moves, IInv, PathInv, HandlersTyped, Shape
  <2> QED
    BY <2>2, <2>3, CalmMoves
<1>2. CASE ImportOverrideFails(c)
  BY <1>2, ImportEndsKeeps DEF ImportOverrideFails
<1>3. CASE ImportWriteFails(c)
  BY <1>3, ImportEndsKeeps DEF ImportWriteFails
<1>4. CASE ImportResponds(c)
  <2>1. Orderly(Tail(path)) /\ Late(Tail(path)) /\ Calm(Tail(path))
    BY <1>4, LaterSteps DEF ImportResponds, LateSteps
  <2>2. CASE handler[c].wrote
    <3> DEFINE h == [handler[c] EXCEPT !.path = Tail(@)]
    <3>1. handler' = [handler EXCEPT ![c] = h]
      BY <1>4, <2>2 DEF ImportResponds
    <3>2. Shape(h) /\ h.path = Tail(path)
      BY DEF IInv, PathInv, HandlersTyped, Shape
    <3> HIDE DEF h
    <3>3. Moves(c, Tail(path))
      BY <3>1, <3>2, Turns
    <3> QED
      BY <2>1, <3>3, CalmMoves
  <2>3. CASE ~handler[c].wrote
    BY <1>4, <2>3, Stops DEF ImportResponds
  <2> QED
    BY <2>2, <2>3
<1> QED
  BY <1>1, <1>2, <1>3, <1>4

LEMMA ImportKeeps ==
  ASSUME IInv, NEW c \in Clients, ImportStep(c)
  PROVE  IInv'
<1>1. CASE ReceiveImport(c)
  BY <1>1, ImportStepsOrderly, ArriveKeeps DEF ReceiveImport
<1> QED
  BY <1>1, ReadingKeeps, ImportLoopKeeps, ImportWritesKeeps DEF ImportStep

LEMMA InvStep == IInv /\ [Next]_vars => IInv'
<1> SUFFICES ASSUME IInv, [Next]_vars PROVE IInv'
  OBVIOUS
<1>1. ASSUME NEW a \in Apps, AppStep(a) PROVE UNCHANGED handler
  BY <1>1 DEF AppStep, Publish, Unmatched, Synthesize, Forward, ForwardFails, ForwardDone,
              ForwardFailed, Respond, adminVars
<1>2. ASSUME UNCHANGED handler PROVE IInv'
  BY <1>2 DEF IInv, PathInv, SweepInv, At, HandlersTyped
<1>3. UNCHANGED vars => UNCHANGED handler
  BY DEF vars, adminVars
<1> QED
  BY <1>1, <1>2, <1>3, AdminKeeps, ImportKeeps DEF Next

-----------------------------------------------------------------------------
(* The step of a client's handler leaves the others alone.                 *)
LEMMA StepsOwn ==
  ASSUME IInv, NEW c \in Clients, NEW d \in Clients, handler'[c] # handler[c],
         AdminStep(d) \/ ImportStep(d)
  PROVE  d = c
<1> SUFFICES ASSUME d # c PROVE handler'[c] = handler[c]
  OBVIOUS
<1> USE DEF IInv, PathInv, HandlersTyped
<1>1. CASE AdminStep(d)
  BY <1>1 DEF AdminStep, Receive, Arrive, Check, CheckRuleRefs, CheckProfileRef, CheckRefsDone,
              CheckDuplicates, CheckExists, CheckUnused, ReadOwned, ListRules, ReadFails,
              Write, WriteMissing, WriteFails, Abandon, BulkDelete, BulkDone, BulkFails,
              BulkMissing, CascadeRead, CascadeReadFails, CascadeDelete, CascadeDeleteFails,
              CascadeDone, LoadTable, RebuildFails, Swap
<1>2. CASE ImportStep(d)
  BY <1>2 DEF ImportStep, ReceiveImport, Arrive, ValidateImport, Check, ReadStored,
              ImportSkips, ImportSaves, ImportOverrides, ImportRulesDone, ImportWrite,
              ImportOverrideFails, ImportWriteFails, ImportEnds, Abandon, ImportResponds
<1> QED
  BY <1>1, <1>2

(* A handler in its cascade changes the store by deleting a simulation.    *)
LEMMA SweepingSteps ==
  ASSUME NEW c \in Clients, At(c, "sweep"), store' # store, AdminStep(c) \/ ImportStep(c)
  PROVE  CascadeDelete(c)
<1> SUFFICES ASSUME ~CascadeDelete(c) PROVE FALSE
  OBVIOUS
<1> USE DEF At
<1>1. CASE AdminStep(c)
  BY <1>1 DEF AdminStep, Receive, Arrive, Busy, Quiet, CheckRuleRefs, CheckProfileRef,
              CheckRefsDone, CheckDuplicates, CheckExists, CheckUnused, ReadOwned, ListRules,
              ReadFails, Write, WriteMissing, WriteFails, BulkDelete, BulkDone, BulkFails,
              BulkMissing, CascadeRead, CascadeReadFails, CascadeDeleteFails, CascadeDone,
              LoadTable, RebuildFails, Swap
<1>2. CASE ImportStep(c)
  BY <1>2 DEF ImportStep, ReceiveImport, Arrive, Busy, Quiet, ValidateImport, ReadStored,
              Importing, ImportSkips, ImportSaves, ImportOverrides, ImportRulesDone, ImportWrite,
              ImportWrites, RuleSave, ImportOverrideFails, ImportWriteFails, ImportResponds
<1> QED
  BY <1>1, <1>2

LEMMA DropDrops ==
  ASSUME NEW s, store' = [store EXCEPT !.sims = DropRow(@, s)]
  PROVE  IdsOf(store.sims) \ IdsOf(store'.sims) \subseteq {s}
<1>1. store'.sims = DropRow(store.sims, s) \/ store'.sims = store.sims
  BY DEF DropRow
<1> QED
  BY <1>1 DEF DropRow, IdsOf

(* The cascade (deleteSimulations) deletes a simulation that a stored rule *)
(* refers to only if that rule was not among those GetRules gave it, for   *)
(* any number of handlers that save rules beside it.                       *)
THEOREM CascadeCorrect == Spec => CascadeSparesReferenced
<1> DEFINE Spares ==
      \A c \in Clients :
          At(c, "sweep") /\ handler'[c] # handler[c] =>
              \A r \in store.rules :
                  r.sims \intersect (IdsOf(store.sims) \ IdsOf(store'.sims)) # {} =>
                      r \notin handler[c].seen
<1>1. IInv /\ [Next]_vars => [Spares]_vars
  <2> SUFFICES ASSUME IInv, Next, NEW c \in Clients, At(c, "sweep"), handler'[c] # handler[c],
                      NEW r \in store.rules,
                      r.sims \intersect (IdsOf(store.sims) \ IdsOf(store'.sims)) # {}
               PROVE  r \notin handler[c].seen
    OBVIOUS
  <2>1. store' # store
    OBVIOUS
  <2>2. \A a \in Apps : ~AppStep(a)
    BY <2>1 DEF AppStep, Publish, Unmatched, Synthesize, Forward, ForwardFails, ForwardDone,
                ForwardFailed, Respond, adminVars
  <2>3. PICK d \in Clients : AdminStep(d) \/ ImportStep(d)
    BY <2>2 DEF Next
  <2>4. d = c
    BY <2>3, StepsOwn
  <2>5. CascadeDelete(c)
    BY <2>1, <2>3, <2>4, SweepingSteps
  <2>6. PICK s \in handler[c].cascade : store' = [store EXCEPT !.sims = DropRow(@, s)]
    BY <2>5 DEF CascadeDelete
  <2>7. IdsOf(store.sims) \ IdsOf(store'.sims) \subseteq {s}
    BY <2>6, DropDrops
  <2>8. s \in r.sims
    BY <2>7
  <2>9. handler[c].cascade \intersect ReferencedSims(handler[c].seen) = {}
    BY DEF IInv, SweepInv
  <2> QED
    BY <2>6, <2>8, <2>9 DEF ReferencedSims
<1>2. Spec => [][Spares]_vars
  BY <1>1, InvInit, InvStep, PTL DEF Spec
<1> QED
  BY <1>2 DEF CascadeSparesReferenced

-----------------------------------------------------------------------------
(* What a handler knows.  The second invariant is about the data: it ties  *)
(* the steps a handler has still to take to what it has read and to the    *)
(* store.  Every path is a part of one order of the steps, so that the     *)
(* steps that are left tell those that are past.                           *)
Rank ==
    [ruleRefs |-> 0, refs |-> 1, duplicates |-> 2, exists |-> 3, guard |-> 4, owned |-> 5,
     list |-> 6, write |-> 7, cascade |-> 8, sweep |-> 9, sims |-> 10, profiles |-> 11, rule |-> 12,
     bulk |-> 13, validate |-> 14, stored |-> 15, import |-> 16, scenarios |-> 17,
     eventRules |-> 18, respond |-> 19, reload |-> 20]

(* A path in that order.                                                   *)
Ranked(p) ==
    /\ p \in Seq(DOMAIN Rank)
    /\ \A i, j \in 1 .. Len(p) : i < j => Rank[p[i]] < Rank[p[j]]

(* The steps that are left, the one under way included. *)
Left(h) == ToSet(h.path)

(* All the steps of a request, and of an import.                           *)
AdminSteps(req) == ToSet(Steps(req)) \union {"cascade", "sweep"}
TransferSteps == ToSet(ImportSteps) \union ToSet(SaveSteps) \union {"cascade", "sweep"}

HandlerFields ==
    {"path", "req", "checked", "stored", "seen", "owned", "cascade", "todo", "wrote"}

(* What every handler is like, however requests overlap: which steps go    *)
(* together, and which data belong to them.                                *)
Road(h) ==
    /\ h = [f \in HandlerFields |-> h[f]]
    /\ Ranked(h.path)
    /\ \/ Left(h) \subseteq {"reload"}
       \/ h.req \in Requests /\ Left(h) \subseteq AdminSteps(h.req)
       \/ h.req \in Imports /\ Left(h) \subseteq TransferSteps
    /\ Left(h) # {} => "reload" \in Left(h)
    /\ "owned" \in Left(h) => {"write", "cascade"} \subseteq Left(h)
    /\ "sweep" \in Left(h) => "cascade" \notin Left(h)
    /\ "sims" \in Left(h) => "rule" \in Left(h)
    /\ "rule" \in Left(h) => "import" \in Left(h) /\ "stored" \notin Left(h) /\ h.todo # << >>
    /\ h.todo \in Seq(ToSet(h.todo))

SavesRule(req) == req.table = "rules" /\ req.op \in {"post", "put"}

DropsProfile(req) == req.table = "profiles" /\ req.op = "delete"

(* The simulations of the rule that replaces another one.                  *)
Kept(h) == IF h.req.table = "rules" /\ h.req.op = "put" THEN h.req.row.sims ELSE {}

(* No simulation waits to be deleted but for a cascade; before the write,  *)
(* those the new rule drops do.                                            *)
CascadeKnown(h) ==
    /\ Left(h) \intersect {"cascade", "sweep"} = {} => h.cascade = {}
    /\ "write" \in Left(h) => h.owned \subseteq h.cascade \union Kept(h)

(* A rule about to be saved had no duplicate when the rules were read.     *)
UniqueKnown(h) ==
    "write" \in Left(h) /\ "duplicates" \notin Left(h) /\ SavesRule(h.req) =>
        FindDuplicates(h.stored, h.req.row) = {}

Known(h) == Road(h) /\ CascadeKnown(h) /\ UniqueKnown(h)

(* What a handler that is alone knows of the store between its checks and  *)
(* its write: no duplicate, references that resolve, as far as they are    *)
(* checked, a profile unused.                                              *)
UniqueNow(h, st) ==
    "write" \in Left(h) /\ "duplicates" \notin Left(h) /\ SavesRule(h.req) =>
        FindDuplicates(st.rules, h.req.row) = {}

RefsKnown(h, st) ==
    "write" \in Left(h) /\ SavesRule(h.req) =>
        IF "refs" \in Left(h) THEN h.checked \subseteq IdsOf(st.profiles)
                              ELSE FaultRefsResolve(h.req.row, st)

UnusedKnown(h, st) ==
    "write" \in Left(h) /\ "guard" \notin Left(h) /\ DropsProfile(h.req) =>
        h.req.row.id \notin ReferencedProfiles(st.rules)

(* Rules of a file that the validation has accepted: the profiles they     *)
(* refer to are in the file or stored, and no two have the same id or the  *)
(* same criteria.                                                          *)
Fits(list, cfg, st) ==
    /\ \A i \in 1 .. Len(list) : list[i].profiles \subseteq IdsOf(cfg.profiles \union st.profiles)
    /\ \A i, j \in 1 .. Len(list) :
           i < j => list[i].id # list[j].id /\ list[i].match # list[j].match

FileKnown(h, st) ==
    "stored" \in Left(h) /\ "validate" \notin Left(h) => Fits(h.req.config.rules, h.req.config, st)

(* In the loop of an import: of the rules still to come, the store has     *)
(* only what it had when the import read it.                               *)
LoopKnown(h, st) ==
    "import" \in Left(h) /\ "stored" \notin Left(h) =>
        /\ Fits(h.todo, h.req.config, st)
        /\ IdsOf(st.rules) \intersect IdsOf(ToSet(h.todo)) \subseteq IdsOf(h.stored)
        /\ \A y \in st.rules \ h.stored, r \in ToSet(h.todo) : y.match # r.match

(* While a rule of the file is being saved: the rule it replaces is gone,  *)
(* and once the profiles are written its references resolve.               *)
TurnKnown(h, st) ==
    "rule" \in Left(h) =>
        LET r == Head(h.todo)
        IN  /\ h.todo # << >>
            /\ ~HasRow(st.rules, r.id)
            /\ "profiles" \notin Left(h) => r.profiles \subseteq IdsOf(st.profiles)
            /\ \/ Conflicting(h.stored, r) = {}
               \/ \E ex \in Conflicting(h.stored, r) : ~HasRow(st.rules, ex.id)

(* The simulations of the rule that is being saved.                        *)
Coming(h) == IF "rule" \in Left(h) THEN Head(h.todo).sims ELSE {}

(* A simulation a removed rule owned, and that is still there, is about to *)
(* be deleted or referred to, now or by the rule that is being saved.      *)
OwnedKnown(h, st) ==
    "reload" \in Left(h) /\ "write" \notin Left(h) =>
        h.owned \intersect IdsOf(st.sims) \subseteq
            h.cascade \union ReferencedSims(st.rules) \union Coming(h)

(* The deletion of all rules has them as they are stored.                  *)
BulkKnown(h, st) ==
    "bulk" \in Left(h) /\ "list" \notin Left(h) =>
        \A r \in ToSet(h.todo), x \in st.rules : x.id = r.id => x = r

KnownOf(h, st) ==
    /\ RefsKnown(h, st) /\ UniqueNow(h, st) /\ UnusedKnown(h, st) /\ FileKnown(h, st)
    /\ LoopKnown(h, st) /\ TurnKnown(h, st) /\ BulkKnown(h, st)

(* The store: rules are told apart by their ids, and their profiles exist. *)
Keyed(rows) == IsFiniteSet(rows) /\ \A x, y \in rows : x.id = y.id => x = y

StoreOK(st) == st = [t \in Table |-> st[t]] /\ Keyed(st.rules)

Resolved(st) == \A r \in st.rules : FaultRefsResolve(r, st)

Alone == \A c, d \in Clients : Busy(c) /\ Busy(d) => c = d

(* The invariant.  What a handler has read holds of the store only while   *)
(* requests do not overlap; and only without failed calls is every         *)
(* simulation of a removed rule accounted for.                             *)
DataInv ==
    /\ failures \in Nat
    /\ StoreOK(store)
    /\ \A c \in Clients : Known(handler[c])
    /\ ~overlapped =>
           /\ Alone
           /\ Resolved(store)
           /\ \A c \in Clients : KnownOf(handler[c], store)
           /\ failures = 0 => \A c \in Clients : OwnedKnown(handler[c], store)

-----------------------------------------------------------------------------
(* The order of the steps.                                                 *)
LEMMA RankIs ==
  /\ Rank["ruleRefs"] = 0 /\ Rank["refs"] = 1 /\ Rank["duplicates"] = 2
  /\ Rank["exists"] = 3 /\ Rank["guard"] = 4
  /\ Rank["owned"] = 5 /\ Rank["list"] = 6 /\ Rank["write"] = 7 /\ Rank["cascade"] = 8
  /\ Rank["sweep"] = 9 /\ Rank["sims"] = 10 /\ Rank["profiles"] = 11 /\ Rank["rule"] = 12
  /\ Rank["bulk"] = 13 /\ Rank["validate"] = 14 /\ Rank["stored"] = 15
  /\ Rank["import"] = 16 /\ Rank["scenarios"] = 17 /\ Rank["eventRules"] = 18
  /\ Rank["respond"] = 19 /\ Rank["reload"] = 20
BY DEF Rank

LEMMA RanksAreNumbers ==
  /\ DOMAIN Rank = {"ruleRefs", "refs", "duplicates", "exists", "guard", "owned", "list", "write",
                    "cascade", "sweep", "sims", "profiles", "rule", "bulk", "validate", "stored", "import",
                    "scenarios", "eventRules", "respond", "reload"}
  /\ \A s \in DOMAIN Rank : Rank[s] \in Nat
<1>1. DOMAIN Rank = {"ruleRefs", "refs", "duplicates", "exists", "guard", "owned", "list", "write",
                    "cascade", "sweep", "sims", "profiles", "rule", "bulk", "validate", "stored", "import",
                    "scenarios", "eventRules", "respond", "reload"}
  BY DEF Rank
<1> QED
  BY <1>1, RankIs

LEMMA OnlySweepIsNinth ==
  ASSUME NEW t \in DOMAIN Rank, Rank[t] = 9
  PROVE  t = "sweep"
<1>1. \/ t \in {"ruleRefs", "refs", "duplicates", "exists", "guard", "owned", "list", "write"}
      \/ t \in {"cascade", "sweep", "sims", "profiles", "rule", "bulk", "validate"}
      \/ t \in {"stored", "import", "scenarios", "eventRules", "respond", "reload"}
  BY RanksAreNumbers
<1>2. CASE t \in {"ruleRefs", "refs", "duplicates", "exists", "guard", "owned", "list", "write"}
  BY <1>2, RankIs
<1>3. CASE t \in {"cascade", "sweep", "sims", "profiles", "rule", "bulk", "validate"}
  BY <1>3, RankIs
<1>4. CASE t \in {"stored", "import", "scenarios", "eventRules", "respond", "reload"}
  BY <1>4, RankIs
<1> QED
  BY <1>1, <1>2, <1>3, <1>4

(* Paths in that order: the tail, and steps put before.                    *)
LEMMA RankedTail ==
  ASSUME NEW p, Ranked(p), p # << >>
  PROVE  /\ Ranked(Tail(p))
         /\ Head(p) \in ToSet(p)
         /\ ToSet(Tail(p)) = ToSet(p) \ {Head(p)}
         /\ ToSet(p) \subseteq DOMAIN Rank
         /\ \A t \in ToSet(p) : t = Head(p) \/ Rank[Head(p)] < Rank[t]
<1>1. p \in Seq(DOMAIN Rank) /\ \A i, j \in 1 .. Len(p) : i < j => Rank[p[i]] < Rank[p[j]]
  BY DEF Ranked
<1> DEFINE t == Tail(p)
<1>2. /\ Len(p) \in Nat \ {0} /\ Head(p) = p[1] /\ DOMAIN p = 1 .. Len(p)
      /\ t \in Seq(DOMAIN Rank) /\ Len(t) = Len(p) - 1 /\ DOMAIN t = 1 .. Len(t)
      /\ \A i \in 1 .. Len(p) - 1 : t[i] = p[i + 1]
  BY <1>1
<1>3. \A i \in 1 .. Len(p) : p[i] \in DOMAIN Rank
  BY <1>1
<1> HIDE DEF t
<1>4. Ranked(t)
  <2> SUFFICES ASSUME NEW i \in 1 .. Len(t), NEW j \in 1 .. Len(t), i < j
               PROVE  Rank[t[i]] < Rank[t[j]]
    BY <1>2 DEF Ranked
  <2>1. /\ i + 1 \in 1 .. Len(p) /\ j + 1 \in 1 .. Len(p) /\ i + 1 < j + 1
        /\ t[i] = p[i + 1] /\ t[j] = p[j + 1]
    BY <1>2
  <2> QED
    BY <1>1, <2>1
<1>5. \A i \in 2 .. Len(p) : Rank[p[1]] < Rank[p[i]]
  BY <1>1, <1>2
<1>6. p[1] \in ToSet(p) /\ ToSet(p) \subseteq DOMAIN Rank
  BY <1>2, <1>3 DEF ToSet
<1>7. \A s \in ToSet(p) : s = p[1] \/ Rank[p[1]] < Rank[s]
  <2> SUFFICES ASSUME NEW i \in 1 .. Len(p) PROVE p[i] = p[1] \/ Rank[p[1]] < Rank[p[i]]
    BY <1>2 DEF ToSet
  <2> QED
    BY <1>2, <1>5
<1>8. ToSet(t) = ToSet(p) \ {p[1]}
  <2>1. ASSUME NEW i \in 1 .. Len(t) PROVE t[i] \in ToSet(p) \ {p[1]}
    <3>1. i + 1 \in 2 .. Len(p) /\ t[i] = p[i + 1]
      BY <1>2
    <3>2. Rank[p[1]] < Rank[p[i + 1]]
      BY <1>5, <3>1
    <3>3. 1 \in 1 .. Len(p) /\ i + 1 \in 1 .. Len(p)
      BY <1>2, <3>1
    <3>4. Rank[p[1]] \in Nat
      BY <1>3, <3>3, RanksAreNumbers
    <3>5. p[i + 1] # p[1]
      BY <3>2, <3>4
    <3>6. p[i + 1] \in ToSet(p)
      BY <1>2, <3>3 DEF ToSet
    <3> QED
      BY <3>1, <3>5, <3>6
  <2>2. ASSUME NEW i \in 1 .. Len(p), p[i] # p[1] PROVE p[i] \in ToSet(t)
    <3>1. i - 1 \in 1 .. Len(t) /\ t[i - 1] = p[i]
      BY <1>2, <2>2
    <3> QED
      BY <1>2, <3>1 DEF ToSet
  <2> QED
    BY <1>2, <2>1, <2>2 DEF ToSet
<1> QED
  BY <1>2, <1>4, <1>6, <1>7, <1>8 DEF t

LEMMA RankedPrefix ==
  ASSUME NEW p, Ranked(p), NEW q, Ranked(q),
         \A s \in ToSet(q), t \in ToSet(p) : Rank[s] < Rank[t]
  PROVE  Ranked(q \o p) /\ ToSet(q \o p) = ToSet(q) \union ToSet(p)
<1>1. p \in Seq(DOMAIN Rank) /\ q \in Seq(DOMAIN Rank)
  BY DEF Ranked
<1> DEFINE r == q \o p
<1>2. /\ r \in Seq(DOMAIN Rank) /\ Len(r) = Len(q) + Len(p) /\ DOMAIN r = 1 .. Len(r)
      /\ Len(p) \in Nat /\ Len(q) \in Nat /\ DOMAIN p = 1 .. Len(p) /\ DOMAIN q = 1 .. Len(q)
      /\ \A i \in 1 .. Len(q) : r[i] = q[i]
      /\ \A i \in Len(q) + 1 .. Len(q) + Len(p) : r[i] = p[i - Len(q)]
  BY <1>1
<1> HIDE DEF r
<1>3. \A i \in 1 .. Len(r) : IF i <= Len(q) THEN i \in 1 .. Len(q) /\ r[i] = q[i]
                                            ELSE i - Len(q) \in 1 .. Len(p) /\ r[i] = p[i - Len(q)]
  BY <1>2
<1>4. ASSUME NEW i \in 1 .. Len(r), NEW j \in 1 .. Len(r), i < j
      PROVE  Rank[r[i]] < Rank[r[j]]
  <2>1. CASE j <= Len(q)
    <3>1. i \in 1 .. Len(q) /\ j \in 1 .. Len(q) /\ r[i] = q[i] /\ r[j] = q[j]
      BY <1>2, <1>4, <2>1
    <3> QED
      BY <1>4, <3>1 DEF Ranked
  <2>2. CASE i > Len(q)
    <3>1. /\ i - Len(q) \in 1 .. Len(p) /\ j - Len(q) \in 1 .. Len(p) /\ i - Len(q) < j - Len(q)
          /\ r[i] = p[i - Len(q)] /\ r[j] = p[j - Len(q)]
      BY <1>2, <1>4, <2>2
    <3> QED
      BY <3>1 DEF Ranked
  <2>3. CASE i <= Len(q) /\ j > Len(q)
    <3>1. /\ i \in 1 .. Len(q) /\ r[i] = q[i]
          /\ j - Len(q) \in 1 .. Len(p) /\ r[j] = p[j - Len(q)]
      BY <1>2, <2>3
    <3>2. r[i] \in ToSet(q) /\ r[j] \in ToSet(p)
      BY <1>2, <3>1 DEF ToSet
    <3> QED
      BY <3>2
  <2> QED
    BY <1>2, <2>1, <2>2, <2>3
<1>5. ToSet(r) = ToSet(q) \union ToSet(p)
  <2>1. ASSUME NEW i \in 1 .. Len(r) PROVE r[i] \in ToSet(q) \union ToSet(p)
    BY <1>2, <1>3 DEF ToSet
  <2>2. ASSUME NEW i \in 1 .. Len(q) PROVE q[i] \in ToSet(r)
    <3>1. i \in 1 .. Len(r) /\ r[i] = q[i]
      BY <1>2
    <3> QED
      BY <1>2, <3>1 DEF ToSet
  <2>3. ASSUME NEW i \in 1 .. Len(p) PROVE p[i] \in ToSet(r)
    <3>1. Len(q) + i \in 1 .. Len(r) /\ r[Len(q) + i] = p[i]
      BY <1>2
    <3> QED
      BY <1>2, <3>1 DEF ToSet
  <2> QED
    BY <1>2, <2>1, <2>2, <2>3 DEF ToSet
<1> QED
  BY <1>2, <1>4, <1>5 DEF Ranked, r

(* The lists of steps as sets. *)
LEMMA StepSets ==
  /\ ToSet(SaveSteps) = {"sims", "profiles", "rule"}
  /\ ToSet(ImportSteps) = {"validate", "stored", "import", "scenarios", "eventRules",
                           "respond", "reload"}
  /\ ToSet(<< >>) = {} /\ ToSet(<<"cascade">>) = {"cascade"} /\ ToSet(<<"sweep">>) = {"sweep"}
  /\ ToSet(<<"reload">>) = {"reload"}
  /\ ToSet(<<"refs", "duplicates", "write", "reload">>) = {"refs", "duplicates", "write", "reload"}
  /\ ToSet(<<"refs", "duplicates", "owned", "write", "cascade", "reload">>)
       = {"refs", "duplicates", "owned", "write", "cascade", "reload"}
  /\ ToSet(<<"owned", "write", "cascade", "reload">>) = {"owned", "write", "cascade", "reload"}
  /\ ToSet(<<"list", "bulk", "reload">>) = {"list", "bulk", "reload"}
  /\ ToSet(<<"write", "reload">>) = {"write", "reload"}
  /\ ToSet(<<"exists", "guard", "write", "reload">>) = {"exists", "guard", "write", "reload"}
  /\ ToSet(<<"exists", "write", "reload">>) = {"exists", "write", "reload"}
  /\ ToSet(<<"ruleRefs", "refs", "exists", "write", "reload">>)
       = {"ruleRefs", "refs", "exists", "write", "reload"}
<1>1. ToSet(SaveSteps) = {"sims", "profiles", "rule"}
  BY DEF ToSet, SaveSteps
<1>2. ToSet(ImportSteps) = {"validate", "stored", "import", "scenarios", "eventRules",
                           "respond", "reload"}
  BY DEF ToSet, ImportSteps
<1>3. /\ ToSet(<< >>) = {} /\ ToSet(<<"cascade">>) = {"cascade"} /\ ToSet(<<"sweep">>) = {"sweep"}
      /\ ToSet(<<"reload">>) = {"reload"}
  BY DEF ToSet
<1>4. ToSet(<<"refs", "duplicates", "write", "reload">>) = {"refs", "duplicates", "write", "reload"}
  BY DEF ToSet
<1>5. ToSet(<<"refs", "duplicates", "owned", "write", "cascade", "reload">>)
       = {"refs", "duplicates", "owned", "write", "cascade", "reload"}
  BY DEF ToSet
<1>6. ToSet(<<"owned", "write", "cascade", "reload">>) = {"owned", "write", "cascade", "reload"}
  BY DEF ToSet
<1>7. /\ ToSet(<<"list", "bulk", "reload">>) = {"list", "bulk", "reload"}
      /\ ToSet(<<"write", "reload">>) = {"write", "reload"}
  BY DEF ToSet
<1>8. /\ ToSet(<<"exists", "guard", "write", "reload">>) = {"exists", "guard", "write", "reload"}
      /\ ToSet(<<"exists", "write", "reload">>) = {"exists", "write", "reload"}
  BY DEF ToSet
<1>9. ToSet(<<"ruleRefs", "refs", "exists", "write", "reload">>)
       = {"ruleRefs", "refs", "exists", "write", "reload"}
  BY DEF ToSet
<1> QED
  BY <1>1, <1>2, <1>3, <1>4, <1>5, <1>6, <1>7, <1>8, <1>9

(* The paths of the requests.                                              *)
LEMMA StepsAre ==
  ASSUME NEW req \in Requests
  PROVE  \/ /\ req.table = "rules" /\ req.op = "post"
            /\ Steps(req) = <<"refs", "duplicates", "write", "reload">>
         \/ /\ req.table = "rules" /\ req.op = "put"
            /\ Steps(req) = <<"refs", "duplicates", "owned", "write", "cascade", "reload">>
         \/ /\ req.table = "rules" /\ req.op = "delete"
            /\ Steps(req) = <<"owned", "write", "cascade", "reload">>
         \/ /\ req.table = "rules" /\ req.op = "deleteAll"
            /\ Steps(req) = <<"list", "bulk", "reload">>
         \/ /\ req.table \in {"sims", "eventRules"}
            /\ Steps(req) = <<"write", "reload">>
         \/ /\ req.table = "profiles" /\ req.op = "delete"
            /\ Steps(req) = <<"exists", "guard", "write", "reload">>
         \/ /\ req.table \in {"profiles", "scenarios"} /\ ~DropsProfile(req)
            /\ Steps(req) = <<"exists", "write", "reload">>
         \/ /\ req.table = "scenarios"
            /\ Steps(req) = <<"ruleRefs", "refs", "exists", "write", "reload">>
<1>1. req.table \in Table /\ req.op \in {"post", "put", "delete", "deleteAll"}
  BY AdminAssumption
<1>2. CASE req.table = "rules"
  <2>1. Steps(req) = RuleSteps(req.op)
    BY <1>2 DEF Steps
  <2> QED
    BY <1>1, <1>2, <2>1 DEF RuleSteps
<1>3. CASE req.table = "sims"
  <2>1. Steps(req) = SimulationSteps(req.op)
    BY <1>3 DEF Steps
  <2> QED
    BY <1>3, <2>1 DEF SimulationSteps
<1>4. CASE req.table = "profiles"
  <2>1. Steps(req) = ProfileSteps(req.op)
    BY <1>4 DEF Steps
  <2> QED
    BY <1>4, <2>1 DEF ProfileSteps, DropsProfile
<1>5. CASE req.table = "scenarios"
  <2>1. Steps(req) = ScenarioSteps(req.op)
    BY <1>5 DEF Steps
  <2> QED
    BY <1>5, <2>1 DEF ScenarioSteps, DropsProfile
<1>6. CASE req.table = "eventRules"
  <2>1. Steps(req) = EventRuleSteps(req.op)
    BY <1>6 DEF Steps
  <2> QED
    BY <1>6, <2>1 DEF EventRuleSteps
<1> QED
  BY <1>1, <1>2, <1>3, <1>4, <1>5, <1>6 DEF Table

LEMMA StepsRanked ==
  /\ \A req \in Requests : Ranked(Steps(req))
  /\ Ranked(ImportSteps) /\ Ranked(SaveSteps) /\ Ranked(<<"cascade">> \o SaveSteps)
  /\ Ranked(<<"cascade">>) /\ Ranked(<<"sweep">>) /\ Ranked(<<"reload">>) /\ Ranked(<< >>)
<1> DEFINE D == DOMAIN Rank
<1>1. ASSUME NEW req \in Requests PROVE Ranked(Steps(req))
  <2>1. Ranked(<<"refs", "duplicates", "write", "reload">>)
    BY RankIs, RanksAreNumbers DEF Ranked
  <2>2. Ranked(<<"refs", "duplicates", "owned", "write", "cascade", "reload">>)
    BY RankIs, RanksAreNumbers DEF Ranked
  <2>3. Ranked(<<"owned", "write", "cascade", "reload">>)
    BY RankIs, RanksAreNumbers DEF Ranked
  <2>4. Ranked(<<"list", "bulk", "reload">>) /\ Ranked(<<"write", "reload">>)
    BY RankIs, RanksAreNumbers DEF Ranked
  <2>5. Ranked(<<"exists", "guard", "write", "reload">>) /\ Ranked(<<"exists", "write", "reload">>)
    BY RankIs, RanksAreNumbers DEF Ranked
  <2>6. Ranked(<<"ruleRefs", "refs", "exists", "write", "reload">>)
    BY RankIs, RanksAreNumbers DEF Ranked
  <2> QED
    BY <2>1, <2>2, <2>3, <2>4, <2>5, <2>6, StepsAre
<1>2. Ranked(ImportSteps)
  BY RankIs, RanksAreNumbers DEF Ranked, ImportSteps
<1>3. Ranked(SaveSteps)
  BY RankIs, RanksAreNumbers DEF Ranked, SaveSteps
<1>4. Ranked(<<"cascade">>) /\ Ranked(<<"sweep">>) /\ Ranked(<<"reload">>) /\ Ranked(<< >>)
  BY RankIs, RanksAreNumbers DEF Ranked
<1>5. ToSet(<<"cascade">>) = {"cascade"} /\ ToSet(SaveSteps) = {"sims", "profiles", "rule"}
  BY StepSets
<1>6. Ranked(<<"cascade">> \o SaveSteps)
  BY <1>3, <1>4, <1>5, RankIs, RankedPrefix
<1> QED
  BY <1>1, <1>2, <1>3, <1>4, <1>6

LEMMA TransferSets ==
  /\ ToSet(<<"cascade">> \o SaveSteps) = {"cascade", "sims", "profiles", "rule"}
  /\ TransferSteps = {"validate", "stored", "import", "scenarios", "eventRules", "respond",
                      "reload", "sims", "profiles", "rule", "cascade", "sweep"}
<1>1. \A s \in ToSet(<<"cascade">>), t \in ToSet(SaveSteps) : Rank[s] < Rank[t]
  BY StepSets, RankIs
<1>2. ToSet(<<"cascade">> \o SaveSteps) = ToSet(<<"cascade">>) \union ToSet(SaveSteps)
  BY <1>1, StepsRanked, RankedPrefix
<1> QED
  BY <1>2, StepSets DEF TransferSteps

(* What the steps of a request tell of it. *)
LEMMA StepsTell ==
  ASSUME NEW req \in Requests
  PROVE  LET S == ToSet(Steps(req))
         IN  /\ "reload" \in S
             /\ S \intersect {"cascade", "owned"} # {} => req.table = "rules" /\ "cascade" \in S
             /\ "owned" \in S => req.op \in {"put", "delete"}
             /\ "guard" \in S => req.table = "profiles"
             /\ "duplicates" \in S => SavesRule(req)
             /\ SavesRule(req) => {"refs", "duplicates"} \subseteq S
             /\ DropsProfile(req) => "guard" \in S
             /\ S \intersect {"ruleRefs", "refs"} # {} =>
                    req.table \in {"rules", "scenarios"} /\ req.op # "deleteAll"
             /\ "write" \in S => req.table # "rules" \/ req.op # "deleteAll"
             /\ "list" \in S => "write" \notin S
             /\ "bulk" \in S => "write" \notin S /\ "list" \in S /\ req.op = "deleteAll"
             /\ S \intersect {"write", "owned", "cascade"} # {} => req.op # "deleteAll"
             /\ S \intersect {"validate", "stored", "import", "scenarios", "eventRules",
                              "respond", "sims", "profiles", "rule", "sweep"} = {}
<1> USE DEF SavesRule, DropsProfile
<1> DEFINE S == ToSet(Steps(req))
<1>0. req.op \in {"post", "put", "delete", "deleteAll"} /\ (req.op = "deleteAll" => req.table = "rules")
  BY AdminAssumption
<1>1. \/ req.table = "rules" /\ req.op = "post" /\ S = {"refs", "duplicates", "write", "reload"}
      \/ /\ req.table = "rules" /\ req.op = "put"
         /\ S = {"refs", "duplicates", "owned", "write", "cascade", "reload"}
      \/ req.table = "rules" /\ req.op = "delete" /\ S = {"owned", "write", "cascade", "reload"}
      \/ req.table = "rules" /\ req.op = "deleteAll" /\ S = {"list", "bulk", "reload"}
      \/ req.table \in {"sims", "eventRules"} /\ S = {"write", "reload"}
      \/ req.table = "profiles" /\ req.op = "delete" /\ S = {"exists", "guard", "write", "reload"}
      \/ req.table \in {"profiles", "scenarios"} /\ ~DropsProfile(req) /\ S = {"exists", "write", "reload"}
      \/ req.table = "scenarios" /\ S = {"ruleRefs", "refs", "exists", "write", "reload"}
  <2> PICK path : path = Steps(req)
    OBVIOUS
  <2>1. S = ToSet(path)
    OBVIOUS
  <2> HIDE DEF S
  <2>2. \/ /\ req.table = "rules" /\ req.op = "post"
           /\ path = <<"refs", "duplicates", "write", "reload">>
        \/ /\ req.table = "rules" /\ req.op = "put"
           /\ path = <<"refs", "duplicates", "owned", "write", "cascade", "reload">>
        \/ /\ req.table = "rules" /\ req.op = "delete"
           /\ path = <<"owned", "write", "cascade", "reload">>
        \/ /\ req.table = "rules" /\ req.op = "deleteAll"
           /\ path = <<"list", "bulk", "reload">>
        \/ /\ req.table \in {"sims", "eventRules"}
           /\ path = <<"write", "reload">>
        \/ /\ req.table = "profiles" /\ req.op = "delete"
           /\ path = <<"exists", "guard", "write", "reload">>
        \/ /\ req.table \in {"profiles", "scenarios"} /\ ~DropsProfile(req)
           /\ path = <<"exists", "write", "reload">>
        \/ /\ req.table = "scenarios"
           /\ path = <<"ruleRefs", "refs", "exists", "write", "reload">>
    BY StepsAre
  <2>3. CASE /\ req.table = "rules" /\ req.op = "post"
             /\ path = <<"refs", "duplicates", "write", "reload">>
    BY <2>1, <2>3, StepSets
  <2>4. CASE /\ req.table = "rules" /\ req.op = "put"
             /\ path = <<"refs", "duplicates", "owned", "write", "cascade", "reload">>
    BY <2>1, <2>4, StepSets
  <2>5. CASE /\ req.table = "rules" /\ req.op = "delete"
             /\ path = <<"owned", "write", "cascade", "reload">>
    BY <2>1, <2>5, StepSets
  <2>6. CASE /\ req.table = "rules" /\ req.op = "deleteAll"
             /\ path = <<"list", "bulk", "reload">>
    BY <2>1, <2>6, StepSets
  <2>7. CASE /\ req.table \in {"sims", "eventRules"}
             /\ path = <<"write", "reload">>
    BY <2>1, <2>7, StepSets
  <2>8. CASE /\ req.table = "profiles" /\ req.op = "delete"
             /\ path = <<"exists", "guard", "write", "reload">>
    BY <2>1, <2>8, StepSets
  <2>9. CASE /\ req.table \in {"profiles", "scenarios"} /\ ~DropsProfile(req)
             /\ path = <<"exists", "write", "reload">>
    BY <2>1, <2>9, StepSets
  <2>10. CASE /\ req.table = "scenarios"
              /\ path = <<"ruleRefs", "refs", "exists", "write", "reload">>
    BY <2>1, <2>10, StepSets
  <2> QED
    BY <2>2, <2>3, <2>4, <2>5, <2>6, <2>7, <2>8, <2>9, <2>10
<1> HIDE DEF S
<1>2. CASE req.table = "rules" /\ req.op = "post" /\ S = {"refs", "duplicates", "write", "reload"}
  BY <1>2 DEF S
<1>3. CASE /\ req.table = "rules" /\ req.op = "put"
           /\ S = {"refs", "duplicates", "owned", "write", "cascade", "reload"}
  BY <1>3 DEF S
<1>4. CASE req.table = "rules" /\ req.op = "delete" /\ S = {"owned", "write", "cascade", "reload"}
  BY <1>4 DEF S
<1>5. CASE req.table = "rules" /\ req.op = "deleteAll" /\ S = {"list", "bulk", "reload"}
  BY <1>5 DEF S
<1>6. CASE req.table \in {"sims", "eventRules"} /\ S = {"write", "reload"}
  BY <1>0, <1>6 DEF S
<1>7. CASE req.table = "profiles" /\ req.op = "delete" /\ S = {"exists", "guard", "write", "reload"}
  BY <1>7 DEF S
<1>8. CASE req.table \in {"profiles", "scenarios"} /\ ~DropsProfile(req) /\ S = {"exists", "write", "reload"}
  BY <1>0, <1>8 DEF S
<1>9. CASE req.table = "scenarios" /\ S = {"ruleRefs", "refs", "exists", "write", "reload"}
  BY <1>0, <1>9 DEF S
<1> QED
  BY <1>1, <1>2, <1>3, <1>4, <1>5, <1>6, <1>7, <1>8, <1>9

-----------------------------------------------------------------------------
(* Handlers.                                                               *)
LEMMA HeadKnown ==
  ASSUME NEW h, Road(h), h.path # << >>
  PROVE  /\ Head(h.path) \in Left(h) /\ Left(h) \subseteq DOMAIN Rank
         /\ \A t \in Left(h) : t = Head(h.path) \/ Rank[Head(h.path)] < Rank[t]
BY RankedTail DEF Road, Left

(* What is no longer left, by the step under way.                          *)
LEMMA Behind ==
  ASSUME NEW h, Road(h), h.path # << >>, NEW s, s = Head(h.path)
  PROVE  /\ s = "write" => Left(h) \intersect {"refs", "duplicates", "exists", "guard", "owned", "list"} = {}
         /\ s = "cascade" => Left(h) \intersect {"refs", "duplicates", "owned", "list", "write"} = {}
         /\ s = "sweep" => Left(h) \intersect {"refs", "duplicates", "owned", "list", "write", "cascade"} = {}
         /\ s = "sims" => Left(h) \intersect {"cascade", "sweep"} = {}
         /\ s = "profiles" => Left(h) \intersect {"sims", "cascade", "sweep"} = {}
         /\ s = "rule" => Left(h) \intersect {"sims", "profiles", "cascade", "sweep"} = {}
         /\ s = "bulk" => Left(h) \intersect {"list", "write", "cascade", "sweep"} = {}
         /\ s = "stored" => Left(h) \intersect {"validate", "rule", "sims", "profiles", "cascade", "sweep"} = {}
         /\ s = "import" => Left(h) \intersect {"validate", "stored", "rule", "sims", "profiles", "cascade", "sweep"} = {}
<1>1. \A t \in Left(h) : t = s \/ Rank[s] < Rank[t]
  BY HeadKnown
<1>2. ASSUME s = "write" PROVE Left(h) \intersect {"refs", "duplicates", "exists", "guard", "owned", "list"} = {}
  BY <1>1, <1>2, RankIs
<1>3. ASSUME s = "cascade" PROVE Left(h) \intersect {"refs", "duplicates", "owned", "list", "write"} = {}
  BY <1>1, <1>3, RankIs
<1>4. ASSUME s = "sweep" PROVE Left(h) \intersect {"refs", "duplicates", "owned", "list", "write", "cascade"} = {}
  BY <1>1, <1>4, RankIs
<1>5. ASSUME s = "sims" PROVE Left(h) \intersect {"cascade", "sweep"} = {}
  BY <1>1, <1>5, RankIs
<1>6. ASSUME s = "profiles" PROVE Left(h) \intersect {"sims", "cascade", "sweep"} = {}
  BY <1>1, <1>6, RankIs
<1>7. ASSUME s = "rule" PROVE Left(h) \intersect {"sims", "profiles", "cascade", "sweep"} = {}
  BY <1>1, <1>7, RankIs
<1>8. ASSUME s = "bulk" PROVE Left(h) \intersect {"list", "write", "cascade", "sweep"} = {}
  BY <1>1, <1>8, RankIs
<1>9. ASSUME s = "stored" PROVE Left(h) \intersect {"validate", "rule", "sims", "profiles", "cascade", "sweep"} = {}
  BY <1>1, <1>9, RankIs
<1>10. ASSUME s = "import" PROVE Left(h) \intersect {"validate", "stored", "rule", "sims", "profiles", "cascade", "sweep"} = {}
  BY <1>1, <1>10, RankIs
<1> QED
  BY <1>2, <1>3, <1>4, <1>5, <1>6, <1>7, <1>8, <1>9, <1>10

LEMMA KindOf ==
  ASSUME NEW h, Road(h)
  PROVE  /\ Left(h) \intersect {"ruleRefs", "refs", "duplicates", "exists", "guard", "owned",
                                "list", "write", "bulk"} # {}
              => h.req \in Requests /\ Left(h) \subseteq AdminSteps(h.req)
         /\ Left(h) \intersect {"validate", "stored", "import", "scenarios", "eventRules",
                                "respond", "sims", "profiles", "rule"} # {}
              => h.req \in Imports /\ Left(h) \subseteq TransferSteps
<1>1. \/ Left(h) \subseteq {"reload"}
      \/ h.req \in Requests /\ Left(h) \subseteq AdminSteps(h.req)
      \/ h.req \in Imports /\ Left(h) \subseteq TransferSteps
  BY DEF Road
<1>2. CASE Left(h) \subseteq {"reload"}
  BY <1>2
<1>3. CASE h.req \in Requests /\ Left(h) \subseteq AdminSteps(h.req)
  <2>1. ToSet(Steps(h.req)) \intersect {"validate", "stored", "import", "scenarios", "eventRules",
                              "respond", "sims", "profiles", "rule", "sweep"} = {}
    BY <1>3, StepsTell
  <2> QED
    BY <1>3, <2>1 DEF AdminSteps
<1>4. CASE h.req \in Imports /\ Left(h) \subseteq TransferSteps
  BY <1>4, TransferSets
<1> QED
  BY <1>1, <1>2, <1>3, <1>4

LEMMA EmptyLeft ==
  ASSUME NEW h, h.path = << >>
  PROVE  Left(h) = {}
BY StepSets DEF Left

(* A handler that has ended, or has only to reload, knows what it must.    *)
LEMMA EndKnown ==
  ASSUME NEW h, h = [f \in HandlerFields |-> h[f]], h.path \in {<< >>, <<"reload">>},
         h.owned = {}, h.cascade = {}, h.todo = << >>
  PROVE  Known(h) /\ \A st : KnownOf(h, st) /\ OwnedKnown(h, st)
<1>1. Ranked(h.path) /\ (Left(h) = {} \/ Left(h) = {"reload"})
  BY StepSets, StepsRanked DEF Left
<1>2. h.todo \in Seq(ToSet(h.todo))
  <2>1. \A S : << >> \in Seq(S)
    OBVIOUS
  <2> QED
    BY <2>1
<1>3. Road(h)
  BY <1>1, <1>2 DEF Road
<1>4. Known(h)
  BY <1>1, <1>3 DEF Known, CascadeKnown, UniqueKnown
<1>5. ASSUME NEW st PROVE KnownOf(h, st) /\ OwnedKnown(h, st)
  <2>1. RefsKnown(h, st) /\ UniqueNow(h, st) /\ UnusedKnown(h, st) /\ FileKnown(h, st)
    BY <1>1 DEF RefsKnown, UniqueNow, UnusedKnown, FileKnown
  <2>2. LoopKnown(h, st) /\ TurnKnown(h, st) /\ BulkKnown(h, st)
    BY <1>1 DEF LoopKnown, TurnKnown, BulkKnown
  <2>3. OwnedKnown(h, st)
    BY <1>1 DEF OwnedKnown
  <2> QED
    BY <2>1, <2>2, <2>3 DEF KnownOf
<1> QED
  BY <1>4, <1>5

LEMMA IdleKnown ==
  /\ Known(Idle) /\ \A st : KnownOf(Idle, st) /\ OwnedKnown(Idle, st)
  /\ LET h == [Idle EXCEPT !.path = <<"reload">>]
     IN  Known(h) /\ \A st : KnownOf(h, st) /\ OwnedKnown(h, st)
<1>1. /\ Idle = [f \in HandlerFields |-> Idle[f]] /\ Idle.path = << >>
      /\ Idle.owned = {} /\ Idle.cascade = {} /\ Idle.todo = << >>
  BY DEF Idle, HandlerFields
<1> DEFINE h == [Idle EXCEPT !.path = <<"reload">>]
<1>2. /\ h = [f \in HandlerFields |-> h[f]] /\ h.path = <<"reload">>
      /\ h.owned = {} /\ h.cascade = {} /\ h.todo = << >>
  BY DEF Idle, HandlerFields
<1> HIDE DEF h
<1>3. Known(h) /\ \A st : KnownOf(h, st) /\ OwnedKnown(h, st)
  BY <1>2, EndKnown
<1>4. Known(Idle) /\ \A st : KnownOf(Idle, st) /\ OwnedKnown(Idle, st)
  BY <1>1, EndKnown
<1> QED
  BY <1>3, <1>4 DEF h

(* One step forward.                                                       *)
Goes(h, h2) ==
    /\ h2 = [f \in HandlerFields |-> h2[f]]
    /\ h2.path = Tail(h.path) /\ h2.req = h.req

LEMMA ForwardRoad ==
  ASSUME NEW h, Road(h), h.path # << >>, Head(h.path) # "reload",
         NEW h2, Goes(h, h2), h2.todo \in Seq(ToSet(h2.todo)),
         "rule" \in Left(h) => Head(h.path) = "rule" \/ h2.todo # << >>
  PROVE  Road(h2) /\ Left(h2) = Left(h) \ {Head(h.path)}
<1> DEFINE s == Head(h.path)
<1>1. Ranked(h2.path) /\ Left(h2) = Left(h) \ {s} /\ s \in Left(h)
  BY RankedTail DEF Road, Left, Goes
<1>2. \A t \in Left(h2) : Rank[s] < Rank[t]
  BY <1>1, HeadKnown
<1> HIDE DEF s
<1>3. s # "reload" /\ "reload" \in Left(h2)
  BY <1>1 DEF Road, s
<1>4. "owned" \in Left(h2) => {"write", "cascade"} \subseteq Left(h2)
  <2> SUFFICES ASSUME "owned" \in Left(h2) PROVE {"write", "cascade"} \subseteq Left(h2)
    OBVIOUS
  <2>1. {"write", "cascade"} \subseteq Left(h) /\ Rank[s] < Rank["owned"]
    BY <1>1, <1>2 DEF Road
  <2> QED
    BY <1>1, <2>1, RankIs
<1>5. "sims" \in Left(h2) => "rule" \in Left(h2)
  <2> SUFFICES ASSUME "sims" \in Left(h2) PROVE "rule" \in Left(h2)
    OBVIOUS
  <2>1. "rule" \in Left(h) /\ Rank[s] < Rank["sims"]
    BY <1>1, <1>2 DEF Road
  <2> QED
    BY <1>1, <2>1, RankIs
<1>6. "rule" \in Left(h2) => "import" \in Left(h2) /\ "stored" \notin Left(h2) /\ h2.todo # << >>
  <2> SUFFICES ASSUME "rule" \in Left(h2)
               PROVE  "import" \in Left(h2) /\ "stored" \notin Left(h2) /\ h2.todo # << >>
    OBVIOUS
  <2>1. "import" \in Left(h) /\ "stored" \notin Left(h) /\ Rank[s] < Rank["rule"]
    BY <1>1, <1>2 DEF Road
  <2>2. s # "rule" /\ s # "import"
    BY <2>1, RankIs
  <2> QED
    BY <1>1, <2>1, <2>2 DEF s
<1>7. \/ Left(h2) \subseteq {"reload"}
      \/ h2.req \in Requests /\ Left(h2) \subseteq AdminSteps(h2.req)
      \/ h2.req \in Imports /\ Left(h2) \subseteq TransferSteps
  BY <1>1 DEF Road, Goes
<1>8. "sweep" \in Left(h2) => "cascade" \notin Left(h2)
  BY <1>1 DEF Road
<1> QED
  BY <1>1, <1>3, <1>4, <1>5, <1>6, <1>7, <1>8 DEF Road, Goes, s

(* What the handler has read stays as it is.                               *)
Keeps(h, h2) ==
    /\ h2.checked = h.checked /\ h2.stored = h.stored /\ h2.owned = h.owned
    /\ h2.cascade = h.cascade /\ h2.todo = h.todo

LEMMA ForwardKnown ==
  ASSUME NEW h, Known(h), h.path # << >>, NEW s, s = Head(h.path), s # "reload",
         NEW h2, Goes(h, h2), Keeps(h, h2), NEW st
  PROVE  /\ Road(h2) /\ Left(h2) = Left(h) \ {s}
         /\ s \notin {"owned", "cascade", "sweep"} => CascadeKnown(h2)
         /\ s # "duplicates" => UniqueKnown(h2)
         /\ s # "duplicates" /\ UniqueNow(h, st) => UniqueNow(h2, st)
         /\ s # "refs" /\ RefsKnown(h, st) => RefsKnown(h2, st)
         /\ s # "guard" /\ UnusedKnown(h, st) => UnusedKnown(h2, st)
         /\ s # "validate" /\ FileKnown(h, st) => FileKnown(h2, st)
         /\ s # "stored" /\ LoopKnown(h, st) => LoopKnown(h2, st)
         /\ s # "profiles" /\ TurnKnown(h, st) => TurnKnown(h2, st)
         /\ s # "list" /\ BulkKnown(h, st) => BulkKnown(h2, st)
         /\ s \notin {"rule", "write"} /\ OwnedKnown(h, st) => OwnedKnown(h2, st)
<1>1. Road(h2) /\ Left(h2) = Left(h) \ {s} /\ s \in Left(h) /\ h2.req = h.req
  <2>1. Road(h) /\ h2.req = h.req
    BY DEF Known, Goes
  <2>2. h2.todo \in Seq(ToSet(h2.todo)) /\ ("rule" \in Left(h) => h2.todo # << >>)
    BY <2>1 DEF Road, Keeps
  <2> QED
    BY <2>1, <2>2, ForwardRoad, HeadKnown
<1> USE DEF Keeps
<1>2. s \notin {"owned", "cascade", "sweep"} => CascadeKnown(h2)
  BY <1>1 DEF Known, CascadeKnown, Kept
<1>3. s # "duplicates" => UniqueKnown(h2)
  BY <1>1 DEF Known, UniqueKnown
<1>4. s # "duplicates" /\ UniqueNow(h, st) => UniqueNow(h2, st)
  BY <1>1 DEF UniqueNow
<1>5. s # "refs" /\ RefsKnown(h, st) => RefsKnown(h2, st)
  BY <1>1 DEF RefsKnown
<1>6. s # "guard" /\ UnusedKnown(h, st) => UnusedKnown(h2, st)
  BY <1>1 DEF UnusedKnown
<1>7. s # "validate" /\ FileKnown(h, st) => FileKnown(h2, st)
  BY <1>1 DEF FileKnown
<1>8. s # "stored" /\ LoopKnown(h, st) => LoopKnown(h2, st)
  BY <1>1 DEF LoopKnown
<1>9. s # "profiles" /\ TurnKnown(h, st) => TurnKnown(h2, st)
  BY <1>1 DEF TurnKnown
<1>10. s # "list" /\ BulkKnown(h, st) => BulkKnown(h2, st)
  BY <1>1 DEF BulkKnown
<1>11. s \notin {"rule", "write"} /\ OwnedKnown(h, st) => OwnedKnown(h2, st)
  BY <1>1 DEF OwnedKnown, Coming
<1> QED
  BY <1>1, <1>2, <1>3, <1>4, <1>5, <1>6, <1>7, <1>8, <1>9, <1>10, <1>11

(* Rules that stay, and more profiles, change nothing of it.               *)
LEMMA StoreGrows ==
  ASSUME NEW h, NEW st, NEW st2, KnownOf(h, st), st2.rules = st.rules,
         IdsOf(st.profiles) \subseteq IdsOf(st2.profiles)
  PROVE  KnownOf(h, st2)
<1>1. RefsKnown(h, st2)
  BY DEF KnownOf, RefsKnown, FaultRefsResolve
<1>2. UniqueNow(h, st2) /\ UnusedKnown(h, st2) /\ BulkKnown(h, st2)
  BY DEF KnownOf, UniqueNow, UnusedKnown, BulkKnown
<1>3. ASSUME NEW list, NEW cfg, Fits(list, cfg, st) PROVE Fits(list, cfg, st2)
  <2>1. IdsOf(cfg.profiles \union st.profiles) \subseteq IdsOf(cfg.profiles \union st2.profiles)
    BY DEF IdsOf
  <2> QED
    BY <1>3, <2>1 DEF Fits
<1>4. FileKnown(h, st2)
  BY <1>3 DEF KnownOf, FileKnown
<1>5. LoopKnown(h, st2)
  BY <1>3 DEF KnownOf, LoopKnown
<1>6. TurnKnown(h, st2)
  BY DEF KnownOf, TurnKnown
<1> QED
  BY <1>1, <1>2, <1>4, <1>5, <1>6 DEF KnownOf

-----------------------------------------------------------------------------
(* Stores.                                                                 *)
LEMMA RowsSaved ==
  ASSUME NEW rows, Keyed(rows), NEW row, NEW id
  PROVE  Keyed(SaveRow(rows, row)) /\ Keyed(DropRow(rows, id))
<1>1. DropRow(rows, id) \subseteq rows /\ {x \in rows : x.id # row.id} \subseteq rows
  BY DEF DropRow
<1>2. IsFiniteSet(DropRow(rows, id)) /\ IsFiniteSet({x \in rows : x.id # row.id})
  BY <1>1, FS_Subset DEF Keyed
<1>3. IsFiniteSet({x \in rows : x.id # row.id} \union {row})
  BY <1>2, FS_Singleton, FS_Union
<1> QED
  BY <1>2, <1>3 DEF SaveRow, DropRow, Keyed

(* A table changed.                                                        *)
Changed(st, t, rows, st2) == st2 = [st EXCEPT ![t] = rows]

LEMMA TableChanged ==
  ASSUME NEW st, StoreOK(st), NEW t \in Table, NEW rows, t = "rules" => Keyed(rows),
         NEW st2, Changed(st, t, rows, st2)
  PROVE  /\ StoreOK(st2) /\ st2[t] = rows
         /\ t # "rules" => st2.rules = st.rules
         /\ t # "profiles" => st2.profiles = st.profiles
         /\ t # "sims" => st2.sims = st.sims
<1>1. st = [u \in Table |-> st[u]]
  BY DEF StoreOK
<1>2. st2 = [u \in Table |-> IF u = t THEN rows ELSE st[u]]
  BY <1>1 DEF Changed
<1>3. {"rules", "profiles", "sims"} \subseteq Table
  BY DEF Table
<1>4. \A u \in Table : st2[u] = IF u = t THEN rows ELSE st[u]
  BY <1>2
<1>5. /\ st2[t] = rows
      /\ t # "rules" => st2.rules = st.rules
      /\ t # "profiles" => st2.profiles = st.profiles
      /\ t # "sims" => st2.sims = st.sims
  BY <1>3, <1>4
<1>6. Keyed(st2.rules)
  BY <1>5 DEF StoreOK
<1>7. st2 = [u \in Table |-> st2[u]]
  BY <1>2
<1> QED
  BY <1>5, <1>6, <1>7 DEF StoreOK

(* A rule deleted.                                                         *)
LEMMA RulesDropped ==
  ASSUME NEW st, StoreOK(st), NEW id, NEW st2, Changed(st, "rules", DropRow(st.rules, id), st2)
  PROVE  /\ StoreOK(st2) /\ st2.rules = DropRow(st.rules, id)
         /\ st2.profiles = st.profiles /\ st2.sims = st.sims
         /\ Resolved(st) => Resolved(st2)
<1> DEFINE rows == DropRow(st.rules, id)
<1>1. Keyed(rows)
  BY RowsSaved DEF StoreOK
<1> HIDE DEF rows
<1>2. Changed(st, "rules", rows, st2)
  BY DEF rows
<1>3. "rules" \in Table
  BY DEF Table
<1>4. /\ StoreOK(st2) /\ st2["rules"] = rows
      /\ st2.profiles = st.profiles /\ st2.sims = st.sims
  BY <1>1, <1>2, <1>3, TableChanged
<1>5. Resolved(st) => Resolved(st2)
  BY <1>4 DEF Resolved, FaultRefsResolve, rows, DropRow
<1> QED
  BY <1>4, <1>5 DEF rows

LEMMA MoreProfiles ==
  ASSUME NEW st, NEW st2, Resolved(st), st2.rules \subseteq st.rules,
         IdsOf(st.profiles) \subseteq IdsOf(st2.profiles)
  PROVE  Resolved(st2)
BY DEF Resolved, FaultRefsResolve

LEMMA SavedIds ==
  ASSUME NEW rows, NEW row, NEW new
  PROVE  /\ IdsOf(SaveRow(rows, row)) = IdsOf(rows) \union {row.id}
         /\ IdsOf(SaveRows(rows, new)) = IdsOf(rows) \union IdsOf(new)
<1>1. ASSUME NEW id \in IdsOf(rows) PROVE id \in IdsOf(SaveRows(rows, new)) /\ id \in IdsOf(SaveRow(rows, row))
  <2>1. PICK x \in rows : x.id = id
    BY DEF IdsOf
  <2>2. id \in IdsOf(SaveRows(rows, new))
    BY <2>1 DEF IdsOf, SaveRows
  <2>3. id \in IdsOf(SaveRow(rows, row))
    BY <2>1 DEF IdsOf, SaveRow
  <2> QED
    BY <2>2, <2>3
<1>2. IdsOf(SaveRow(rows, row)) \subseteq IdsOf(rows) \union {row.id} /\ row.id \in IdsOf(SaveRow(rows, row))
  BY DEF IdsOf, SaveRow
<1>3. IdsOf(SaveRows(rows, new)) \subseteq IdsOf(rows) \union IdsOf(new)
      /\ IdsOf(new) \subseteq IdsOf(SaveRows(rows, new))
  BY DEF IdsOf, SaveRows
<1> QED
  BY <1>1, <1>2, <1>3

(* What a write of the admin API leaves behind.                            *)
LEMMA WrittenGood ==
  ASSUME NEW h, Known(h), h.path # << >>, Head(h.path) = "write",
         NEW st, StoreOK(st), NEW st2, st2 = Written(st, h.req)
  PROVE  /\ StoreOK(st2)
         /\ Resolved(st) /\ RefsKnown(h, st) /\ UnusedKnown(h, st) => Resolved(st2)
         /\ st2.rules = IF h.req.table # "rules" THEN st.rules
                        ELSE IF h.req.op = "delete" THEN DropRow(st.rules, h.req.row.id)
                                                    ELSE SaveRow(st.rules, h.req.row)
         /\ h.req.table # "sims" => st2.sims = st.sims
<1> DEFINE t == h.req.table
           row == h.req.row
           rows == IF h.req.op = "delete" THEN DropRow(st[t], row.id) ELSE SaveRow(st[t], row)
<1>1. /\ "write" \in Left(h) /\ "refs" \notin Left(h) /\ "guard" \notin Left(h)
      /\ h.req \in Requests /\ Left(h) \subseteq AdminSteps(h.req)
  <2>1. "write" \in Left(h)
    BY HeadKnown DEF Known
  <2>2. "refs" \notin Left(h) /\ "guard" \notin Left(h)
    BY Behind DEF Known
  <2> QED
    BY <2>1, <2>2, KindOf DEF Known
<1>2. t \in Table /\ h.req.op \in {"post", "put", "delete", "deleteAll"}
      /\ (t = "rules" => h.req.op # "deleteAll")
  <2>1. "write" \in ToSet(Steps(h.req))
    BY <1>1 DEF AdminSteps
  <2> QED
    BY <1>1, <2>1, StepsTell, AdminAssumption
<1>3. t = "rules" => Keyed(rows)
  BY RowsSaved DEF StoreOK
<1>4. Changed(st, t, rows, st2)
  BY DEF Written, Changed
<1> HIDE DEF rows
<1>5. /\ StoreOK(st2) /\ st2[t] = rows
      /\ t # "rules" => st2.rules = st.rules
      /\ t # "profiles" => st2.profiles = st.profiles
      /\ t # "sims" => st2.sims = st.sims
  <2>1. t \in Table
    BY <1>2
  <2> HIDE DEF t
  <2> QED
    BY <1>3, <1>4, <2>1, TableChanged
<1>6. ASSUME Resolved(st), RefsKnown(h, st), UnusedKnown(h, st) PROVE Resolved(st2)
  <2>1. CASE t = "rules" /\ h.req.op = "delete"
    BY <1>5, <1>6, <2>1 DEF rows, Resolved, FaultRefsResolve, DropRow
  <2>2. CASE t = "rules" /\ h.req.op # "delete"
    <3>1. FaultRefsResolve(row, st)
      BY <1>1, <1>2, <1>6, <2>2 DEF RefsKnown, SavesRule
    <3> QED
      BY <1>5, <1>6, <2>2, <3>1 DEF rows, Resolved, FaultRefsResolve, SaveRow
  <2>3. CASE t = "profiles" /\ h.req.op = "delete"
    <3>1. row.id \notin ReferencedProfiles(st.rules)
      BY <1>1, <1>6, <2>3 DEF UnusedKnown, DropsProfile
    <3>2. st2.profiles = DropRow(st.profiles, row.id) /\ st2.rules = st.rules
      BY <1>5, <2>3 DEF rows
    <3>3. IdsOf(st.profiles) \ {row.id} \subseteq IdsOf(st2.profiles)
      BY <3>2 DEF IdsOf, DropRow
    <3> QED
      BY <1>6, <3>1, <3>2, <3>3 DEF Resolved, FaultRefsResolve, ReferencedProfiles
  <2>4. CASE t = "profiles" /\ h.req.op # "delete"
    <3>1. st2.profiles = SaveRow(st.profiles, row) /\ st2.rules = st.rules
      BY <1>5, <2>4 DEF rows
    <3>2. IdsOf(st.profiles) \subseteq IdsOf(st2.profiles)
      BY ONLY <3>1, SavedIds
    <3> QED
      BY <1>6, <3>1, <3>2, MoreProfiles
  <2>5. CASE t \notin {"rules", "profiles"}
    BY <1>5, <1>6, <2>5, MoreProfiles
  <2> QED
    BY <2>1, <2>2, <2>3, <2>4, <2>5
<1>7. st2.rules = IF t # "rules" THEN st.rules
                  ELSE IF h.req.op = "delete" THEN DropRow(st.rules, row.id)
                                              ELSE SaveRow(st.rules, row)
  BY <1>5 DEF rows
<1> QED
  BY <1>5, <1>6, <1>7

-----------------------------------------------------------------------------
(* The steps of a handler, as changes of what it keeps and of the store.   *)
Stepping(h, s) == Known(h) /\ h.path # << >> /\ s = Head(h.path)

(* Known stays known; and, where no call failed, what removed rules owned  *)
(* stays accounted for.                                                    *)
Sound(h, st, h2, st2) ==
    /\ StoreOK(st2) /\ Known(h2)
    /\ Resolved(st) /\ KnownOf(h, st) => Resolved(st2) /\ KnownOf(h2, st2)

Complete(h, st, h2, st2) ==
    KnownOf(h, st) /\ OwnedKnown(h, st) => OwnedKnown(h2, st2)

(* A handler with one of these steps left is a request, an import.         *)
LEMMA AdminLeft ==
  ASSUME NEW h, Road(h),
         Left(h) \intersect {"ruleRefs", "refs", "duplicates", "exists", "guard", "owned",
                             "list", "write", "bulk"} # {}
  PROVE  /\ h.req \in Requests
         /\ Left(h) \ {"cascade", "sweep"} \subseteq ToSet(Steps(h.req))
         /\ Left(h) \intersect {"validate", "stored", "import", "scenarios", "eventRules",
                                "respond", "sims", "profiles", "rule"} = {}
<1>1. h.req \in Requests /\ Left(h) \subseteq AdminSteps(h.req)
  BY KindOf
<1>2. ToSet(Steps(h.req)) \intersect {"validate", "stored", "import", "scenarios", "eventRules",
                              "respond", "sims", "profiles", "rule", "sweep"} = {}
  BY <1>1, StepsTell
<1> QED
  BY <1>1, <1>2 DEF AdminSteps

LEMMA ImportLeft ==
  ASSUME NEW h, Road(h),
         Left(h) \intersect {"validate", "stored", "import", "scenarios", "eventRules",
                             "respond", "sims", "profiles", "rule"} # {}
  PROVE  /\ h.req \in Imports /\ Left(h) \subseteq TransferSteps
         /\ Left(h) \intersect {"ruleRefs", "refs", "duplicates", "exists", "guard", "owned",
                                "list", "write", "bulk"} = {}
<1>1. h.req \in Imports /\ Left(h) \subseteq TransferSteps
  BY KindOf
<1> QED
  BY <1>1, TransferSets

(* What a handler past its write knows of the store, when it is no import. *)
LEMMA PastWrite ==
  ASSUME NEW h, NEW st, Left(h) \intersect {"write", "stored", "import", "rule"} = {},
         BulkKnown(h, st)
  PROVE  KnownOf(h, st)
<1>1. RefsKnown(h, st) /\ UniqueNow(h, st) /\ UnusedKnown(h, st) /\ FileKnown(h, st)
  BY DEF RefsKnown, UniqueNow, UnusedKnown, FileKnown
<1>2. LoopKnown(h, st) /\ TurnKnown(h, st)
  BY DEF LoopKnown, TurnKnown
<1> QED
  BY <1>1, <1>2 DEF KnownOf

LEMMA StopSound ==
  ASSUME NEW h, NEW st, NEW h2, NEW st2,
         h2 = Idle \/ h2 = [Idle EXCEPT !.path = <<"reload">>],
         StoreOK(st2), Resolved(st) /\ KnownOf(h, st) => Resolved(st2)
  PROVE  Sound(h, st, h2, st2) /\ Complete(h, st, h2, st2)
<1> DEFINE i == [Idle EXCEPT !.path = <<"reload">>]
<1>1. Known(i) /\ KnownOf(i, st2) /\ OwnedKnown(i, st2)
  BY IdleKnown
<1>2. Known(Idle) /\ KnownOf(Idle, st2) /\ OwnedKnown(Idle, st2)
  BY IdleKnown
<1> HIDE DEF i
<1>3. h2 = Idle \/ h2 = i
  BY DEF i
<1>4. Known(h2) /\ KnownOf(h2, st2) /\ OwnedKnown(h2, st2)
  BY <1>1, <1>2, <1>3
<1> QED
  BY <1>4 DEF Sound, Complete

(* A check passed, or a step that changes nothing but the path.            *)
LEMMA PassSound ==
  ASSUME NEW h, NEW s, Stepping(h, s), NEW st, StoreOK(st),
         s \in {"ruleRefs", "refs", "exists", "guard", "validate", "bulk", "import", "respond"},
         s = "refs" /\ "write" \in Left(h) /\ KnownOf(h, st) /\ SavesRule(h.req)
             => FaultRefsResolve(h.req.row, st),
         s = "guard" => h.req.row.id \notin ReferencedProfiles(st.rules),
         s = "validate" => Fits(h.req.config.rules, h.req.config, st),
         NEW h2, Goes(h, h2), Keeps(h, h2)
  PROVE  Sound(h, st, h2, st) /\ Complete(h, st, h2, st)
<1>1. Known(h) /\ h.path # << >> /\ s = Head(h.path) /\ s # "reload" /\ h2.req = h.req
  BY DEF Stepping, Goes
<1>2. Known(h2)
  BY <1>1, ForwardKnown DEF Known
<1>3. ASSUME KnownOf(h, st) PROVE KnownOf(h2, st)
  <2>1. UniqueNow(h2, st) /\ LoopKnown(h2, st) /\ TurnKnown(h2, st) /\ BulkKnown(h2, st)
    BY <1>1, <1>3, ForwardKnown DEF KnownOf
  <2>2. RefsKnown(h2, st)
    <3>1. CASE s # "refs"
      BY <1>1, <1>3, <3>1, ForwardKnown DEF KnownOf
    <3>2. CASE s = "refs"
      <4>1. Left(h2) = Left(h) \ {"refs"}
        BY <1>1, <3>2, ForwardKnown
      <4> QED
        BY <1>1, <1>3, <3>2, <4>1 DEF RefsKnown
    <3> QED
      BY <3>1, <3>2
  <2>3. UnusedKnown(h2, st)
    <3>1. CASE s # "guard"
      BY <1>1, <1>3, <3>1, ForwardKnown DEF KnownOf
    <3>2. CASE s = "guard"
      BY <1>1, <3>2 DEF UnusedKnown
    <3> QED
      BY <3>1, <3>2
  <2>4. FileKnown(h2, st)
    <3>1. CASE s # "validate"
      BY <1>1, <1>3, <3>1, ForwardKnown DEF KnownOf
    <3>2. CASE s = "validate"
      BY <1>1, <3>2 DEF FileKnown
    <3> QED
      BY <3>1, <3>2
  <2> QED
    BY <2>1, <2>2, <2>3, <2>4 DEF KnownOf
<1>4. OwnedKnown(h, st) => OwnedKnown(h2, st)
  BY <1>1, ForwardKnown
<1> QED
  BY <1>2, <1>3, <1>4 DEF Sound, Complete

(* One of the fault profiles has been found.                               *)
LEMMA FoundSound ==
  ASSUME NEW h, Stepping(h, "refs"), NEW st, StoreOK(st), NEW p, p \in IdsOf(st.profiles),
         NEW h2, h2 = [f \in HandlerFields |-> h2[f]], h2.path = h.path, h2.req = h.req,
         h2.checked = h.checked \union {p}, h2.stored = h.stored, h2.owned = h.owned,
         h2.cascade = h.cascade, h2.todo = h.todo
  PROVE  Sound(h, st, h2, st) /\ Complete(h, st, h2, st)
<1>1. /\ Known(h) /\ Road(h) /\ h = [f \in HandlerFields |-> h[f]]
      /\ h.path # << >> /\ "refs" = Head(h.path)
  BY DEF Stepping, Known, Road
<1>3. Left(h2) = Left(h) /\ "refs" \in Left(h)
  BY <1>1, HeadKnown DEF Left
<1>4. Known(h2)
  BY <1>1, <1>3 DEF Known, Road, CascadeKnown, Kept, UniqueKnown
<1>5. ASSUME KnownOf(h, st) PROVE KnownOf(h2, st)
  <2>1. RefsKnown(h2, st)
    BY <1>3, <1>5 DEF KnownOf, RefsKnown
  <2>2. UniqueNow(h2, st) /\ UnusedKnown(h2, st) /\ FileKnown(h2, st)
    BY <1>3, <1>5 DEF KnownOf, UniqueNow, UnusedKnown, FileKnown
  <2>3. LoopKnown(h2, st) /\ TurnKnown(h2, st) /\ BulkKnown(h2, st)
    BY <1>3, <1>5 DEF KnownOf, LoopKnown, TurnKnown, BulkKnown
  <2> QED
    BY <2>1, <2>2, <2>3 DEF KnownOf
<1>6. OwnedKnown(h, st) => OwnedKnown(h2, st)
  BY <1>3 DEF OwnedKnown, Coming
<1> QED
  BY <1>4, <1>5, <1>6 DEF Sound, Complete

(* All of them have.                                                       *)
LEMMA AllFound ==
  ASSUME NEW h, Stepping(h, "refs"), "write" \in Left(h), NEW st, KnownOf(h, st),
         SavesRule(h.req), h.req.row.profiles \subseteq h.checked
  PROVE  FaultRefsResolve(h.req.row, st)
<1>1. "refs" \in Left(h)
  BY HeadKnown DEF Stepping, Known
<1> QED
  BY <1>1 DEF KnownOf, RefsKnown, FaultRefsResolve

(* The check for duplicates, the read of what a rule owns, and the write.  *)
LEMMA UniqueSound ==
  ASSUME NEW h, Stepping(h, "duplicates"), NEW st, StoreOK(st),
         FindDuplicates(st.rules, h.req.row) = {},
         NEW h2, Goes(h, h2), h2.checked = h.checked, h2.stored = st.rules,
         h2.owned = h.owned, h2.cascade = h.cascade, h2.todo = h.todo
  PROVE  Sound(h, st, h2, st) /\ Complete(h, st, h2, st)
<1>1. /\ Known(h) /\ Road(h) /\ h.path # << >> /\ "duplicates" = Head(h.path)
      /\ h2.req = h.req
  BY DEF Stepping, Goes, Known
<1>2. Road(h2) /\ Left(h2) = Left(h) \ {"duplicates"} /\ "duplicates" \in Left(h)
  <2>1. h2.todo \in Seq(ToSet(h2.todo)) /\ ("rule" \in Left(h) => h2.todo # << >>)
    BY <1>1 DEF Road
  <2> QED
    BY <1>1, <2>1, ForwardRoad, HeadKnown
<1>3. Left(h) \intersect {"stored", "import", "rule"} = {}
  BY <1>1, <1>2, AdminLeft
<1>4. CascadeKnown(h2)
  BY <1>1, <1>2 DEF Known, CascadeKnown, Kept
<1>5. UniqueKnown(h2) /\ UniqueNow(h2, st)
  BY <1>1 DEF UniqueKnown, UniqueNow
<1>6. ASSUME KnownOf(h, st) PROVE KnownOf(h2, st)
  <2>1. RefsKnown(h2, st) /\ UnusedKnown(h2, st) /\ BulkKnown(h2, st)
    BY <1>1, <1>2, <1>6 DEF KnownOf, RefsKnown, UnusedKnown, BulkKnown
  <2>2. FileKnown(h2, st) /\ LoopKnown(h2, st) /\ TurnKnown(h2, st)
    BY <1>2, <1>3 DEF FileKnown, LoopKnown, TurnKnown
  <2> QED
    BY <1>5, <2>1, <2>2 DEF KnownOf
<1>7. OwnedKnown(h, st) => OwnedKnown(h2, st)
  BY <1>1, <1>2 DEF OwnedKnown, Coming
<1> QED
  BY <1>2, <1>4, <1>5, <1>6, <1>7 DEF Sound, Complete, Known

LEMMA OwnedSound ==
  ASSUME NEW h, Stepping(h, "owned"), NEW st, StoreOK(st),
         NEW h2, Goes(h, h2), h2.checked = h.checked, h2.stored = h.stored, h2.todo = h.todo,
         h2.cascade = IF h.req.op = "put" THEN h2.owned \ h.req.row.sims ELSE h2.owned
  PROVE  Sound(h, st, h2, st) /\ Complete(h, st, h2, st)
<1>1. /\ Known(h) /\ Road(h) /\ h.path # << >> /\ "owned" = Head(h.path)
      /\ h2.req = h.req
  BY DEF Stepping, Goes, Known
<1>2. Road(h2) /\ Left(h2) = Left(h) \ {"owned"} /\ "owned" \in Left(h)
  <2>1. h2.todo \in Seq(ToSet(h2.todo)) /\ ("rule" \in Left(h) => h2.todo # << >>)
    BY <1>1 DEF Road
  <2> QED
    BY <1>1, <2>1, ForwardRoad, HeadKnown
<1>3. {"write", "cascade"} \subseteq Left(h2)
  BY <1>1, <1>2 DEF Road
<1>4. Left(h) \intersect {"stored", "import", "rule"} = {} /\ h.req.table = "rules"
  BY <1>1, <1>2, AdminLeft, StepsTell
<1>5. CascadeKnown(h2)
  BY <1>1, <1>3, <1>4 DEF CascadeKnown, Kept
<1>6. UniqueKnown(h2)
  BY <1>1, <1>2 DEF Known, UniqueKnown
<1>7. ASSUME KnownOf(h, st) PROVE KnownOf(h2, st)
  <2>1. RefsKnown(h2, st) /\ UnusedKnown(h2, st) /\ BulkKnown(h2, st) /\ UniqueNow(h2, st)
    BY <1>1, <1>2, <1>7 DEF KnownOf, RefsKnown, UnusedKnown, BulkKnown, UniqueNow
  <2>2. FileKnown(h2, st) /\ LoopKnown(h2, st) /\ TurnKnown(h2, st)
    BY <1>2, <1>4 DEF FileKnown, LoopKnown, TurnKnown
  <2> QED
    BY <2>1, <2>2 DEF KnownOf
<1>8. OwnedKnown(h2, st)
  BY <1>3 DEF OwnedKnown
<1> QED
  BY <1>2, <1>5, <1>6, <1>7, <1>8 DEF Sound, Complete, Known

LEMMA WriteSound ==
  ASSUME NEW h, Stepping(h, "write"), NEW st, StoreOK(st), NEW st2, st2 = Written(st, h.req),
         NEW h2, Goes(h, h2), Keeps(h, h2)
  PROVE  Sound(h, st, h2, st2) /\ Complete(h, st, h2, st2)
<1>1. Known(h) /\ Road(h) /\ h.path # << >> /\ "write" = Head(h.path) /\ h2.req = h.req
  BY DEF Stepping, Goes, Known
<1>2. Known(h2) /\ Left(h2) = Left(h) \ {"write"} /\ "write" \in Left(h)
  BY <1>1, ForwardKnown, HeadKnown DEF Known
<1>3. /\ Left(h) \intersect {"stored", "import", "rule"} = {} /\ h.req \in Requests
      /\ Left(h) \ {"cascade", "sweep"} \subseteq ToSet(Steps(h.req))
  BY <1>1, <1>2, AdminLeft
<1>4. "bulk" \notin Left(h) /\ (h.req.table = "rules" => h.req.op # "deleteAll")
  BY <1>2, <1>3, StepsTell
<1>5. KnownOf(h2, st2)
  BY <1>2, <1>3, <1>4, PastWrite DEF BulkKnown
<1>6. /\ StoreOK(st2)
      /\ Resolved(st) /\ KnownOf(h, st) => Resolved(st2)
      /\ h.req.table = "rules" /\ h.req.op = "put" => st2.rules = SaveRow(st.rules, h.req.row)
  BY <1>1, WrittenGood DEF KnownOf
<1>7. OwnedKnown(h2, st2)
  <2>1. h.owned \subseteq h.cascade \union Kept(h)
    BY <1>1, <1>2 DEF Known, CascadeKnown
  <2>2. Kept(h) \subseteq ReferencedSims(st2.rules)
    <3>1. CASE h.req.table = "rules" /\ h.req.op = "put"
      BY <1>6, <3>1 DEF Kept, SaveRow, ReferencedSims
    <3>2. CASE ~(h.req.table = "rules" /\ h.req.op = "put")
      BY <3>2 DEF Kept
    <3> QED
      BY <3>1, <3>2
  <2>3. h2.owned = h.owned /\ h2.cascade = h.cascade
    BY DEF Keeps
  <2> QED
    BY <2>1, <2>2, <2>3 DEF OwnedKnown
<1> QED
  BY <1>2, <1>5, <1>6, <1>7 DEF Sound, Complete

-----------------------------------------------------------------------------
(* Lists of rules.                                                         *)
LEMMA SetListed ==
  ASSUME NEW S, IsFiniteSet(S)
  PROVE  /\ SetToSeq(S) \in Seq(ToSet(SetToSeq(S))) /\ ToSet(SetToSeq(S)) = S
         /\ \A i, j \in 1 .. Len(SetToSeq(S)) : SetToSeq(S)[i] = SetToSeq(S)[j] => i = j
<1> DEFINE n == Cardinality(S)
           f == SetToSeq(S)
<1>1. n \in Nat /\ ExistsBijection(1 .. n, S)
  BY FS_CardinalityType
<1>2. \E g \in [1 .. n -> S] : IsInjective(g)
  BY <1>1 DEF ExistsBijection, Bijection, Injection
<1>3. f \in [1 .. n -> S] /\ IsInjective(f)
  BY <1>2 DEF SetToSeq
<1> HIDE DEF f
<1>4. f \in Injection(1 .. n, S)
  BY <1>3 DEF Injection
<1>5. IsFiniteSet(1 .. n) /\ Cardinality(1 .. n) = n
  BY <1>1, FS_Interval
<1> HIDE DEF n
<1>6. f \in Surjection(1 .. n, S)
  <2>1. Cardinality(1 .. n) = Cardinality(S)
    BY <1>5 DEF n
  <2> QED
    BY <1>4, <2>1, FS_Injection
<1>7. DOMAIN f = 1 .. n /\ ToSet(f) = S
  BY <1>3, <1>6 DEF Surjection, ToSet
<1>8. f \in Seq(S) /\ Len(f) = n
  BY <1>1, <1>3
<1> QED
  BY <1>3, <1>7, <1>8 DEF IsInjective, f

LEMMA ListTail ==
  ASSUME NEW s, s \in Seq(ToSet(s)), s # << >>
  PROVE  /\ Tail(s) \in Seq(ToSet(Tail(s))) /\ ToSet(Tail(s)) \subseteq ToSet(s)
         /\ Head(s) = s[1] /\ Head(s) \in ToSet(s) /\ Len(s) \in Nat /\ 1 \in 1 .. Len(s)
         /\ Len(Tail(s)) = Len(s) - 1
         /\ \A i \in 1 .. Len(Tail(s)) : i + 1 \in 1 .. Len(s) /\ Tail(s)[i] = s[i + 1]
<1> DEFINE t == Tail(s)
<1>1. /\ Len(s) \in Nat \ {0} /\ DOMAIN s = 1 .. Len(s) /\ Head(s) = s[1]
      /\ t \in Seq(ToSet(s)) /\ Len(t) = Len(s) - 1 /\ DOMAIN t = 1 .. Len(t)
      /\ \A i \in 1 .. Len(s) - 1 : t[i] = s[i + 1]
  OBVIOUS
<1> HIDE DEF t
<1>2. \A i \in 1 .. Len(t) : i + 1 \in 1 .. Len(s) /\ t[i] = s[i + 1]
  BY <1>1
<1>3. ToSet(t) \subseteq ToSet(s) /\ s[1] \in ToSet(s)
  BY <1>1, <1>2 DEF ToSet
<1>4. t \in Seq(ToSet(t))
  <2>1. \A i \in 1 .. Len(t) : t[i] \in ToSet(t)
    BY <1>1 DEF ToSet
  <2>2. t = [i \in 1 .. Len(t) |-> t[i]] /\ Len(t) \in Nat
    BY <1>1
  <2> QED
    BY <2>1, <2>2
<1> QED
  BY <1>1, <1>2, <1>3, <1>4 DEF t

-----------------------------------------------------------------------------
(* The deletion of all rules.                                              *)
LEMMA ListSound ==
  ASSUME NEW h, Stepping(h, "list"), NEW st, StoreOK(st), NEW h2, Goes(h, h2),
         h2.stored = h.stored, h2.cascade = h.cascade,
         h2.owned = ReferencedSims(st.rules), h2.todo = SetToSeq(st.rules)
  PROVE  Sound(h, st, h2, st) /\ Complete(h, st, h2, st)
<1>1. /\ Known(h) /\ Road(h) /\ h.path # << >> /\ "list" = Head(h.path)
      /\ h2.req = h.req
  BY DEF Stepping, Goes, Known
<1>2. h2.todo \in Seq(ToSet(h2.todo)) /\ ToSet(h2.todo) = st.rules
  BY SetListed DEF StoreOK, Keyed
<1>3. "list" \in Left(h) /\ Left(h) \intersect {"write", "stored", "import", "rule"} = {}
  <2>1. "list" \in Left(h)
    BY <1>1, HeadKnown
  <2>2. /\ Left(h) \intersect {"stored", "import", "rule"} = {} /\ h.req \in Requests
        /\ Left(h) \ {"cascade", "sweep"} \subseteq ToSet(Steps(h.req))
    BY <1>1, <2>1, AdminLeft
  <2> QED
    BY <2>1, <2>2, StepsTell
<1>4. Road(h2) /\ Left(h2) = Left(h) \ {"list"}
  BY <1>1, <1>2, <1>3, ForwardRoad
<1>5. CascadeKnown(h2) /\ UniqueKnown(h2)
  BY <1>1, <1>3, <1>4 DEF Known, CascadeKnown, UniqueKnown
<1>6. BulkKnown(h2, st)
  BY <1>2 DEF StoreOK, Keyed, BulkKnown
<1>7. KnownOf(h2, st)
  BY <1>3, <1>4, <1>6, PastWrite
<1>8. OwnedKnown(h2, st)
  BY DEF OwnedKnown
<1> QED
  BY <1>4, <1>5, <1>7, <1>8 DEF Sound, Complete, Known

LEMMA BulkSound ==
  ASSUME NEW h, Stepping(h, "bulk"), NEW st, StoreOK(st), h.todo # << >>,
         NEW st2, Changed(st, "rules", DropRow(st.rules, Head(h.todo).id), st2),
         NEW h2, h2 = [f \in HandlerFields |-> h2[f]], h2.path = <<"cascade">> \o h.path,
         h2.req = h.req, h2.stored = h.stored, h2.owned = h.owned,
         h2.cascade = Head(h.todo).sims, h2.todo = Tail(h.todo)
  PROVE  Sound(h, st, h2, st2) /\ Complete(h, st, h2, st2)
<1>1. Known(h) /\ Road(h) /\ h.path # << >> /\ "bulk" = Head(h.path)
  BY DEF Stepping, Known
<1>2. /\ "bulk" \in Left(h) /\ Left(h) \intersect {"list", "write", "cascade", "sweep"} = {}
      /\ \A t \in Left(h) : t = "bulk" \/ Rank["bulk"] < Rank[t]
  BY <1>1, HeadKnown, Behind
<1>3. /\ Left(h) \intersect {"stored", "import", "rule", "sims"} = {} /\ h.req \in Requests
      /\ Left(h) \subseteq AdminSteps(h.req)
  BY <1>1, <1>2, AdminLeft, KindOf
<1>4. Ranked(h2.path) /\ Left(h2) = {"cascade"} \union Left(h)
  <2>1. \A t \in Left(h) : Rank["cascade"] < Rank[t]
    <3> SUFFICES ASSUME NEW t \in Left(h) PROVE Rank["cascade"] < Rank[t]
      OBVIOUS
    <3>1. t \in DOMAIN Rank
      BY <1>1, HeadKnown
    <3>2. Rank[t] \in Nat
      BY <3>1, RanksAreNumbers
    <3>3. Rank["cascade"] = 8 /\ Rank["bulk"] = 13
      BY RankIs
    <3>4. CASE t = "bulk"
      BY <3>3, <3>4
    <3>5. CASE t # "bulk"
      <4>1. Rank["bulk"] < Rank[t]
        BY <1>2, <3>5
      <4> QED
        BY <3>2, <3>3, <4>1
    <3> QED
      BY <3>4, <3>5
  <2>2. \A s \in ToSet(<<"cascade">>), t \in ToSet(h.path) : Rank[s] < Rank[t]
    BY <2>1, StepSets DEF Left
  <2>3. Ranked(h.path) /\ Ranked(<<"cascade">>)
    BY <1>1, StepsRanked DEF Road
  <2>4. /\ Ranked(<<"cascade">> \o h.path)
        /\ ToSet(<<"cascade">> \o h.path) = ToSet(<<"cascade">>) \union ToSet(h.path)
    BY <2>2, <2>3, RankedPrefix
  <2> QED
    BY <2>4, StepSets DEF Left
<1>5. /\ h2.todo \in Seq(ToSet(h2.todo)) /\ ToSet(h2.todo) \subseteq ToSet(h.todo)
      /\ Head(h.todo) \in ToSet(h.todo)
  BY <1>1, ListTail DEF Road
<1>6. Road(h2)
  <2>1. "cascade" \in AdminSteps(h.req)
    BY DEF AdminSteps
  <2>2. "reload" \in Left(h) /\ "owned" \notin Left(h)
    BY <1>1, <1>2 DEF Road
  <2> QED
    BY <1>2, <1>3, <1>4, <1>5, <2>1, <2>2 DEF Road
<1>7. CascadeKnown(h2) /\ UniqueKnown(h2)
  BY <1>2, <1>4 DEF CascadeKnown, UniqueKnown
<1>8. /\ StoreOK(st2) /\ st2.rules = DropRow(st.rules, Head(h.todo).id)
      /\ st2.sims = st.sims /\ (Resolved(st) => Resolved(st2))
  <2> DEFINE id == Head(h.todo).id
  <2> HIDE DEF id
  <2>1. Changed(st, "rules", DropRow(st.rules, id), st2)
    BY DEF id
  <2>2. /\ StoreOK(st2) /\ st2.rules = DropRow(st.rules, id)
        /\ st2.sims = st.sims /\ (Resolved(st) => Resolved(st2))
    BY ONLY StoreOK(st), <2>1, RulesDropped
  <2> QED
    BY <2>2 DEF id
<1>9. ASSUME KnownOf(h, st) PROVE KnownOf(h2, st2)
  <2>1. \A r \in ToSet(h.todo), x \in st.rules : x.id = r.id => x = r
    BY <1>2, <1>9 DEF KnownOf, BulkKnown
  <2>2. BulkKnown(h2, st2)
    BY <1>5, <1>8, <2>1 DEF BulkKnown, DropRow
  <2> QED
    BY <1>2, <1>3, <1>4, <2>2, PastWrite
<1>10. ASSUME KnownOf(h, st), OwnedKnown(h, st) PROVE OwnedKnown(h2, st2)
  <2>1. h.owned \intersect IdsOf(st.sims) \subseteq ReferencedSims(st.rules)
    <3>1. h.cascade = {} /\ Coming(h) = {} /\ "reload" \in Left(h)
      BY <1>1, <1>2, <1>3 DEF Known, CascadeKnown, Coming, Road
    <3> QED
      BY <1>2, <1>10, <3>1 DEF OwnedKnown
  <2>2. ReferencedSims(st.rules) \subseteq Head(h.todo).sims \union ReferencedSims(st2.rules)
    <3> SUFFICES ASSUME NEW r \in st.rules, NEW z \in r.sims, z \notin Head(h.todo).sims
                 PROVE  z \in ReferencedSims(st2.rules)
      BY DEF ReferencedSims
    <3>1. r # Head(h.todo)
      OBVIOUS
    <3>2. r.id # Head(h.todo).id
      BY <1>2, <1>5, <1>10, <3>1 DEF KnownOf, BulkKnown
    <3>3. r \in st2.rules
      BY <1>8, <3>2 DEF DropRow
    <3> QED
      BY <3>3 DEF ReferencedSims
  <2> QED
    BY <1>8, <2>1, <2>2 DEF OwnedKnown
<1> QED
  BY <1>6, <1>7, <1>8, <1>9, <1>10 DEF Sound, Complete, Known

-----------------------------------------------------------------------------
(* The cascade.                                                            *)
LEMMA CascadeReadSound ==
  ASSUME NEW h, Stepping(h, "cascade"), NEW st, StoreOK(st),
         NEW h2, h2 = [f \in HandlerFields |-> h2[f]], h2.path = <<"sweep">> \o Tail(h.path),
         h2.req = h.req, h2.stored = h.stored, h2.owned = h.owned, h2.todo = h.todo,
         h2.cascade = h.cascade \ ReferencedSims(st.rules)
  PROVE  Sound(h, st, h2, st) /\ Complete(h, st, h2, st)
<1>1. Known(h) /\ Road(h) /\ h.path # << >> /\ "cascade" = Head(h.path)
  BY DEF Stepping, Known
<1>2. /\ "cascade" \in Left(h) /\ Left(h) \intersect {"write", "owned"} = {}
      /\ \A t \in Left(h) : t = "cascade" \/ Rank["cascade"] < Rank[t]
      /\ "sweep" \notin Left(h) /\ Left(h) \subseteq DOMAIN Rank
  BY <1>1, HeadKnown, Behind, ZenonT(40) DEF Road
<1>3. Ranked(h2.path) /\ Left(h2) = {"sweep"} \union (Left(h) \ {"cascade"})
  <2>1. /\ Ranked(Tail(h.path)) /\ Ranked(<<"sweep">>)
        /\ ToSet(Tail(h.path)) = Left(h) \ {"cascade"} /\ ToSet(<<"sweep">>) = {"sweep"}
    BY <1>1, RankedTail, StepsRanked, StepSets DEF Road, Left
  <2>2. \A t \in Left(h) \ {"cascade"} : Rank["sweep"] < Rank[t]
    <3> SUFFICES ASSUME NEW t \in Left(h), t # "cascade" PROVE Rank["sweep"] < Rank[t]
      OBVIOUS
    <3>1. t \in DOMAIN Rank /\ t # "sweep" /\ Rank["cascade"] < Rank[t]
      BY <1>2
    <3>2. Rank["sweep"] = 9 /\ Rank["cascade"] = 8
      BY RankIs
    <3>3. Rank[t] \in Nat /\ Rank[t] # 9
      BY <3>1, RanksAreNumbers, OnlySweepIsNinth
    <3> QED
      BY <3>1, <3>2, <3>3
  <2>3. \A s \in ToSet(<<"sweep">>), t \in ToSet(Tail(h.path)) : Rank[s] < Rank[t]
    BY <2>1, <2>2
  <2>4. /\ Ranked(<<"sweep">> \o Tail(h.path))
        /\ ToSet(<<"sweep">> \o Tail(h.path)) = ToSet(<<"sweep">>) \union ToSet(Tail(h.path))
    BY <2>1, <2>3, RankedPrefix
  <2> QED
    BY <2>1, <2>4 DEF Left
<1>4. Road(h2)
  <2>1. \/ Left(h2) \subseteq {"reload"}
        \/ h2.req \in Requests /\ Left(h2) \subseteq AdminSteps(h2.req)
        \/ h2.req \in Imports /\ Left(h2) \subseteq TransferSteps
    BY <1>1, <1>2, <1>3, TransferSets DEF Road, AdminSteps
  <2> QED
    BY <1>1, <1>2, <1>3, <2>1 DEF Road
<1>5. CascadeKnown(h2) /\ UniqueKnown(h2)
  BY <1>2, <1>3 DEF CascadeKnown, UniqueKnown
<1>6. ASSUME KnownOf(h, st) PROVE KnownOf(h2, st)
  <2>1. RefsKnown(h2, st) /\ UniqueNow(h2, st) /\ UnusedKnown(h2, st)
    BY <1>2, <1>3 DEF RefsKnown, UniqueNow, UnusedKnown
  <2>2. FileKnown(h2, st) /\ LoopKnown(h2, st) /\ TurnKnown(h2, st) /\ BulkKnown(h2, st)
    BY <1>3, <1>6 DEF KnownOf, FileKnown, LoopKnown, TurnKnown, BulkKnown
  <2> QED
    BY <2>1, <2>2 DEF KnownOf
<1>7. ASSUME OwnedKnown(h, st) PROVE OwnedKnown(h2, st)
  <2>1. "reload" \in Left(h) /\ Coming(h2) = Coming(h)
    BY <1>1, <1>2, <1>3 DEF Road, Coming
  <2>2. h.owned \intersect IdsOf(st.sims) \subseteq
            h.cascade \union ReferencedSims(st.rules) \union Coming(h)
    BY <1>2, <1>7, <2>1 DEF OwnedKnown
  <2> QED
    BY <2>1, <2>2 DEF OwnedKnown
<1> QED
  BY <1>4, <1>5, <1>6, <1>7 DEF Sound, Complete, Known

(* The cascade is given up, or done.                                       *)
LEMMA CascadeOverSound ==
  ASSUME NEW h, NEW s, Stepping(h, s), NEW st, StoreOK(st), s \in {"cascade", "sweep"},
         NEW h2, Goes(h, h2), h2.stored = h.stored, h2.owned = h.owned, h2.todo = h.todo,
         h2.cascade = {}
  PROVE  /\ Sound(h, st, h2, st)
         /\ h.cascade = {} => Complete(h, st, h2, st)
<1>1. Known(h) /\ Road(h) /\ h.path # << >> /\ s = Head(h.path) /\ s # "reload" /\ h2.req = h.req
  BY DEF Stepping, Known, Goes
<1>2. Road(h2) /\ Left(h2) = Left(h) \ {s} /\ s \in Left(h)
  <2>1. h2.todo \in Seq(ToSet(h2.todo)) /\ ("rule" \in Left(h) => h2.todo # << >>)
    BY <1>1 DEF Road
  <2> QED
    BY <1>1, <2>1, ForwardRoad, HeadKnown
<1>3. "write" \notin Left(h)
  BY <1>1, Behind
<1>4. CascadeKnown(h2) /\ UniqueKnown(h2)
  BY <1>2, <1>3 DEF CascadeKnown, UniqueKnown
<1>5. ASSUME KnownOf(h, st) PROVE KnownOf(h2, st)
  <2>1. RefsKnown(h2, st) /\ UniqueNow(h2, st) /\ UnusedKnown(h2, st)
    BY <1>2, <1>3 DEF RefsKnown, UniqueNow, UnusedKnown
  <2>2. FileKnown(h2, st) /\ LoopKnown(h2, st) /\ TurnKnown(h2, st) /\ BulkKnown(h2, st)
    BY <1>1, <1>2, <1>5 DEF KnownOf, FileKnown, LoopKnown, TurnKnown, BulkKnown
  <2> QED
    BY <2>1, <2>2 DEF KnownOf
<1>6. h.cascade = {} /\ OwnedKnown(h, st) => OwnedKnown(h2, st)
  BY <1>1, <1>2, <1>3 DEF OwnedKnown, Coming
<1> QED
  BY <1>2, <1>4, <1>5, <1>6 DEF Sound, Complete, Known

(* One simulation less to delete, deleted or not.                          *)
LEMMA SweepSound ==
  ASSUME NEW h, Stepping(h, "sweep"), NEW st, NEW st2, StoreOK(st2), st2.rules = st.rules,
         st2.profiles = st.profiles, NEW sim,
         NEW h2, h2 = [f \in HandlerFields |-> h2[f]], h2.path = h.path, h2.req = h.req,
         h2.stored = h.stored, h2.owned = h.owned, h2.todo = h.todo,
         h2.cascade = h.cascade \ {sim}
  PROVE  /\ Sound(h, st, h2, st2)
         /\ IdsOf(st2.sims) \subseteq IdsOf(st.sims) \ {sim} => Complete(h, st, h2, st2)
<1>1. Known(h) /\ Road(h) /\ h.path # << >> /\ "sweep" = Head(h.path) /\ Left(h2) = Left(h)
  BY DEF Stepping, Known, Left
<1>2. "sweep" \in Left(h) /\ "write" \notin Left(h)
  BY <1>1, HeadKnown, Behind
<1>3. Road(h2)
  BY <1>1 DEF Road
<1>4. CascadeKnown(h2) /\ UniqueKnown(h2)
  BY <1>1, <1>2 DEF CascadeKnown, UniqueKnown
<1>5. ASSUME KnownOf(h, st) PROVE KnownOf(h2, st2)
  <2>1. KnownOf(h2, st)
    <3>1. RefsKnown(h2, st) /\ UniqueNow(h2, st) /\ UnusedKnown(h2, st)
      BY <1>1, <1>2 DEF RefsKnown, UniqueNow, UnusedKnown
    <3>2. FileKnown(h2, st) /\ BulkKnown(h2, st)
      BY <1>1, <1>5 DEF KnownOf, FileKnown, BulkKnown
    <3>3. LoopKnown(h2, st)
      BY <1>1, <1>5 DEF KnownOf, LoopKnown
    <3>4. TurnKnown(h2, st)
      BY <1>1, <1>5 DEF KnownOf, TurnKnown
    <3> QED
      BY <3>1, <3>2, <3>3, <3>4 DEF KnownOf
  <2> QED
    BY <2>1, StoreGrows
<1>6. Resolved(st) => Resolved(st2)
  BY DEF Resolved, FaultRefsResolve
<1>7. ASSUME IdsOf(st2.sims) \subseteq IdsOf(st.sims) \ {sim}, OwnedKnown(h, st)
      PROVE  OwnedKnown(h2, st2)
  BY <1>1, <1>7 DEF OwnedKnown, Coming
<1> QED
  BY <1>3, <1>4, <1>5, <1>6, <1>7 DEF Sound, Complete, Known

-----------------------------------------------------------------------------
(* The import.                                                             *)

(* What its validation accepts has its profiles in the file or the store,  *)
(* and no two rules with the same id or the same criteria.                 *)
LEMMA AcceptableFits ==
  ASSUME NEW cfg, cfg.rules \in Seq(ToSet(cfg.rules)), NEW st, ImportAcceptable(cfg, st)
  PROVE  Fits(cfg.rules, cfg, st)
<1> DEFINE list == cfg.rules
<1>1. DOMAIN list = 1 .. Len(list) /\ Len(list) \in Nat
  OBVIOUS
<1>2. ASSUME NEW i \in 1 .. Len(list)
      PROVE  /\ list[i].profiles \subseteq IdsOf(cfg.profiles \union st.profiles)
             /\ \A j \in 1 .. i - 1 : list[j].id # list[i].id /\ list[j].match # list[i].match
  <2> DEFINE before == {list[j] : j \in 1 .. i - 1}
  <2>1. /\ ~HasRow(before, list[i].id) /\ FindDuplicates(before, list[i]) = {}
        /\ list[i].profiles \subseteq IdsOf(cfg.profiles \union st.profiles)
    BY <1>1 DEF ImportAcceptable, RulesAcceptable
  <2>2. ASSUME NEW j \in 1 .. i - 1 PROVE list[j] \in before
    OBVIOUS
  <2> HIDE DEF before
  <2>3. \A x \in before : x.id # list[i].id /\ x.match # list[i].match
    BY <2>1 DEF HasRow, IdsOf, FindDuplicates
  <2> QED
    BY <2>1, <2>2, <2>3
<1> HIDE DEF list
<1>3. \A i, j \in 1 .. Len(list) : i < j => list[i].id # list[j].id /\ list[i].match # list[j].match
  <2> SUFFICES ASSUME NEW i \in 1 .. Len(list), NEW j \in 1 .. Len(list), i < j
               PROVE  list[i].id # list[j].id /\ list[i].match # list[j].match
    OBVIOUS
  <2>1. i \in 1 .. j - 1
    BY <1>1
  <2> QED
    BY <1>2, <2>1
<1> QED
  BY <1>2, <1>3 DEF Fits, list

(* The rules of a file after the first.                                    *)
LEMMA FitsTail ==
  ASSUME NEW list, list \in Seq(ToSet(list)), list # << >>, NEW cfg, NEW st, Fits(list, cfg, st)
  PROVE  /\ Fits(Tail(list), cfg, st)
         /\ Head(list).profiles \subseteq IdsOf(cfg.profiles \union st.profiles)
         /\ \A r \in ToSet(Tail(list)) : r.id # Head(list).id /\ r.match # Head(list).match
<1> DEFINE t == Tail(list)
<1>1. /\ Head(list) = list[1] /\ Len(list) \in Nat /\ 1 \in 1 .. Len(list)
      /\ Len(t) = Len(list) - 1 /\ t \in Seq(ToSet(t))
      /\ \A i \in 1 .. Len(t) : i + 1 \in 1 .. Len(list) /\ t[i] = list[i + 1]
  BY ListTail
<1>2. DOMAIN t = 1 .. Len(t)
  BY <1>1
<1> HIDE DEF t
<1>3. Fits(t, cfg, st)
  <2>1. \A i \in 1 .. Len(t) : t[i].profiles \subseteq IdsOf(cfg.profiles \union st.profiles)
    BY <1>1 DEF Fits
  <2>2. ASSUME NEW i \in 1 .. Len(t), NEW j \in 1 .. Len(t), i < j
        PROVE  t[i].id # t[j].id /\ t[i].match # t[j].match
    <3>1. i + 1 < j + 1 /\ i + 1 \in 1 .. Len(list) /\ j + 1 \in 1 .. Len(list)
      BY <1>1, <2>2
    <3>2. list[i + 1].id # list[j + 1].id /\ list[i + 1].match # list[j + 1].match
      BY <3>1 DEF Fits
    <3> QED
      BY <1>1, <3>2
  <2> QED
    BY <2>1, <2>2 DEF Fits
<1>4. ASSUME NEW r \in ToSet(t) PROVE r.id # list[1].id /\ r.match # list[1].match
  <2>1. PICK i \in 1 .. Len(t) : r = t[i]
    BY <1>2 DEF ToSet
  <2>2. i + 1 \in 1 .. Len(list) /\ r = list[i + 1] /\ 1 < i + 1
    BY <1>1, <2>1
  <2> QED
    BY <1>1, <2>2 DEF Fits
<1>5. list[1].profiles \subseteq IdsOf(cfg.profiles \union st.profiles)
  BY <1>1 DEF Fits
<1> QED
  BY <1>1, <1>3, <1>4, <1>5 DEF t

(* What an import knows apart from its loop and its turn.                  *)
LEMMA Transferring ==
  ASSUME NEW h, NEW st, Left(h) \intersect {"write", "bulk"} = {}, FileKnown(h, st),
         LoopKnown(h, st), TurnKnown(h, st)
  PROVE  KnownOf(h, st)
BY DEF KnownOf, RefsKnown, UniqueNow, UnusedKnown, BulkKnown

(* The rules conflicts are decided against are read, the loop begins.      *)
LEMMA ReadStoredSound ==
  ASSUME NEW h, Stepping(h, "stored"), NEW st, StoreOK(st),
         NEW h2, Goes(h, h2), h2.stored = st.rules, h2.owned = h.owned,
         h2.cascade = h.cascade, h2.todo = h.req.config.rules
  PROVE  Sound(h, st, h2, st) /\ Complete(h, st, h2, st)
<1>1. Known(h) /\ Road(h) /\ h.path # << >> /\ "stored" = Head(h.path) /\ h2.req = h.req
  BY DEF Stepping, Goes, Known
<1>2. /\ "stored" \in Left(h)
      /\ Left(h) \intersect {"validate", "rule", "sims", "profiles", "cascade", "sweep"} = {}
  BY <1>1, HeadKnown, Behind
<1>3. h.req \in Imports /\ Left(h) \intersect {"write", "bulk", "owned"} = {}
  BY <1>1, <1>2, ImportLeft
<1>4. h2.todo \in Seq(ToSet(h2.todo))
  BY <1>3, ImportAssumption
<1>5. Road(h2) /\ Left(h2) = Left(h) \ {"stored"}
  BY <1>1, <1>2, <1>4, ForwardRoad
<1>6. CascadeKnown(h2) /\ UniqueKnown(h2)
  BY <1>1, <1>2, <1>3, <1>5 DEF Known, CascadeKnown, UniqueKnown
<1>7. ASSUME KnownOf(h, st) PROVE KnownOf(h2, st)
  <2>1. Fits(h2.todo, h2.req.config, st)
    BY <1>1, <1>2, <1>7 DEF KnownOf, FileKnown
  <2>2. LoopKnown(h2, st)
    BY <2>1 DEF LoopKnown
  <2>3. FileKnown(h2, st) /\ TurnKnown(h2, st)
    BY <1>2, <1>5 DEF FileKnown, TurnKnown
  <2> QED
    BY <1>3, <1>5, <2>2, <2>3, Transferring
<1>8. OwnedKnown(h, st) => OwnedKnown(h2, st)
  BY <1>2, <1>5 DEF OwnedKnown, Coming
<1> QED
  BY <1>5, <1>6, <1>7, <1>8 DEF Sound, Complete, Known

(* What an import knows in its loop.                                       *)
LEMMA InLoop ==
  ASSUME NEW h, Stepping(h, "import")
  PROVE  /\ Known(h) /\ Road(h) /\ h.path # << >> /\ "import" = Head(h.path) /\ "import" \in Left(h)
         /\ Left(h) \intersect {"validate", "stored", "rule", "sims", "profiles", "cascade", "sweep"} = {}
         /\ h.req \in Imports /\ Left(h) \subseteq TransferSteps
         /\ Left(h) \intersect {"write", "bulk", "owned", "duplicates"} = {}
         /\ h.cascade = {} /\ "reload" \in Left(h)
         /\ \A t \in Left(h) : t = "import" \/ Rank["import"] < Rank[t]
<1>1. Known(h) /\ Road(h) /\ h.path # << >> /\ "import" = Head(h.path)
  BY DEF Stepping, Known
<1>2. /\ "import" \in Left(h)
      /\ Left(h) \intersect {"validate", "stored", "rule", "sims", "profiles", "cascade", "sweep"} = {}
      /\ \A t \in Left(h) : t = "import" \/ Rank["import"] < Rank[t]
  BY <1>1, HeadKnown, Behind
<1>3. /\ h.req \in Imports /\ Left(h) \subseteq TransferSteps
      /\ Left(h) \intersect {"write", "bulk", "owned", "duplicates"} = {}
  BY <1>1, <1>2, ImportLeft
<1>4. h.cascade = {} /\ "reload" \in Left(h)
  BY <1>1, <1>2 DEF Known, CascadeKnown, Road
<1> QED
  BY <1>1, <1>2, <1>3, <1>4

(* The rules still to come after the first.                                *)
LEMMA TodoTail ==
  ASSUME NEW h, Road(h), h.todo # << >>
  PROVE  /\ Tail(h.todo) \in Seq(ToSet(Tail(h.todo))) /\ ToSet(Tail(h.todo)) \subseteq ToSet(h.todo)
         /\ Head(h.todo) \in ToSet(h.todo)
         /\ \A cfg, st : Fits(h.todo, cfg, st) =>
                /\ Fits(Tail(h.todo), cfg, st)
                /\ Head(h.todo).profiles \subseteq IdsOf(cfg.profiles \union st.profiles)
                /\ \A r \in ToSet(Tail(h.todo)) :
                       r.id # Head(h.todo).id /\ r.match # Head(h.todo).match
<1> DEFINE list == h.todo
<1>1. list \in Seq(ToSet(list)) /\ list # << >>
  BY DEF Road
<1> HIDE DEF list
<1>2. /\ Tail(list) \in Seq(ToSet(Tail(list))) /\ ToSet(Tail(list)) \subseteq ToSet(list)
      /\ Head(list) \in ToSet(list)
  BY <1>1, ListTail
<1>3. \A cfg, st : Fits(list, cfg, st) =>
         /\ Fits(Tail(list), cfg, st)
         /\ Head(list).profiles \subseteq IdsOf(cfg.profiles \union st.profiles)
         /\ \A r \in ToSet(Tail(list)) : r.id # Head(list).id /\ r.match # Head(list).match
  BY <1>1, FitsTail
<1> QED
  BY <1>2, <1>3 DEF list

(* The turns of the loop: the rule is skipped, saved, or replaces another. *)
LEMMA SkipSound ==
  ASSUME NEW h, Stepping(h, "import"), h.todo # << >>, NEW st, StoreOK(st),
         NEW h2, h2 = [f \in HandlerFields |-> h2[f]], h2.path = h.path, h2.req = h.req,
         h2.stored = h.stored, h2.owned = h.owned, h2.cascade = h.cascade, h2.todo = Tail(h.todo)
  PROVE  Sound(h, st, h2, st) /\ Complete(h, st, h2, st)
<1>1. /\ Known(h) /\ Road(h)
      /\ Left(h) \intersect {"validate", "stored", "rule", "sims", "profiles", "cascade", "sweep"} = {}
      /\ Left(h) \intersect {"write", "bulk", "owned", "duplicates"} = {}
      /\ h.cascade = {} /\ "import" \in Left(h)
  BY InLoop
<1>2. Left(h2) = Left(h)
  BY DEF Left
<1>3. /\ h2.todo \in Seq(ToSet(h2.todo)) /\ ToSet(h2.todo) \subseteq ToSet(h.todo)
      /\ \A cfg : Fits(h.todo, cfg, st) => Fits(h2.todo, cfg, st)
  BY <1>1, TodoTail, ZenonT(40)
<1>4. Road(h2)
  BY <1>1, <1>2, <1>3 DEF Road
<1>5. CascadeKnown(h2) /\ UniqueKnown(h2)
  BY <1>1, <1>2 DEF CascadeKnown, UniqueKnown
<1>6. ASSUME KnownOf(h, st) PROVE KnownOf(h2, st)
  <2>1. /\ Fits(h.todo, h.req.config, st)
        /\ IdsOf(st.rules) \intersect IdsOf(ToSet(h.todo)) \subseteq IdsOf(h.stored)
        /\ \A y \in st.rules \ h.stored, r \in ToSet(h.todo) : y.match # r.match
    BY <1>1, <1>6 DEF KnownOf, LoopKnown
  <2>2. Fits(h2.todo, h2.req.config, st)
    BY <1>3, <2>1
  <2>3. IdsOf(ToSet(h2.todo)) \subseteq IdsOf(ToSet(h.todo))
    BY <1>3 DEF IdsOf
  <2>4. LoopKnown(h2, st)
    BY <1>3, <2>1, <2>2, <2>3 DEF LoopKnown
  <2>5. FileKnown(h2, st) /\ TurnKnown(h2, st)
    BY <1>1, <1>2 DEF FileKnown, TurnKnown
  <2> QED
    BY <1>1, <1>2, <2>4, <2>5, Transferring
<1>7. OwnedKnown(h, st) => OwnedKnown(h2, st)
  BY <1>1, <1>2 DEF OwnedKnown, Coming
<1> QED
  BY <1>4, <1>5, <1>6, <1>7 DEF Sound, Complete, Known


(* The steps that save one rule, put before the loop.                      *)
LEMMA PutBefore ==
  ASSUME NEW h, Stepping(h, "import"), NEW q, Ranked(q),
         ToSet(q) \subseteq {"cascade", "sims", "profiles", "rule"}
  PROVE  Ranked(q \o h.path) /\ ToSet(q \o h.path) = ToSet(q) \union Left(h)
<1>1. /\ Road(h) /\ Left(h) \subseteq DOMAIN Rank
      /\ \A t \in Left(h) : t = "import" \/ Rank["import"] < Rank[t]
  BY InLoop, HeadKnown
<1>2. ASSUME NEW s \in ToSet(q), NEW t \in Left(h) PROVE Rank[s] < Rank[t]
  <2>1. Rank[s] \in {8, 10, 11, 12} /\ Rank["import"] = 16
    BY RankIs
  <2>2. Rank[t] \in Nat
    BY <1>1, RanksAreNumbers
  <2>3. CASE t = "import"
    BY <2>1, <2>3
  <2>4. CASE t # "import"
    <3>1. Rank["import"] < Rank[t]
      BY <1>1, <2>4
    <3> QED
      BY <2>1, <2>2, <3>1
  <2> QED
    BY <2>3, <2>4
<1>3. Ranked(h.path) /\ ToSet(h.path) = Left(h)
  BY <1>1 DEF Road, Left
<1> QED
  BY <1>2, <1>3, RankedPrefix

LEMMA SaveSound ==
  ASSUME NEW h, Stepping(h, "import"), h.todo # << >>, NEW st, StoreOK(st),
         Conflicting(h.stored, Head(h.todo)) = {},
         NEW h2, h2 = [f \in HandlerFields |-> h2[f]], h2.path = SaveSteps \o h.path, h2.req = h.req,
         h2.stored = h.stored, h2.owned = h.owned, h2.cascade = h.cascade, h2.todo = h.todo
  PROVE  Sound(h, st, h2, st) /\ Complete(h, st, h2, st)
<1>1. /\ Known(h) /\ Road(h) /\ h.req \in Imports /\ Left(h) \subseteq TransferSteps
      /\ Left(h) \intersect {"validate", "stored", "rule", "sims", "profiles", "cascade", "sweep"} = {}
      /\ Left(h) \intersect {"write", "bulk", "owned", "duplicates"} = {}
      /\ h.cascade = {} /\ "import" \in Left(h) /\ "reload" \in Left(h)
  BY InLoop
<1>2. Ranked(h2.path) /\ Left(h2) = {"sims", "profiles", "rule"} \union Left(h)
  <2> DEFINE q == SaveSteps
  <2>1. Ranked(q) /\ ToSet(q) = {"sims", "profiles", "rule"} /\ h2.path = q \o h.path
    BY StepsRanked, StepSets
  <2> HIDE DEF q
  <2>2. Ranked(q \o h.path) /\ ToSet(q \o h.path) = ToSet(q) \union Left(h)
    BY ONLY Stepping(h, "import"), <2>1, PutBefore
  <2> QED
    BY ONLY <2>1, <2>2 DEF Left
<1>3. Left(h2) \subseteq TransferSteps
  BY <1>1, <1>2, TransferSets
<1>4. Road(h2)
  BY <1>1, <1>2, <1>3 DEF Road
<1>5. CascadeKnown(h2) /\ UniqueKnown(h2)
  BY <1>1, <1>2 DEF CascadeKnown, UniqueKnown
<1>6. ASSUME KnownOf(h, st) PROVE KnownOf(h2, st)
  <2>1. LoopKnown(h2, st)
    BY <1>1, <1>2, <1>6 DEF KnownOf, LoopKnown
  <2>2. TurnKnown(h2, st)
    <3> DEFINE r == Head(h.todo)
    <3>1. r \in ToSet(h.todo)
      BY <1>1, TodoTail
    <3>2. IdsOf(st.rules) \intersect IdsOf(ToSet(h.todo)) \subseteq IdsOf(h.stored)
      BY <1>1, <1>6 DEF KnownOf, LoopKnown
    <3> HIDE DEF r
    <3>3. r.id \notin IdsOf(h.stored)
      BY DEF Conflicting, IdsOf, r
    <3>4. ~HasRow(st.rules, r.id)
      BY <3>1, <3>2, <3>3 DEF HasRow, IdsOf
    <3> QED
      BY <1>2, <3>4 DEF TurnKnown, r
  <2>3. FileKnown(h2, st)
    BY <1>1, <1>2 DEF FileKnown
  <2> QED
    BY <1>1, <1>2, <2>1, <2>2, <2>3, Transferring
<1>7. OwnedKnown(h, st) => OwnedKnown(h2, st)
  BY <1>1, <1>2 DEF OwnedKnown, Coming
<1> QED
  BY <1>4, <1>5, <1>6, <1>7 DEF Sound, Complete, Known

LEMMA OverrideSound ==
  ASSUME NEW h, Stepping(h, "import"), h.todo # << >>, NEW st, StoreOK(st),
         NEW ex \in Conflicting(h.stored, Head(h.todo)),
         NEW st2, Changed(st, "rules", DropRow(st.rules, ex.id), st2),
         NEW h2, h2 = [f \in HandlerFields |-> h2[f]],
         h2.path = (<<"cascade">> \o SaveSteps) \o h.path, h2.req = h.req,
         h2.stored = h.stored, h2.owned = ex.sims, h2.cascade = ex.sims \ Head(h.todo).sims,
         h2.todo = h.todo
  PROVE  Sound(h, st, h2, st2) /\ Complete(h, st, h2, st2)
<1>1. /\ Known(h) /\ Road(h) /\ h.req \in Imports /\ Left(h) \subseteq TransferSteps
      /\ Left(h) \intersect {"validate", "stored", "rule", "sims", "profiles", "cascade", "sweep"} = {}
      /\ Left(h) \intersect {"write", "bulk", "owned", "duplicates"} = {}
      /\ h.cascade = {} /\ "import" \in Left(h) /\ "reload" \in Left(h)
  BY InLoop
<1>2. Ranked(h2.path) /\ Left(h2) = {"cascade", "sims", "profiles", "rule"} \union Left(h)
  <2> DEFINE q == <<"cascade">> \o SaveSteps
  <2>1. Ranked(q) /\ ToSet(q) = {"cascade", "sims", "profiles", "rule"} /\ h2.path = q \o h.path
    BY StepsRanked, TransferSets
  <2> HIDE DEF q
  <2>2. Ranked(q \o h.path) /\ ToSet(q \o h.path) = ToSet(q) \union Left(h)
    BY ONLY Stepping(h, "import"), <2>1, PutBefore
  <2> QED
    BY ONLY <2>1, <2>2 DEF Left
<1>3. Left(h2) \subseteq TransferSteps
  BY <1>1, <1>2, TransferSets
<1>4. Road(h2)
  BY <1>1, <1>2, <1>3 DEF Road
<1>5. CascadeKnown(h2) /\ UniqueKnown(h2)
  BY <1>1, <1>2 DEF CascadeKnown, UniqueKnown
<1>6. /\ StoreOK(st2) /\ st2.rules = DropRow(st.rules, ex.id)
      /\ st2.profiles = st.profiles /\ st2.sims = st.sims /\ (Resolved(st) => Resolved(st2))
  <2> DEFINE id == ex.id
  <2> HIDE DEF id
  <2>1. Changed(st, "rules", DropRow(st.rules, id), st2)
    BY DEF id
  <2>2. /\ StoreOK(st2) /\ st2.rules = DropRow(st.rules, id)
        /\ st2.profiles = st.profiles /\ st2.sims = st.sims /\ (Resolved(st) => Resolved(st2))
    BY ONLY StoreOK(st), <2>1, RulesDropped
  <2> QED
    BY <2>2 DEF id
<1>7. ASSUME KnownOf(h, st) PROVE KnownOf(h2, st2)
  <2>1. /\ Fits(h.todo, h.req.config, st)
        /\ IdsOf(st.rules) \intersect IdsOf(ToSet(h.todo)) \subseteq IdsOf(h.stored)
        /\ \A y \in st.rules \ h.stored, r \in ToSet(h.todo) : y.match # r.match
    BY <1>1, <1>7 DEF KnownOf, LoopKnown
  <2>2. IdsOf(st2.rules) \subseteq IdsOf(st.rules) /\ st2.rules \subseteq st.rules
        /\ ex.id \notin IdsOf(st2.rules)
    BY <1>6 DEF DropRow, IdsOf
  <2>3. Fits(h.todo, h.req.config, st2)
    BY <1>6, <2>1 DEF Fits
  <2>4. LoopKnown(h2, st2)
    BY <2>1, <2>2, <2>3 DEF LoopKnown
  <2>5. TurnKnown(h2, st2)
    <3> DEFINE r == Head(h.todo)
    <3>1. r \in ToSet(h.todo)
      BY <1>1, TodoTail
    <3> HIDE DEF r
    <3>2. r.id \in IdsOf(h.stored) => ex.id = r.id
      BY DEF Conflicting, IdsOf, r
    <3>3. ~HasRow(st2.rules, r.id)
      BY <2>1, <2>2, <3>1, <3>2 DEF HasRow, IdsOf
    <3>4. ~HasRow(st2.rules, ex.id)
      BY <2>2 DEF HasRow
    <3> QED
      BY <1>2, <3>3, <3>4 DEF TurnKnown, r
  <2>6. FileKnown(h2, st2)
    BY <1>1, <1>2 DEF FileKnown
  <2> QED
    BY <1>1, <1>2, <2>4, <2>5, <2>6, Transferring
<1>8. OwnedKnown(h2, st2)
  BY <1>2 DEF OwnedKnown, Coming
<1> QED
  BY <1>4, <1>5, <1>6, <1>7, <1>8 DEF Sound, Complete, Known


(* Rows of the file, written to the table of the step, all or some.        *)
Fitting(h, s, t, rows) ==
    \/ s = "sims" /\ t = "sims" /\ \A x \in rows : x.id \in Head(h.todo).sims
    \/ s = "profiles" /\ t = "profiles"
    \/ s = "rule" /\ t = "rules" /\ rows \subseteq {Head(h.todo)}
    \/ s \in {"scenarios", "eventRules"} /\ t = s

LEMMA RowsKeyed ==
  ASSUME NEW rows, Keyed(rows), NEW r, NEW new, new \subseteq {r}
  PROVE  Keyed(SaveRows(rows, new))
<1>1. CASE new = {}
  <2>1. SaveRows(rows, new) = rows
    BY <1>1 DEF SaveRows, IdsOf
  <2> QED
    BY <2>1
<1>2. CASE new = {r}
  <2>1. SaveRows(rows, new) = SaveRow(rows, r)
    BY <1>2 DEF SaveRows, SaveRow, IdsOf
  <2> QED
    BY <2>1, RowsSaved
<1> QED
  BY <1>1, <1>2

(* What writing some of them leaves behind.                                *)
LEMMA SavedGood ==
  ASSUME NEW h, NEW s, Stepping(h, s), NEW st, StoreOK(st), NEW t, NEW rows, Fitting(h, s, t, rows),
         NEW st2, Changed(st, t, SaveRows(st[t], rows), st2)
  PROVE  /\ StoreOK(st2)
         /\ Resolved(st) /\ KnownOf(h, st) => Resolved(st2)
         /\ t # "rules" => st2.rules = st.rules
         /\ t # "sims" => st2.sims = st.sims
         /\ IdsOf(st.profiles) \subseteq IdsOf(st2.profiles)
         /\ st2[t] = SaveRows(st[t], rows)
<1>1. Known(h) /\ Road(h) /\ h.path # << >> /\ s = Head(h.path) /\ s \in Left(h)
  BY HeadKnown DEF Stepping, Known
<1>2. t \in Table
  BY DEF Fitting, Table
<1>3. t = "rules" => Keyed(SaveRows(st[t], rows))
  BY RowsKeyed DEF Fitting, StoreOK
<1>4. /\ StoreOK(st2) /\ st2[t] = SaveRows(st[t], rows)
      /\ t # "rules" => st2.rules = st.rules
      /\ t # "profiles" => st2.profiles = st.profiles
      /\ t # "sims" => st2.sims = st.sims
  <2> DEFINE new == SaveRows(st[t], rows)
  <2> HIDE DEF new
  <2>1. (t = "rules" => Keyed(new)) /\ Changed(st, t, new, st2)
    BY <1>3 DEF new
  <2>2. /\ StoreOK(st2) /\ st2[t] = new
        /\ t # "rules" => st2.rules = st.rules
        /\ t # "profiles" => st2.profiles = st.profiles
        /\ t # "sims" => st2.sims = st.sims
    BY <1>2, <2>1, TableChanged
  <2> QED
    BY <2>2 DEF new
<1>5. IdsOf(st.profiles) \subseteq IdsOf(st2.profiles)
  <2>1. CASE t = "profiles"
    <3>1. st2.profiles = SaveRows(st.profiles, rows)
      BY <1>4, <2>1
    <3> QED
      BY <3>1, SavedIds
  <2>2. CASE t # "profiles"
    BY <1>4, <2>2
  <2> QED
    BY <2>1, <2>2
<1>6. ASSUME Resolved(st), KnownOf(h, st) PROVE Resolved(st2)
  <2>1. CASE t # "rules"
    BY <1>4, <1>5, <1>6, <2>1, MoreProfiles
  <2>2. CASE t = "rules"
    <3>1. s = "rule" /\ rows \subseteq {Head(h.todo)}
      BY <2>2 DEF Fitting
    <3>2. "rule" \in Left(h) /\ "profiles" \notin Left(h)
      BY <1>1, <3>1, Behind
    <3>3. Head(h.todo).profiles \subseteq IdsOf(st.profiles)
      BY <1>6, <3>2 DEF KnownOf, TurnKnown
    <3>4. st2.rules \subseteq st.rules \union rows
      BY <1>4, <2>2 DEF SaveRows
    <3> QED
      BY <1>5, <1>6, <3>1, <3>3, <3>4 DEF Resolved, FaultRefsResolve
  <2> QED
    BY <2>1, <2>2
<1> QED
  BY <1>4, <1>5, <1>6

(* The scenarios and event rules of the file.                              *)
LEMMA RestSound ==
  ASSUME NEW h, NEW s \in {"scenarios", "eventRules"}, Stepping(h, s), NEW st, StoreOK(st),
         NEW rows, NEW st2, Changed(st, s, SaveRows(st[s], rows), st2),
         NEW h2, Goes(h, h2), Keeps(h, h2)
  PROVE  Sound(h, st, h2, st2) /\ Complete(h, st, h2, st2)
<1>1. Known(h) /\ h.path # << >> /\ s = Head(h.path) /\ s # "reload"
  BY DEF Stepping
<1>2. Fitting(h, s, s, rows)
  BY DEF Fitting
<1>3. /\ StoreOK(st2) /\ (Resolved(st) /\ KnownOf(h, st) => Resolved(st2))
      /\ st2.rules = st.rules /\ st2.sims = st.sims /\ IdsOf(st.profiles) \subseteq IdsOf(st2.profiles)
  BY <1>2, SavedGood
<1>4. Known(h2)
  BY <1>1, ForwardKnown DEF Known
<1>5. ASSUME KnownOf(h, st) PROVE KnownOf(h2, st2)
  <2>1. KnownOf(h2, st)
    BY <1>1, <1>5, ForwardKnown DEF KnownOf
  <2> QED
    BY <1>3, <2>1, StoreGrows
<1>6. ASSUME OwnedKnown(h, st) PROVE OwnedKnown(h2, st2)
  <2>1. OwnedKnown(h2, st)
    BY <1>1, <1>6, ForwardKnown
  <2> QED
    BY <1>3, <2>1 DEF OwnedKnown
<1> QED
  BY <1>3, <1>4, <1>5, <1>6 DEF Sound, Complete

(* The simulations of the rule, which only it may refer to so far.         *)
LEMMA SimsSound ==
  ASSUME NEW h, Stepping(h, "sims"), NEW st, StoreOK(st),
         NEW rows, \A x \in rows : x.id \in Head(h.todo).sims,
         NEW st2, Changed(st, "sims", SaveRows(st.sims, rows), st2),
         NEW h2, Goes(h, h2), Keeps(h, h2)
  PROVE  Sound(h, st, h2, st2) /\ Complete(h, st, h2, st2)
<1>1. Known(h) /\ h.path # << >> /\ "sims" = Head(h.path) /\ "sims" \in Left(h)
  BY HeadKnown DEF Stepping, Known
<1>2. Fitting(h, "sims", "sims", rows)
  BY DEF Fitting
<1>3. /\ StoreOK(st2) /\ (Resolved(st) /\ KnownOf(h, st) => Resolved(st2))
      /\ st2.rules = st.rules /\ IdsOf(st.profiles) \subseteq IdsOf(st2.profiles)
      /\ st2.sims = SaveRows(st.sims, rows)
  BY <1>2, SavedGood
<1>4. Known(h2) /\ Left(h2) = Left(h) \ {"sims"}
  BY <1>1, ForwardKnown DEF Known
<1>5. ASSUME KnownOf(h, st) PROVE KnownOf(h2, st2)
  <2>1. KnownOf(h2, st)
    BY <1>1, <1>5, ForwardKnown DEF KnownOf
  <2> QED
    BY <1>3, <2>1, StoreGrows
<1>6. ASSUME OwnedKnown(h, st) PROVE OwnedKnown(h2, st2)
  <2>1. OwnedKnown(h2, st)
    BY <1>1, <1>6, ForwardKnown
  <2>2. IdsOf(st2.sims) = IdsOf(st.sims) \union IdsOf(rows)
    BY <1>3, SavedIds
  <2>3. IdsOf(rows) \subseteq Coming(h2)
    <3>1. "rule" \in Left(h2) /\ h2.todo = h.todo
      BY <1>1, <1>4 DEF Known, Road, Keeps
    <3> QED
      BY <3>1 DEF Coming, IdsOf
  <2> QED
    BY <1>3, <2>1, <2>2, <2>3 DEF OwnedKnown
<1> QED
  BY <1>3, <1>4, <1>5, <1>6 DEF Sound, Complete

(* The profiles of the rule: with those stored already, all it refers to.  *)
LEMMA ProfilesSound ==
  ASSUME NEW h, Stepping(h, "profiles"), NEW st, StoreOK(st), NEW rows,
         rows = {x \in h.req.config.profiles : x.id \in Head(h.todo).profiles},
         NEW st2, Changed(st, "profiles", SaveRows(st.profiles, rows), st2),
         NEW h2, Goes(h, h2), Keeps(h, h2)
  PROVE  Sound(h, st, h2, st2) /\ Complete(h, st, h2, st2)
<1>1. /\ Known(h) /\ Road(h) /\ h.path # << >> /\ "profiles" = Head(h.path) /\ "profiles" \in Left(h)
      /\ h2.req = h.req /\ h2.todo = h.todo
  BY HeadKnown DEF Stepping, Known, Goes, Keeps
<1>2. Fitting(h, "profiles", "profiles", rows)
  BY DEF Fitting
<1>3. /\ StoreOK(st2) /\ (Resolved(st) /\ KnownOf(h, st) => Resolved(st2))
      /\ st2.rules = st.rules /\ st2.sims = st.sims /\ IdsOf(st.profiles) \subseteq IdsOf(st2.profiles)
      /\ st2.profiles = SaveRows(st.profiles, rows)
  BY <1>2, SavedGood
<1>4. Known(h2) /\ Left(h2) = Left(h) \ {"profiles"}
  BY <1>1, ForwardKnown DEF Known
<1>5. ASSUME KnownOf(h, st) PROVE KnownOf(h2, st2)
  <2>1. RefsKnown(h2, st) /\ UniqueNow(h2, st) /\ UnusedKnown(h2, st) /\ FileKnown(h2, st)
        /\ LoopKnown(h2, st) /\ BulkKnown(h2, st)
    BY <1>1, <1>5, ForwardKnown DEF KnownOf
  <2>2. TurnKnown(h2, st2)
    <3> SUFFICES ASSUME "rule" \in Left(h2) PROVE TurnKnown(h2, st2)
      BY DEF TurnKnown
    <3>1. "rule" \in Left(h) /\ "import" \in Left(h) /\ "stored" \notin Left(h)
      BY <1>1, <1>4 DEF Road
    <3>2. /\ h.todo # << >>
          /\ ~HasRow(st.rules, Head(h.todo).id)
          /\ \/ Conflicting(h.stored, Head(h.todo)) = {}
             \/ \E ex \in Conflicting(h.stored, Head(h.todo)) : ~HasRow(st.rules, ex.id)
      BY <1>5, <3>1 DEF KnownOf, TurnKnown
    <3>3. Fits(h.todo, h.req.config, st)
      BY <1>5, <3>1 DEF KnownOf, LoopKnown
    <3>4. Head(h.todo).profiles \subseteq IdsOf(h.req.config.profiles \union st.profiles)
      BY <1>1, <3>2, <3>3, TodoTail
    <3>5. Head(h.todo).profiles \subseteq IdsOf(rows) \union IdsOf(st.profiles)
      BY <3>4 DEF IdsOf
    <3>6. Head(h.todo).profiles \subseteq IdsOf(st2.profiles)
      BY <1>3, <3>5, SavedIds
    <3> QED
      BY <1>1, <1>3, <3>2, <3>6 DEF TurnKnown, Keeps
  <2>3. ASSUME NEW list, NEW cfg, Fits(list, cfg, st) PROVE Fits(list, cfg, st2)
    <3>1. IdsOf(cfg.profiles \union st.profiles) \subseteq IdsOf(cfg.profiles \union st2.profiles)
      BY <1>3 DEF IdsOf
    <3> QED
      BY <2>3, <3>1 DEF Fits
  <2>4. LoopKnown(h2, st2) /\ FileKnown(h2, st2)
    BY <1>3, <2>1, <2>3 DEF LoopKnown, FileKnown
  <2>5. Left(h2) \intersect {"write", "bulk"} = {}
    BY <1>1, <1>4, ImportLeft
  <2> QED
    BY <2>2, <2>4, <2>5, Transferring
<1>6. ASSUME OwnedKnown(h, st) PROVE OwnedKnown(h2, st2)
  <2>1. OwnedKnown(h2, st)
    BY <1>1, <1>6, ForwardKnown
  <2> QED
    BY <1>3, <2>1 DEF OwnedKnown
<1> QED
  BY <1>3, <1>4, <1>5, <1>6 DEF Sound, Complete


(* The rule itself.                                                        *)
LEMMA RuleSound ==
  ASSUME NEW h, Stepping(h, "rule"), NEW st, StoreOK(st), NEW rows, rows = {Head(h.todo)},
         NEW st2, Changed(st, "rules", SaveRows(st.rules, rows), st2),
         NEW h2, Goes(h, h2), h2.stored = h.stored, h2.owned = h.owned,
         h2.cascade = h.cascade, h2.todo = Tail(h.todo)
  PROVE  Sound(h, st, h2, st2) /\ Complete(h, st, h2, st2)
<1> DEFINE r == Head(h.todo)
<1>1. /\ Known(h) /\ Road(h) /\ h.path # << >> /\ "rule" = Head(h.path) /\ h2.req = h.req
  BY DEF Stepping, Known, Goes
<1>2. /\ "rule" \in Left(h) /\ Left(h) \intersect {"sims", "profiles", "cascade", "sweep"} = {}
      /\ "import" \in Left(h) /\ "stored" \notin Left(h) /\ "reload" \in Left(h)
      /\ h.todo # << >>
  BY <1>1, HeadKnown, Behind DEF Road
<1>3. Left(h) \intersect {"write", "bulk", "duplicates"} = {}
  BY <1>1, <1>2, ImportLeft
<1>4. /\ h2.todo \in Seq(ToSet(h2.todo)) /\ ToSet(h2.todo) \subseteq ToSet(h.todo)
      /\ r \in ToSet(h.todo)
      /\ \A cfg : Fits(h.todo, cfg, st) =>
            /\ Fits(h2.todo, cfg, st)
            /\ \A q \in ToSet(h2.todo) : q.id # r.id /\ q.match # r.match
  BY <1>1, <1>2, TodoTail
<1> HIDE DEF r
<1>5. Road(h2) /\ Left(h2) = Left(h) \ {"rule"}
  BY <1>1, <1>4, ForwardRoad
<1>6. CascadeKnown(h2) /\ UniqueKnown(h2)
  BY <1>1, <1>2, <1>3, <1>5 DEF Known, CascadeKnown, UniqueKnown
<1>7. Fitting(h, "rule", "rules", rows)
  BY DEF Fitting
<1>8. /\ StoreOK(st2) /\ (Resolved(st) /\ KnownOf(h, st) => Resolved(st2))
      /\ st2.sims = st.sims /\ IdsOf(st.profiles) \subseteq IdsOf(st2.profiles)
      /\ st2.rules = SaveRows(st.rules, rows)
  BY <1>7, SavedGood
<1>9. /\ IdsOf(st2.rules) = IdsOf(st.rules) \union {r.id}
      /\ st2.rules \subseteq st.rules \union {r} /\ r \in st2.rules
  <2>1. IdsOf(rows) = {r.id} /\ rows = {r}
    BY DEF IdsOf, r
  <2>2. IdsOf(st2.rules) = IdsOf(st.rules) \union IdsOf(rows)
    BY <1>8, SavedIds
  <2> QED
    BY <1>8, <2>1, <2>2 DEF SaveRows
<1>10. ASSUME KnownOf(h, st) PROVE KnownOf(h2, st2)
  <2>1. /\ Fits(h.todo, h.req.config, st)
        /\ IdsOf(st.rules) \intersect IdsOf(ToSet(h.todo)) \subseteq IdsOf(h.stored)
        /\ \A y \in st.rules \ h.stored, q \in ToSet(h.todo) : y.match # q.match
    BY <1>2, <1>10 DEF KnownOf, LoopKnown
  <2>2. /\ Fits(h2.todo, h.req.config, st)
        /\ \A q \in ToSet(h2.todo) : q.id # r.id /\ q.match # r.match
    BY <1>4, <2>1
  <2>3. Fits(h2.todo, h.req.config, st2)
    <3>1. IdsOf(h.req.config.profiles \union st.profiles)
              \subseteq IdsOf(h.req.config.profiles \union st2.profiles)
      BY <1>8 DEF IdsOf
    <3> QED
      BY <2>2, <3>1 DEF Fits
  <2>4. /\ IdsOf(ToSet(h2.todo)) \subseteq IdsOf(ToSet(h.todo))
        /\ r.id \notin IdsOf(ToSet(h2.todo))
    BY <1>4, <2>2 DEF IdsOf
  <2>5. IdsOf(st2.rules) \intersect IdsOf(ToSet(h2.todo)) \subseteq IdsOf(h.stored)
    BY <1>9, <2>1, <2>4
  <2>6. \A y \in st2.rules \ h.stored, q \in ToSet(h2.todo) : y.match # q.match
    BY <1>4, <1>9, <2>1, <2>2
  <2>7. LoopKnown(h2, st2)
    BY <1>1, <2>3, <2>5, <2>6 DEF LoopKnown
  <2>8. FileKnown(h2, st2) /\ TurnKnown(h2, st2)
    BY <1>2, <1>5 DEF FileKnown, TurnKnown
  <2> QED
    BY <1>3, <1>5, <2>7, <2>8, Transferring
<1>11. ASSUME KnownOf(h, st), OwnedKnown(h, st) PROVE OwnedKnown(h2, st2)
  <2>1. h.owned \intersect IdsOf(st.sims) \subseteq
            h.cascade \union ReferencedSims(st.rules) \union Coming(h)
    BY <1>2, <1>3, <1>11 DEF OwnedKnown
  <2>2. Coming(h) = r.sims /\ r.sims \subseteq ReferencedSims(st2.rules)
    BY <1>2, <1>9 DEF Coming, ReferencedSims, r
  <2>3. ~HasRow(st.rules, r.id)
    BY <1>2, <1>11 DEF KnownOf, TurnKnown, r
  <2>4. st.rules \subseteq st2.rules
    BY <1>8, <2>3 DEF SaveRows, HasRow, IdsOf, r
  <2>5. ReferencedSims(st.rules) \subseteq ReferencedSims(st2.rules)
    BY <2>4 DEF ReferencedSims
  <2> QED
    BY <1>8, <2>1, <2>2, <2>5 DEF OwnedKnown
<1> QED
  BY <1>5, <1>6, <1>8, <1>10, <1>11 DEF Sound, Complete, Known

-----------------------------------------------------------------------------
(* Handlers together.                                                      *)
LEMMA NothingLeft ==
  ASSUME NEW h, Left(h) = {}, NEW st
  PROVE  KnownOf(h, st) /\ OwnedKnown(h, st)
<1>1. RefsKnown(h, st) /\ UniqueNow(h, st) /\ UnusedKnown(h, st) /\ FileKnown(h, st)
  BY DEF RefsKnown, UniqueNow, UnusedKnown, FileKnown
<1>2. LoopKnown(h, st) /\ TurnKnown(h, st) /\ BulkKnown(h, st)
  BY DEF LoopKnown, TurnKnown, BulkKnown
<1>3. OwnedKnown(h, st)
  BY DEF OwnedKnown
<1> QED
  BY <1>1, <1>2, <1>3 DEF KnownOf

(* A step of one handler.                                                  *)
LEMMA TurnKeeps ==
  ASSUME IInv, DataInv, NEW c \in Clients, Busy(c), UNCHANGED overlapped,
         NEW h, h = handler[c], NEW h2, handler' = [handler EXCEPT ![c] = h2],
         NEW st, st = store, NEW st2, st2 = store', Sound(h, st, h2, st2),
         \/ UNCHANGED failures /\ Complete(h, st, h2, st2)
         \/ failures' = failures + 1
  PROVE  DataInv'
<1>1. handler'[c] = h2 /\ \A d \in Clients \ {c} : handler'[d] = handler[d]
  BY DEF IInv, PathInv, HandlersTyped
<1>2. StoreOK(store') /\ \A d \in Clients : Known(handler'[d])
  BY <1>1 DEF DataInv, Sound
<1>3. failures' \in Nat /\ (failures' = 0 => failures = 0 /\ Complete(h, st, h2, st2))
  BY DEF DataInv
<1>4. ASSUME ~overlapped'
      PROVE  /\ Alone' /\ Resolved(store')
             /\ \A d \in Clients : KnownOf(handler'[d], store')
             /\ failures' = 0 => \A d \in Clients : OwnedKnown(handler'[d], store')
  <2>1. Alone /\ Resolved(store) /\ \A d \in Clients : KnownOf(handler[d], store)
    BY <1>4 DEF DataInv
  <2>2. \A d \in Clients \ {c} : handler[d].path = << >>
    BY <2>1 DEF Alone, Busy
  <2>3. Alone'
    BY <1>1, <2>2 DEF Alone, Busy
  <2>4. Resolved(st2) /\ KnownOf(h2, st2)
    BY <2>1 DEF Sound
  <2>5. \A d \in Clients \ {c} : KnownOf(handler[d], st2) /\ OwnedKnown(handler[d], st2)
    BY <2>2, EmptyLeft, NothingLeft
  <2>6. failures' = 0 => OwnedKnown(h2, st2)
    BY <1>3, <1>4, <2>1 DEF DataInv, Complete
  <2> QED
    BY <1>1, <2>3, <2>4, <2>5, <2>6
<1> QED
  BY <1>2, <1>3, <1>4 DEF DataInv

(* A request arrives.                                                      *)
LEMMA ArrivalKnown ==
  ASSUME NEW req, NEW path, NEW h2, h2 = [Idle EXCEPT !.path = path, !.req = req],
         \/ req \in Requests /\ path = Steps(req)
         \/ req \in Imports /\ path = ImportSteps,
         NEW st
  PROVE  Known(h2) /\ KnownOf(h2, st) /\ OwnedKnown(h2, st)
<1>1. /\ h2 = [f \in HandlerFields |-> h2[f]] /\ h2.path = path /\ h2.req = req
      /\ h2.checked = {} /\ h2.owned = {} /\ h2.cascade = {} /\ h2.todo = << >>
  BY DEF Idle, HandlerFields
<1>2. Left(h2) = ToSet(path)
  BY <1>1 DEF Left
<1>3. h2.todo \in Seq(ToSet(h2.todo))
  <2>1. \A S : << >> \in Seq(S)
    OBVIOUS
  <2> QED
    BY <1>1, <2>1
<1>4. CASE req \in Requests /\ path = Steps(req)
  <2> DEFINE S == Left(h2)
  <2>1. /\ "reload" \in S
        /\ "owned" \in S => {"write", "cascade"} \subseteq S
        /\ SavesRule(req) => {"refs", "duplicates"} \subseteq S
        /\ DropsProfile(req) => "guard" \in S
        /\ "bulk" \in S => "list" \in S
        /\ S \intersect {"validate", "stored", "import", "scenarios", "eventRules",
                         "respond", "sims", "profiles", "rule", "sweep"} = {}
    <3>1. "owned" \in S => "write" \in S
      BY <1>2, <1>4, StepsAre, StepSets
    <3> QED
      BY <1>2, <1>4, <3>1, StepsTell
  <2>2. Ranked(h2.path) /\ S \subseteq AdminSteps(h2.req)
    BY <1>1, <1>2, <1>4, StepsRanked DEF AdminSteps
  <2> HIDE DEF S
  <2>3. Road(h2)
    BY <1>1, <1>3, <1>4, <2>1, <2>2 DEF Road, S
  <2>4. CascadeKnown(h2) /\ UniqueKnown(h2) /\ OwnedKnown(h2, st)
    BY <1>1, <2>1 DEF CascadeKnown, UniqueKnown, OwnedKnown, S
  <2>5. RefsKnown(h2, st) /\ UniqueNow(h2, st) /\ UnusedKnown(h2, st) /\ FileKnown(h2, st)
    BY <1>1, <2>1 DEF RefsKnown, UniqueNow, UnusedKnown, FileKnown, S
  <2>6. LoopKnown(h2, st) /\ TurnKnown(h2, st) /\ BulkKnown(h2, st)
    BY <2>1 DEF LoopKnown, TurnKnown, BulkKnown, S
  <2> QED
    BY <2>3, <2>4, <2>5, <2>6 DEF Known, KnownOf
<1>5. CASE req \in Imports /\ path = ImportSteps
  <2>1. /\ Left(h2) = {"validate", "stored", "import", "scenarios", "eventRules",
                       "respond", "reload"}
        /\ Left(h2) \subseteq TransferSteps /\ Ranked(h2.path)
    BY <1>1, <1>2, <1>5, StepSets, StepsRanked, TransferSets
  <2>2. Road(h2)
    BY <1>1, <1>3, <1>5, <2>1 DEF Road
  <2>3. CascadeKnown(h2) /\ UniqueKnown(h2) /\ OwnedKnown(h2, st)
    BY <1>1, <2>1 DEF CascadeKnown, UniqueKnown, OwnedKnown
  <2>4. FileKnown(h2, st) /\ LoopKnown(h2, st) /\ TurnKnown(h2, st)
    BY <2>1 DEF FileKnown, LoopKnown, TurnKnown
  <2> QED
    BY <2>1, <2>2, <2>3, <2>4, Transferring DEF Known
<1> QED
  BY <1>4, <1>5

LEMMA ArriveKnown ==
  ASSUME IInv, DataInv, NEW c \in Clients, NEW req, NEW path, Arrive(c, req, path),
         \/ req \in Requests /\ path = Steps(req)
         \/ req \in Imports /\ path = ImportSteps
  PROVE  DataInv'
<1> PICK h2 : h2 = [Idle EXCEPT !.path = path, !.req = req]
  OBVIOUS
<1>1. Known(h2) /\ \A st : KnownOf(h2, st) /\ OwnedKnown(h2, st)
  BY ArrivalKnown
<1>2. handler'[c] = h2 /\ \A d \in Clients \ {c} : handler'[d] = handler[d]
  BY DEF Arrive, IInv, PathInv, HandlersTyped
<1>3. store' = store /\ failures' = failures
  BY DEF Arrive
<1>4. \A d \in Clients : Known(handler'[d])
  BY <1>1, <1>2 DEF DataInv
<1>5. ASSUME ~overlapped'
      PROVE  /\ Alone' /\ Resolved(store)
             /\ \A d \in Clients : KnownOf(handler'[d], store) /\ OwnedKnown(handler'[d], store)
  <2>1. ~overlapped /\ AllIdle
    BY <1>5 DEF Arrive
  <2>2. \A d \in Clients : handler[d].path = << >>
    BY <2>1 DEF AllIdle, Busy
  <2>3. Alone'
    BY <1>2, <2>2 DEF Alone, Busy
  <2>4. \A d \in Clients : KnownOf(handler[d], store) /\ OwnedKnown(handler[d], store)
    BY <2>2, EmptyLeft, NothingLeft
  <2> QED
    BY <1>1, <1>2, <2>1, <2>3, <2>4 DEF DataInv
<1> QED
  BY <1>3, <1>4, <1>5 DEF DataInv


-----------------------------------------------------------------------------
(* The steps one by one.                                                   *)
LEMMA StepAt ==
  ASSUME DataInv, NEW c \in Clients, NEW s, At(c, s)
  PROVE  /\ Stepping(handler[c], s) /\ Busy(c) /\ StoreOK(store)
         /\ handler[c] = [f \in HandlerFields |-> handler[c][f]]
BY DEF DataInv, Known, Road, Stepping, At, Busy

(* A handler that ends, with the store as it is or in a good state.        *)
LEMMA StopKeeps ==
  ASSUME IInv, DataInv, NEW c \in Clients, NEW s, At(c, s), UNCHANGED overlapped,
         \/ handler' = [handler EXCEPT ![c] = Idle]
         \/ handler' = [handler EXCEPT ![c] = [Idle EXCEPT !.path = <<"reload">>]],
         UNCHANGED failures \/ failures' = failures + 1,
         NEW st2, st2 = store', StoreOK(st2),
         Resolved(store) /\ KnownOf(handler[c], store) => Resolved(st2)
  PROVE  DataInv'
<1> PICK h : h = handler[c]
  OBVIOUS
<1> PICK st : st = store
  OBVIOUS
<1>1. PICK h2 : /\ h2 = Idle \/ h2 = [Idle EXCEPT !.path = <<"reload">>]
                /\ handler' = [handler EXCEPT ![c] = h2]
  OBVIOUS
<1>2. Resolved(st) /\ KnownOf(h, st) => Resolved(st2)
  OBVIOUS
<1>3. Sound(h, st, h2, st2) /\ Complete(h, st, h2, st2)
  BY <1>1, <1>2, StopSound
<1>4. Busy(c)
  BY DEF At, Busy
<1> QED
  BY <1>1, <1>3, <1>4, TurnKeeps

(* What a step may make of its handler and the store, as TurnKeeps has it. *)
LEMMA CheckKnown ==
  ASSUME IInv, DataInv, NEW c \in Clients, NEW passes, Check(c, passes),
         UNCHANGED <<store, failures, overlapped>>,
         NEW s \in {"ruleRefs", "refs", "exists", "guard", "validate"}, At(c, s),
         passes /\ s = "refs" /\ SavesRule(handler[c].req) =>
             handler[c].req.row.profiles \subseteq handler[c].checked,
         passes /\ s = "guard" => handler[c].req.row.id \notin ReferencedProfiles(store.rules),
         passes /\ s = "validate" => Fits(handler[c].req.config.rules, handler[c].req.config, store)
  PROVE  DataInv'
<1> PICK h : h = handler[c]
  OBVIOUS
<1> PICK st : st = store
  OBVIOUS
<1>1. Stepping(h, s) /\ Busy(c) /\ StoreOK(st) /\ h = [f \in HandlerFields |-> h[f]]
  BY StepAt
<1>2. CASE passes
  <2> PICK h2 : h2 = [h EXCEPT !.path = Tail(@)]
    OBVIOUS
  <2>1. handler' = [handler EXCEPT ![c] = h2]
    BY <1>2 DEF Check
  <2>2. Goes(h, h2) /\ Keeps(h, h2)
    BY <1>1 DEF Goes, Keeps, HandlerFields
  <2>3. s = "refs" /\ "write" \in Left(h) /\ KnownOf(h, st) /\ SavesRule(h.req)
            => FaultRefsResolve(h.req.row, st)
    BY <1>1, <1>2, AllFound
  <2>4. Sound(h, st, h2, st) /\ Complete(h, st, h2, st)
    BY <1>1, <1>2, <2>2, <2>3, PassSound
  <2> QED
    BY <1>1, <2>1, <2>4, TurnKeeps
<1>3. CASE ~passes
  <2>1. handler' = [handler EXCEPT ![c] = Idle]
    BY <1>3 DEF Check
  <2>2. StoreOK(store')
    BY <1>1
  <2> QED
    BY <2>1, <2>2, StopKeeps
<1> QED
  BY <1>2, <1>3

(* The reads and checks of all handlers.                                   *)
LEMMA ReadingKnown ==
  ASSUME IInv, DataInv, NEW c \in Clients,
         \/ CheckRuleRefs(c) \/ CheckProfileRef(c) \/ CheckRefsDone(c) \/ CheckDuplicates(c)
         \/ CheckExists(c) \/ CheckUnused(c) \/ ReadOwned(c) \/ ListRules(c) \/ ReadFails(c)
         \/ ValidateImport(c) \/ ReadStored(c)
  PROVE  DataInv'
<1> PICK h : h = handler[c]
  OBVIOUS
<1> PICK st : st = store
  OBVIOUS
<1>0. \A s : At(c, s) => Stepping(h, s) /\ Busy(c) /\ StoreOK(st) /\ h = [f \in HandlerFields |-> h[f]]
  BY StepAt
<1>q. Quiet => UNCHANGED <<store, failures, overlapped>>
  BY DEF Quiet, boundVars
<1>1. CASE CheckRuleRefs(c) \/ CheckRefsDone(c)
  <2>1. CASE CheckRuleRefs(c)
    <3>1. PICK passes : Check(c, passes)
      BY <2>1 DEF CheckRuleRefs
    <3>2. At(c, "ruleRefs") /\ Quiet
      BY <2>1 DEF CheckRuleRefs
    <3> QED
      BY <1>q, <3>1, <3>2, CheckKnown
  <2>2. CASE CheckRefsDone(c)
    <3>1. /\ At(c, "refs") /\ Check(c, TRUE) /\ Quiet
          /\ handler[c].req.row.profiles \subseteq handler[c].checked
      BY <2>2 DEF CheckRefsDone
    <3> QED
      BY <1>q, <3>1, CheckKnown
  <2> QED
    BY <1>1, <2>1, <2>2
<1>10. CASE CheckProfileRef(c)
  <2>1. PICK p : /\ At(c, "refs") /\ Quiet
                 /\ handler' = [handler EXCEPT ![c] =
                       IF HasRow(st.profiles, p) THEN [h EXCEPT !.checked = h.checked \union {p}]
                                                 ELSE Idle]
    BY <1>10 DEF CheckProfileRef
  <2>2. CASE HasRow(st.profiles, p)
    <3> PICK h2 : h2 = [h EXCEPT !.checked = @ \union {p}]
      OBVIOUS
    <3>1. handler' = [handler EXCEPT ![c] = h2]
      BY <2>1, <2>2
    <3>2. p \in IdsOf(st.profiles)
      BY <2>2 DEF HasRow
    <3>3. /\ h2 = [f \in HandlerFields |-> h2[f]] /\ h2.path = h.path /\ h2.req = h.req
          /\ h2.checked = h.checked \union {p} /\ h2.stored = h.stored /\ h2.owned = h.owned
          /\ h2.cascade = h.cascade /\ h2.todo = h.todo
      BY <1>0, <2>1 DEF HandlerFields
    <3>4. Stepping(h, "refs") /\ StoreOK(st)
      BY <1>0, <2>1
    <3>5. Sound(h, st, h2, st) /\ Complete(h, st, h2, st)
      BY ONLY <3>2, <3>3, <3>4, FoundSound
    <3> QED
      BY <1>0, <1>q, <2>1, <3>1, <3>5, TurnKeeps
  <2>3. CASE ~HasRow(st.profiles, p)
    <3>1. handler' = [handler EXCEPT ![c] = Idle]
      BY <2>1, <2>3
    <3> QED
      BY <1>0, <1>q, <2>1, <3>1, StopKeeps
  <2> QED
    BY <2>2, <2>3
<1>2. CASE CheckExists(c)
  <2>1. At(c, "exists") /\ Quiet
        /\ Check(c, HasRow(store[h.req.table], h.req.row.id) = (h.req.op # "post"))
    BY <1>2 DEF CheckExists
  <2> QED
    BY <1>q, <2>1, CheckKnown
<1>3. CASE CheckUnused(c)
  <2>1. At(c, "guard") /\ Quiet /\ Check(c, h.req.row.id \notin ReferencedProfiles(store.rules))
    BY <1>3 DEF CheckUnused
  <2> QED
    BY <1>q, <2>1, CheckKnown
<1>4. CASE ValidateImport(c)
  <2>1. At(c, "validate") /\ Quiet /\ Check(c, ImportAcceptable(h.req.config, st))
    BY <1>4 DEF ValidateImport, Config
  <2>2. h.req \in Imports
    <3>1. Stepping(h, "validate")
      BY <1>0, <2>1
    <3>2. "validate" \in Left(h) /\ Road(h)
      BY <3>1, HeadKnown DEF Stepping, Known
    <3> QED
      BY <3>2, ImportLeft
  <2>3. ImportAcceptable(h.req.config, st) => Fits(h.req.config.rules, h.req.config, st)
    BY <2>2, ImportAssumption, AcceptableFits
  <2> QED
    BY <1>q, <2>1, <2>3, CheckKnown
<1>5. CASE CheckDuplicates(c)
  <2> DEFINE unique == FindDuplicates(st.rules, h.req.row) = {}
  <2>1. /\ At(c, "duplicates") /\ Quiet
        /\ handler' = [handler EXCEPT ![c] =
               IF unique THEN [h EXCEPT !.path = Tail(h.path), !.stored = st.rules] ELSE Idle]
    BY <1>5 DEF CheckDuplicates
  <2>2. CASE unique
    <3> PICK h2 : h2 = [h EXCEPT !.path = Tail(h.path), !.stored = st.rules]
      OBVIOUS
    <3>1. handler' = [handler EXCEPT ![c] = h2]
      BY <2>1, <2>2
    <3>2. /\ Goes(h, h2) /\ h2.checked = h.checked /\ h2.stored = st.rules
          /\ h2.owned = h.owned /\ h2.cascade = h.cascade /\ h2.todo = h.todo
      BY <1>0, <2>1 DEF Goes, HandlerFields
    <3>3. Sound(h, st, h2, st) /\ Complete(h, st, h2, st)
      BY <1>0, <2>1, <2>2, <3>2, UniqueSound
    <3> QED
      BY <1>0, <1>q, <2>1, <3>1, <3>3, TurnKeeps
  <2>3. CASE ~unique
    <3>1. handler' = [handler EXCEPT ![c] = Idle]
      BY <2>1, <2>3
    <3> QED
      BY <1>0, <1>q, <2>1, <3>1, StopKeeps
  <2> QED
    BY <2>2, <2>3
<1>6. CASE ReadOwned(c)
  <2> PICK owned : owned = ReferencedSims({r \in store.rules : r.id = h.req.row.id})
    OBVIOUS
  <2> PICK h2 : h2 = [h EXCEPT !.path = Tail(@), !.owned = owned,
                               !.cascade = IF h.req.op = "put" THEN owned \ h.req.row.sims ELSE owned]
    OBVIOUS
  <2>1. At(c, "owned") /\ Quiet /\ handler' = [handler EXCEPT ![c] = h2]
    BY <1>6 DEF ReadOwned
  <2>2. /\ Goes(h, h2) /\ h2.checked = h.checked /\ h2.stored = h.stored /\ h2.todo = h.todo
        /\ h2.cascade = IF h.req.op = "put" THEN h2.owned \ h.req.row.sims ELSE h2.owned
    BY <1>0, <2>1 DEF Goes, HandlerFields
  <2>3. Stepping(h, "owned") /\ StoreOK(st)
    BY <1>0, <2>1
  <2>4. Sound(h, st, h2, st) /\ Complete(h, st, h2, st)
    BY ONLY <2>2, <2>3, OwnedSound
  <2> QED
    BY <1>0, <1>q, <2>1, <2>4, TurnKeeps
<1>7. CASE ListRules(c)
  <2> PICK h2 : h2 = [h EXCEPT !.path = Tail(@), !.owned = ReferencedSims(st.rules),
                               !.todo = SetToSeq(st.rules)]
    OBVIOUS
  <2>1. At(c, "list") /\ Quiet /\ handler' = [handler EXCEPT ![c] = h2]
    BY <1>7 DEF ListRules
  <2>2. /\ Goes(h, h2) /\ h2.stored = h.stored /\ h2.cascade = h.cascade
        /\ h2.owned = ReferencedSims(st.rules) /\ h2.todo = SetToSeq(st.rules)
    BY <1>0, <2>1 DEF Goes, HandlerFields
  <2>3. Sound(h, st, h2, st) /\ Complete(h, st, h2, st)
    BY <1>0, <2>1, <2>2, ListSound
  <2> QED
    BY <1>0, <1>q, <2>1, <2>3, TurnKeeps
<1>8. CASE ReadFails(c)
  <2>1. PICK s : At(c, s)
    BY <1>8 DEF ReadFails
  <2>2. /\ handler' = [handler EXCEPT ![c] = Idle] /\ failures' = failures + 1
        /\ store' = store /\ overlapped' = overlapped
    BY <1>8 DEF ReadFails
  <2> QED
    BY <1>0, <2>1, <2>2, StopKeeps
<1>9. CASE ReadStored(c)
  <2> PICK h2 : h2 = [h EXCEPT !.path = Tail(@), !.stored = st.rules, !.todo = h.req.config.rules]
    OBVIOUS
  <2>1. At(c, "stored") /\ Quiet /\ handler' = [handler EXCEPT ![c] = h2]
    BY <1>9 DEF ReadStored, Config
  <2>2. /\ Goes(h, h2) /\ h2.stored = st.rules /\ h2.owned = h.owned /\ h2.cascade = h.cascade
        /\ h2.todo = h.req.config.rules
    BY <1>0, <2>1 DEF Goes, HandlerFields
  <2>3. Sound(h, st, h2, st) /\ Complete(h, st, h2, st)
    BY <1>0, <2>1, <2>2, ReadStoredSound
  <2> QED
    BY <1>0, <1>q, <2>1, <2>3, TurnKeeps
<1> QED
  BY <1>1, <1>2, <1>3, <1>4, <1>5, <1>6, <1>7, <1>8, <1>9, <1>10

LEMMA WritingKnown ==
  ASSUME IInv, DataInv, NEW c \in Clients, Write(c) \/ WriteMissing(c) \/ WriteFails(c)
  PROVE  DataInv'
<1> PICK h : h = handler[c]
  OBVIOUS
<1> PICK st : st = store
  OBVIOUS
<1>1. /\ At(c, "write") /\ Stepping(h, "write") /\ Busy(c) /\ StoreOK(st)
      /\ h = [f \in HandlerFields |-> h[f]]
  BY StepAt DEF Write, WriteMissing, WriteFails
<1> PICK st2 : st2 = Written(st, h.req)
  OBVIOUS
<1>2. CASE Write(c)
  <2> PICK h2 : h2 = [h EXCEPT !.path = Tail(@)]
    OBVIOUS
  <2>1. /\ store' = st2 /\ handler' = [handler EXCEPT ![c] = h2]
        /\ UNCHANGED <<failures, overlapped>>
    BY <1>2 DEF Write, boundVars
  <2>2. Goes(h, h2) /\ Keeps(h, h2)
    BY <1>1 DEF Goes, Keeps, HandlerFields
  <2>3. Sound(h, st, h2, st2) /\ Complete(h, st, h2, st2)
    BY <1>1, <2>2, WriteSound
  <2> QED
    BY <1>1, <2>1, <2>3, TurnKeeps
<1>3. CASE WriteMissing(c)
  <2>1. /\ store' = st /\ handler' = [handler EXCEPT ![c] = Idle]
        /\ UNCHANGED <<failures, overlapped>>
    BY <1>3 DEF WriteMissing, Quiet, boundVars
  <2> QED
    BY <1>1, <2>1, StopKeeps
<1>4. CASE WriteFails(c)
  <2>1. PICK st3 \in {st, st2} : \E tables : Abandon(c, st3, tables)
    BY <1>4 DEF WriteFails
  <2>2. /\ store' = st3 /\ handler' = [handler EXCEPT ![c] = Idle]
        /\ failures' = failures + 1 /\ UNCHANGED overlapped
    BY <1>4, <2>1 DEF Abandon, WriteFails, CountFailure
  <2>3. StoreOK(st2) /\ (Resolved(st) /\ KnownOf(h, st) => Resolved(st2))
    BY <1>1, WrittenGood DEF Stepping, KnownOf
  <2>4. StoreOK(st3) /\ (Resolved(store) /\ KnownOf(handler[c], store) => Resolved(st3))
    BY <1>1, <2>1, <2>3
  <2> QED
    BY <1>1, <2>2, <2>4, StopKeeps
<1> QED
  BY <1>2, <1>3, <1>4

LEMMA BulkKnownKept ==
  ASSUME IInv, DataInv, NEW c \in Clients,
         BulkDelete(c) \/ BulkDone(c) \/ BulkFails(c) \/ BulkMissing(c)
  PROVE  DataInv'
<1> PICK h : h = handler[c]
  OBVIOUS
<1> PICK st : st = store
  OBVIOUS
<1>1. /\ At(c, "bulk") /\ Stepping(h, "bulk") /\ Busy(c) /\ StoreOK(st)
      /\ h = [f \in HandlerFields |-> h[f]]
  BY StepAt DEF BulkDelete, BulkDone, BulkFails, BulkMissing
<1> PICK id : id = Head(h.todo).id
  OBVIOUS
<1> PICK st2 : st2 = [st EXCEPT !.rules = DropRow(@, id)]
  OBVIOUS
<1>2. Changed(st, "rules", DropRow(st.rules, id), st2)
  BY DEF Changed
<1>3. CASE BulkDelete(c)
  <2> PICK h2 : h2 = [h EXCEPT !.path = <<"cascade">> \o @, !.cascade = Head(h.todo).sims,
                               !.todo = Tail(h.todo), !.wrote = TRUE]
    OBVIOUS
  <2>1. /\ store' = st2 /\ handler' = [handler EXCEPT ![c] = h2]
        /\ UNCHANGED <<failures, overlapped>> /\ h.todo # << >>
    BY <1>3 DEF BulkDelete, boundVars
  <2>2. /\ h2 = [f \in HandlerFields |-> h2[f]] /\ h2.path = <<"cascade">> \o h.path
        /\ h2.req = h.req /\ h2.stored = h.stored /\ h2.owned = h.owned
        /\ h2.cascade = Head(h.todo).sims /\ h2.todo = Tail(h.todo)
    BY <1>1 DEF HandlerFields
  <2>3. Changed(st, "rules", DropRow(st.rules, Head(h.todo).id), st2)
    BY <1>2
  <2>4. Sound(h, st, h2, st2) /\ Complete(h, st, h2, st2)
    BY ONLY <1>1, <2>1, <2>2, <2>3, BulkSound
  <2> QED
    BY <1>1, <2>1, <2>4, TurnKeeps
<1>4. CASE BulkDone(c)
  <2> PICK h2 : h2 = [h EXCEPT !.path = Tail(@)]
    OBVIOUS
  <2>1. /\ store' = st /\ handler' = [handler EXCEPT ![c] = h2]
        /\ UNCHANGED <<failures, overlapped>>
    BY <1>4 DEF BulkDone, Quiet, boundVars
  <2>2. Goes(h, h2) /\ Keeps(h, h2)
    BY <1>1 DEF Goes, Keeps, HandlerFields
  <2>3. Sound(h, st, h2, st) /\ Complete(h, st, h2, st)
    BY <1>1, <2>2, PassSound
  <2> QED
    BY <1>1, <2>1, <2>3, TurnKeeps
<1>5. CASE BulkFails(c)
  <2>1. PICK st3 \in {st, st2} : \E tables : Abandon(c, st3, tables)
    BY <1>5 DEF BulkFails
  <2>2. /\ store' = st3 /\ handler' = [handler EXCEPT ![c] = Idle]
        /\ failures' = failures + 1 /\ UNCHANGED overlapped
    BY <1>5, <2>1 DEF Abandon, BulkFails, CountFailure
  <2>3. StoreOK(st2) /\ (Resolved(st) => Resolved(st2))
    BY <1>1, <1>2, RulesDropped
  <2>4. StoreOK(st3) /\ (Resolved(store) /\ KnownOf(handler[c], store) => Resolved(st3))
    BY <1>1, <2>1, <2>3
  <2> QED
    BY <1>1, <2>2, <2>4, StopKeeps
<1>6. CASE BulkMissing(c)
  <2>1. /\ store' = st /\ handler' = [handler EXCEPT ![c] = Idle]
        /\ UNCHANGED <<failures, overlapped>>
    BY <1>6 DEF BulkMissing, Abandon
  <2> QED
    BY <1>1, <2>1, StopKeeps
<1> QED
  BY <1>3, <1>4, <1>5, <1>6

LEMMA CascadeKept ==
  ASSUME IInv, DataInv, NEW c \in Clients,
         \/ CascadeRead(c) \/ CascadeReadFails(c)
         \/ CascadeDelete(c) \/ CascadeDeleteFails(c) \/ CascadeDone(c)
  PROVE  DataInv'
<1> PICK h : h = handler[c]
  OBVIOUS
<1> PICK st : st = store
  OBVIOUS
<1>0. \A s : At(c, s) => Stepping(h, s) /\ Busy(c) /\ StoreOK(st) /\ h = [f \in HandlerFields |-> h[f]]
  BY StepAt
<1>1. CASE CascadeRead(c)
  <2> PICK h2 : h2 = [h EXCEPT !.path = <<"sweep">> \o Tail(@), !.seen = st.rules,
                               !.cascade = @ \ ReferencedSims(st.rules)]
    OBVIOUS
  <2>1. /\ At(c, "cascade") /\ store' = st /\ handler' = [handler EXCEPT ![c] = h2]
        /\ UNCHANGED <<failures, overlapped>>
    BY <1>1 DEF CascadeRead, Quiet, boundVars
  <2>2. /\ h2 = [f \in HandlerFields |-> h2[f]] /\ h2.path = <<"sweep">> \o Tail(h.path)
        /\ h2.req = h.req /\ h2.stored = h.stored /\ h2.owned = h.owned /\ h2.todo = h.todo
        /\ h2.cascade = h.cascade \ ReferencedSims(st.rules)
    BY <1>0, <2>1 DEF HandlerFields
  <2>3. Stepping(h, "cascade") /\ StoreOK(st)
    BY <1>0, <2>1
  <2>4. Sound(h, st, h2, st) /\ Complete(h, st, h2, st)
    BY ONLY <2>2, <2>3, CascadeReadSound
  <2> QED
    BY <1>0, <2>1, <2>4, TurnKeeps
<1>2. CASE CascadeReadFails(c)
  <2> PICK h2 : h2 = [h EXCEPT !.path = Tail(@), !.cascade = {}]
    OBVIOUS
  <2>1. /\ At(c, "cascade") /\ store' = st /\ handler' = [handler EXCEPT ![c] = h2]
        /\ failures' = failures + 1 /\ UNCHANGED overlapped
    BY <1>2 DEF CascadeReadFails
  <2>2. /\ Goes(h, h2) /\ h2.stored = h.stored /\ h2.owned = h.owned /\ h2.todo = h.todo
        /\ h2.cascade = {}
    BY <1>0, <2>1 DEF Goes, HandlerFields
  <2>3. Stepping(h, "cascade") /\ StoreOK(st)
    BY <1>0, <2>1
  <2>4. Sound(h, st, h2, st)
    BY ONLY <2>2, <2>3, CascadeOverSound
  <2> QED
    BY <1>0, <2>1, <2>4, TurnKeeps
<1>3. CASE CascadeDelete(c)
  <2>1. PICK sim \in h.cascade :
           /\ store' = [st EXCEPT !.sims = DropRow(@, sim)]
           /\ handler' = [handler EXCEPT ![c].cascade = @ \ {sim}]
    BY <1>3 DEF CascadeDelete
  <2> PICK st2 : st2 = [st EXCEPT !.sims = DropRow(@, sim)]
    OBVIOUS
  <2> PICK h2 : h2 = [h EXCEPT !.cascade = @ \ {sim}]
    OBVIOUS
  <2>2. /\ At(c, "sweep") /\ store' = st2 /\ handler' = [handler EXCEPT ![c] = h2]
        /\ UNCHANGED <<failures, overlapped>>
    BY <1>3, <2>1 DEF CascadeDelete, boundVars
  <2>3. /\ h2 = [f \in HandlerFields |-> h2[f]] /\ h2.path = h.path
        /\ h2.req = h.req /\ h2.stored = h.stored /\ h2.owned = h.owned /\ h2.todo = h.todo
        /\ h2.cascade = h.cascade \ {sim}
    BY <1>0, <2>2 DEF HandlerFields
  <2>4. Stepping(h, "sweep") /\ StoreOK(st)
    BY <1>0, <2>2
  <2>5. /\ StoreOK(st2) /\ st2.rules = st.rules /\ st2.profiles = st.profiles
        /\ st2["sims"] = DropRow(st.sims, sim)
    <3>1. Changed(st, "sims", DropRow(st.sims, sim), st2) /\ "sims" \in Table
      BY DEF Changed, Table
    <3> HIDE DEF Table
    <3> QED
      BY <2>4, <3>1, TableChanged
  <2>6. IdsOf(st2.sims) \subseteq IdsOf(st.sims) \ {sim}
    BY <2>5 DEF IdsOf, DropRow
  <2>7. Sound(h, st, h2, st2) /\ Complete(h, st, h2, st2)
    BY ONLY <2>3, <2>4, <2>5, <2>6, SweepSound
  <2> QED
    BY <1>0, <2>2, <2>7, TurnKeeps
<1>4. CASE CascadeDeleteFails(c)
  <2>1. PICK sim \in h.cascade : handler' = [handler EXCEPT ![c].cascade = @ \ {sim}]
    BY <1>4 DEF CascadeDeleteFails
  <2> PICK h2 : h2 = [h EXCEPT !.cascade = @ \ {sim}]
    OBVIOUS
  <2>2. /\ At(c, "sweep") /\ store' = st /\ handler' = [handler EXCEPT ![c] = h2]
        /\ failures' = failures + 1 /\ UNCHANGED overlapped
    BY <1>4, <2>1 DEF CascadeDeleteFails
  <2>3. /\ h2 = [f \in HandlerFields |-> h2[f]] /\ h2.path = h.path
        /\ h2.req = h.req /\ h2.stored = h.stored /\ h2.owned = h.owned /\ h2.todo = h.todo
        /\ h2.cascade = h.cascade \ {sim}
    BY <1>0, <2>2 DEF HandlerFields
  <2>4. Stepping(h, "sweep") /\ StoreOK(st)
    BY <1>0, <2>2
  <2>5. Sound(h, st, h2, st)
    BY ONLY <2>3, <2>4, SweepSound
  <2> QED
    BY <1>0, <2>2, <2>5, TurnKeeps
<1>5. CASE CascadeDone(c)
  <2> PICK h2 : h2 = [h EXCEPT !.path = Tail(@)]
    OBVIOUS
  <2>1. /\ At(c, "sweep") /\ store' = st /\ handler' = [handler EXCEPT ![c] = h2]
        /\ UNCHANGED <<failures, overlapped>> /\ h.cascade = {}
    BY <1>5 DEF CascadeDone, Quiet, boundVars
  <2>2. /\ Goes(h, h2) /\ h2.stored = h.stored /\ h2.owned = h.owned /\ h2.todo = h.todo
        /\ h2.cascade = {}
    BY <1>0, <2>1 DEF Goes, HandlerFields
  <2>3. Stepping(h, "sweep") /\ StoreOK(st)
    BY <1>0, <2>1
  <2>4. Sound(h, st, h2, st) /\ Complete(h, st, h2, st)
    BY ONLY <2>1, <2>2, <2>3, CascadeOverSound
  <2> QED
    BY <1>0, <2>1, <2>4, TurnKeeps
<1> QED
  BY <1>1, <1>2, <1>3, <1>4, <1>5

LEMMA AdminKnown ==
  ASSUME IInv, DataInv, NEW c \in Clients, AdminStep(c)
  PROVE  DataInv'
<1>1. CASE Receive(c)
  BY <1>1, ArriveKnown DEF Receive
<1>2. CASE LoadTable(c)
  BY <1>2 DEF LoadTable, boundVars, DataInv, Alone, Busy
<1>3. CASE RebuildFails(c) \/ Swap(c)
  <2>1. /\ At(c, "reload") /\ store' = store /\ handler' = [handler EXCEPT ![c] = Idle]
        /\ UNCHANGED overlapped
        /\ UNCHANGED failures \/ failures' = failures + 1
    BY <1>3 DEF RebuildFails, Swap, Abandon, CountFailure, boundVars
  <2>2. StoreOK(store')
    BY <2>1, StepAt
  <2> QED
    BY <2>1, <2>2, StopKeeps
<1> QED
  BY <1>1, <1>2, <1>3, ReadingKnown, WritingKnown, BulkKnownKept, CascadeKept DEF AdminStep

(* The loop over the rules of the file.                                    *)
LEMMA ImportLoopKept ==
  ASSUME IInv, DataInv, NEW c \in Clients,
         \/ ImportSkips(c) \/ ImportSaves(c) \/ ImportOverrides(c) \/ ImportRulesDone(c)
         \/ ImportOverrideFails(c)
  PROVE  DataInv'
<1> PICK h : h = handler[c]
  OBVIOUS
<1> PICK st : st = store
  OBVIOUS
<1>1. /\ At(c, "import") /\ Stepping(h, "import") /\ Busy(c) /\ StoreOK(st)
      /\ h = [f \in HandlerFields |-> h[f]]
  BY StepAt DEF ImportSkips, ImportSaves, ImportOverrides, ImportRulesDone, ImportOverrideFails,
                Importing
<1>2. CASE ImportSkips(c)
  <2> PICK h2 : h2 = [h EXCEPT !.todo = Tail(@)]
    OBVIOUS
  <2>1. /\ store' = st /\ handler' = [handler EXCEPT ![c] = h2]
        /\ UNCHANGED <<failures, overlapped>> /\ h.todo # << >>
    BY <1>2 DEF ImportSkips, Importing, Quiet, boundVars
  <2>2. /\ h2 = [f \in HandlerFields |-> h2[f]] /\ h2.path = h.path /\ h2.req = h.req
        /\ h2.stored = h.stored /\ h2.owned = h.owned /\ h2.cascade = h.cascade
        /\ h2.todo = Tail(h.todo)
    BY <1>1 DEF HandlerFields
  <2>3. Sound(h, st, h2, st) /\ Complete(h, st, h2, st)
    BY ONLY <1>1, <2>1, <2>2, SkipSound
  <2> QED
    BY <1>1, <2>1, <2>3, TurnKeeps
<1>3. CASE ImportSaves(c)
  <2> PICK h2 : h2 = [h EXCEPT !.path = SaveSteps \o @]
    OBVIOUS
  <2>1. /\ store' = st /\ handler' = [handler EXCEPT ![c] = h2]
        /\ UNCHANGED <<failures, overlapped>> /\ h.todo # << >>
        /\ Conflicting(h.stored, Head(h.todo)) = {}
    BY <1>3 DEF ImportSaves, Importing, Conflicts, Current, Quiet, boundVars
  <2>2. /\ h2 = [f \in HandlerFields |-> h2[f]] /\ h2.path = SaveSteps \o h.path /\ h2.req = h.req
        /\ h2.stored = h.stored /\ h2.owned = h.owned /\ h2.cascade = h.cascade
        /\ h2.todo = h.todo
    BY <1>1 DEF HandlerFields
  <2>3. Sound(h, st, h2, st) /\ Complete(h, st, h2, st)
    BY ONLY <1>1, <2>1, <2>2, SaveSound
  <2> QED
    BY <1>1, <2>1, <2>3, TurnKeeps
<1>4. CASE ImportOverrides(c)
  <2>1. PICK ex \in Conflicting(h.stored, Head(h.todo)) :
           /\ store' = [st EXCEPT !.rules = DropRow(@, ex.id)]
           /\ handler' = [handler EXCEPT ![c].path    = <<"cascade">> \o SaveSteps \o @,
                                         ![c].owned   = ex.sims,
                                         ![c].cascade = ex.sims \ Head(h.todo).sims,
                                         ![c].wrote   = TRUE]
    BY <1>4 DEF ImportOverrides, Conflicts, Current
  <2> PICK st2 : st2 = [st EXCEPT !.rules = DropRow(@, ex.id)]
    OBVIOUS
  <2> PICK h2 : h2 = [h EXCEPT !.path = <<"cascade">> \o SaveSteps \o @, !.owned = ex.sims,
                               !.cascade = ex.sims \ Head(h.todo).sims, !.wrote = TRUE]
    OBVIOUS
  <2>2. /\ store' = st2 /\ handler' = [handler EXCEPT ![c] = h2]
        /\ UNCHANGED <<failures, overlapped>> /\ h.todo # << >>
    <3>1. UNCHANGED <<failures, overlapped>> /\ h.todo # << >>
      BY <1>4 DEF ImportOverrides, Importing, boundVars
    <3>2. store' = st2
      BY <2>1
    <3>3. handler' = [handler EXCEPT ![c] = h2]
      BY <2>1
    <3> QED
      BY <3>1, <3>2, <3>3
  <2>3. /\ h2 = [f \in HandlerFields |-> h2[f]]
        /\ h2.path = (<<"cascade">> \o SaveSteps) \o h.path /\ h2.req = h.req
        /\ h2.stored = h.stored /\ h2.owned = ex.sims
        /\ h2.cascade = ex.sims \ Head(h.todo).sims /\ h2.todo = h.todo
    BY <1>1 DEF HandlerFields
  <2>4. Changed(st, "rules", DropRow(st.rules, ex.id), st2)
    BY DEF Changed
  <2>5. Sound(h, st, h2, st2) /\ Complete(h, st, h2, st2)
    BY ONLY <1>1, <2>1, <2>2, <2>3, <2>4, OverrideSound
  <2> QED
    BY <1>1, <2>2, <2>5, TurnKeeps
<1>5. CASE ImportRulesDone(c)
  <2> PICK h2 : h2 = [h EXCEPT !.path = Tail(@)]
    OBVIOUS
  <2>1. /\ store' = st /\ handler' = [handler EXCEPT ![c] = h2]
        /\ UNCHANGED <<failures, overlapped>>
    BY <1>5 DEF ImportRulesDone, Quiet, boundVars
  <2>2. Goes(h, h2) /\ Keeps(h, h2)
    BY <1>1 DEF Goes, Keeps, HandlerFields
  <2>3. Sound(h, st, h2, st) /\ Complete(h, st, h2, st)
    BY <1>1, <2>2, PassSound
  <2> QED
    BY <1>1, <2>1, <2>3, TurnKeeps
<1>6. CASE ImportOverrideFails(c)
  <2>1. PICK id : \E st3 \in {st, [st EXCEPT !.rules = DropRow(@, id)]} : \E tables :
                      ImportEnds(c, st3, h.wrote, tables)
    BY <1>6 DEF ImportOverrideFails
  <2> PICK st2 : st2 = [st EXCEPT !.rules = DropRow(@, id)]
    OBVIOUS
  <2>2. PICK st3 \in {st, st2} : \E tables : ImportEnds(c, st3, h.wrote, tables)
    BY <2>1
  <2>3. /\ store' = st3 /\ failures' = failures + 1 /\ UNCHANGED overlapped
        /\ \/ handler' = [handler EXCEPT ![c] = Idle]
           \/ handler' = [handler EXCEPT ![c] = [Idle EXCEPT !.path = <<"reload">>]]
    BY <2>2 DEF ImportEnds, Abandon, CountFailure
  <2>4. Changed(st, "rules", DropRow(st.rules, id), st2)
    BY DEF Changed
  <2>5. StoreOK(st2) /\ (Resolved(st) => Resolved(st2))
    BY <1>1, <2>4, RulesDropped
  <2>6. StoreOK(st3) /\ (Resolved(store) /\ KnownOf(handler[c], store) => Resolved(st3))
    BY <1>1, <2>2, <2>5
  <2> QED
    BY <1>1, <2>3, <2>6, StopKeeps
<1> QED
  BY <1>2, <1>3, <1>4, <1>5, <1>6

(* What a step of it writes.                                               *)
PayloadRows(h, s) ==
    CASE s = "sims"       -> {x \in h.req.config.sims : x.id \in Head(h.todo).sims}
      [] s = "profiles"   -> {x \in h.req.config.profiles : x.id \in Head(h.todo).profiles}
      [] s = "rule"       -> {Head(h.todo)}
      [] s = "scenarios"  -> h.req.config.scenarios
      [] s = "eventRules" -> h.req.config.eventRules

LEMMA PayloadIs ==
  ASSUME NEW c \in Clients, NEW s \in ImportWrites, At(c, s), NEW h, h = handler[c]
  PROVE  /\ Payload(c).rows = PayloadRows(h, s)
         /\ Payload(c).table = IF s = "rule" THEN "rules" ELSE s
<1>1. Head(h.path) = s
  BY DEF At
<1>2. CASE s = "sims"
  BY <1>1, <1>2 DEF At, Payload, PayloadSims, PayloadRows, Config, Current
<1>3. CASE s = "profiles"
  BY <1>1, <1>3 DEF At, Payload, PayloadProfiles, PayloadRows, Config, Current
<1>4. CASE s = "rule"
  BY <1>1, <1>4 DEF At, Payload, PayloadRows, Config, Current
<1>5. CASE s = "scenarios"
  BY <1>1, <1>5 DEF At, Payload, PayloadRows, Config, Current
<1>6. CASE s = "eventRules"
  BY <1>1, <1>6 DEF At, Payload, PayloadRows, Config, Current
<1> QED
  BY <1>2, <1>3, <1>4, <1>5, <1>6 DEF ImportWrites, RuleSave

(* A write that fails has written some of them, and no more tables than    *)
(* these.                                                                  *)
Touched(t) == {t} \union IF t \in {"profiles", "rules"} THEN {"sims"} ELSE {}

LEMMA SomeRowsFail ==
  ASSUME NEW c \in Clients, ImportWriteFails(c), NEW t, t = Payload(c).table,
         NEW rows, rows = Payload(c).rows
  PROVE  \E some \in SUBSET rows : \E wrote, tables :
             /\ ImportEnds(c, [store EXCEPT ![t] = SaveRows(@, some)], wrote, tables)
             /\ wrote \/ (~handler[c].wrote /\ tables = Touched(t))
<1> PICK st : st = store
  OBVIOUS
<1> PICK T : T = Touched(t)
  OBVIOUS
<1>1. PICK before \in SUBSET rows : \E failed \in rows \ before : \E landed \in SUBSET {failed} :
         ImportEnds(c, [st EXCEPT ![t] = SaveRows(@, before \union landed)],
                    handler[c].wrote \/ (t # "sims" /\ before # {}), T)
  BY DEF ImportWriteFails, Touched
<1>2. PICK failed \in rows \ before : \E landed \in SUBSET {failed} :
         ImportEnds(c, [st EXCEPT ![t] = SaveRows(@, before \union landed)],
                    handler[c].wrote \/ (t # "sims" /\ before # {}), T)
  BY <1>1
<1>3. PICK landed \in SUBSET {failed} :
         ImportEnds(c, [st EXCEPT ![t] = SaveRows(@, before \union landed)],
                    handler[c].wrote \/ (t # "sims" /\ before # {}), T)
  BY <1>2
<1>4. before \union landed \in SUBSET rows
  OBVIOUS
<1> QED
  BY <1>3, <1>4

LEMMA ImportWriteKept ==
  ASSUME IInv, DataInv, NEW c \in Clients, ImportWrite(c) \/ ImportWriteFails(c)
  PROVE  DataInv'
<1> PICK h : h = handler[c]
  OBVIOUS
<1> PICK st : st = store
  OBVIOUS
<1>1. PICK s \in ImportWrites : At(c, s)
  BY DEF ImportWrite, ImportWriteFails
<1>2. Stepping(h, s) /\ Busy(c) /\ StoreOK(st) /\ h = [f \in HandlerFields |-> h[f]]
  BY <1>1, StepAt
<1> PICK t : t = IF s = "rule" THEN "rules" ELSE s
  OBVIOUS
<1> PICK rows : rows = PayloadRows(h, s)
  OBVIOUS
<1>3. Payload(c).rows = rows /\ Payload(c).table = t
  BY <1>1, PayloadIs
<1>4. s \in {"sims", "profiles", "rule", "scenarios", "eventRules"}
  BY DEF ImportWrites, RuleSave
<1>5. CASE ImportWrite(c)
  <2> PICK st2 : st2 = [st EXCEPT ![t] = SaveRows(@, rows)]
    OBVIOUS
  <2> PICK h2 : h2 = [h EXCEPT !.path = Tail(@),
                               !.wrote = @ \/ (t # "sims" /\ rows # {}),
                               !.todo = IF t = "rules" THEN Tail(@) ELSE @]
    OBVIOUS
  <2>1. /\ store' = st2 /\ handler' = [handler EXCEPT ![c] = h2]
        /\ UNCHANGED <<failures, overlapped>>
    BY <1>3, <1>5 DEF ImportWrite, boundVars
  <2>2. /\ Goes(h, h2) /\ h2.stored = h.stored /\ h2.owned = h.owned /\ h2.cascade = h.cascade
        /\ h2.todo = IF s = "rule" THEN Tail(h.todo) ELSE h.todo
    BY <1>2, <1>4 DEF Goes, HandlerFields
  <2>3. s # "rule" => Keeps(h, h2)
    BY <2>2 DEF Keeps
  <2>4. Changed(st, t, SaveRows(st[t], rows), st2)
    BY DEF Changed
  <2>5. CASE s = "sims"
    <3>1. (\A x \in rows : x.id \in Head(h.todo).sims) /\ t = "sims"
      BY <2>5 DEF PayloadRows
    <3>2. Changed(st, "sims", SaveRows(st.sims, rows), st2)
      BY <2>4, <3>1
    <3>3. Sound(h, st, h2, st2) /\ Complete(h, st, h2, st2)
      BY <1>2, <2>2, <2>3, <2>5, <3>1, <3>2, SimsSound
    <3> QED
      BY <1>2, <2>1, <3>3, TurnKeeps
  <2>6. CASE s = "profiles"
    <3>1. rows = {x \in h.req.config.profiles : x.id \in Head(h.todo).profiles} /\ t = "profiles"
      BY <2>6 DEF PayloadRows
    <3>2. Changed(st, "profiles", SaveRows(st.profiles, rows), st2)
      BY <2>4, <3>1
    <3>3. Sound(h, st, h2, st2) /\ Complete(h, st, h2, st2)
      BY <1>2, <2>2, <2>3, <2>6, <3>1, <3>2, ProfilesSound
    <3> QED
      BY <1>2, <2>1, <3>3, TurnKeeps
  <2>7. CASE s = "rule"
    <3>1. rows = {Head(h.todo)} /\ t = "rules"
      BY <2>7 DEF PayloadRows
    <3>2. Changed(st, "rules", SaveRows(st.rules, rows), st2)
      BY <2>4, <3>1
    <3>3. Sound(h, st, h2, st2) /\ Complete(h, st, h2, st2)
      BY <1>2, <2>2, <2>7, <3>1, <3>2, RuleSound
    <3> QED
      BY <1>2, <2>1, <3>3, TurnKeeps
  <2>8. CASE s \in {"scenarios", "eventRules"}
    <3>1. Changed(st, s, SaveRows(st[s], rows), st2) /\ Keeps(h, h2)
      BY <2>3, <2>4, <2>8
    <3>2. Sound(h, st, h2, st2) /\ Complete(h, st, h2, st2)
      BY <1>2, <2>2, <2>8, <3>1, RestSound, ZenonT(40)
    <3> QED
      BY <1>2, <2>1, <3>2, TurnKeeps
  <2> QED
    BY <1>4, <2>5, <2>6, <2>7, <2>8
<1>6. CASE ImportWriteFails(c)
  <2>1. PICK some \in SUBSET rows : \E wrote, tables :
           ImportEnds(c, [st EXCEPT ![t] = SaveRows(@, some)], wrote, tables)
    BY <1>3, <1>6, SomeRowsFail
  <2> PICK st2 : st2 = [st EXCEPT ![t] = SaveRows(@, some)]
    OBVIOUS
  <2>3. /\ store' = st2 /\ failures' = failures + 1 /\ UNCHANGED overlapped
        /\ \/ handler' = [handler EXCEPT ![c] = Idle]
           \/ handler' = [handler EXCEPT ![c] = [Idle EXCEPT !.path = <<"reload">>]]
    BY <2>1 DEF ImportEnds, Abandon, CountFailure
  <2>4. Changed(st, t, SaveRows(st[t], some), st2)
    BY DEF Changed
  <2>5. Fitting(h, s, t, some)
    BY <1>4 DEF Fitting, PayloadRows
  <2>6. StoreOK(st2) /\ (Resolved(st) /\ KnownOf(h, st) => Resolved(st2))
    BY <1>2, <2>4, <2>5, SavedGood
  <2> QED
    BY <1>1, <1>2, <2>3, <2>6, StopKeeps
<1> QED
  BY <1>5, <1>6

LEMMA ImportKnown ==
  ASSUME IInv, DataInv, NEW c \in Clients, ImportStep(c)
  PROVE  DataInv'
<1>1. CASE ReceiveImport(c)
  BY <1>1, ArriveKnown DEF ReceiveImport
<1>2. CASE ImportResponds(c)
  <2> PICK h : h = handler[c]
    OBVIOUS
  <2> PICK st : st = store
    OBVIOUS
  <2>1. /\ At(c, "respond") /\ store' = st /\ UNCHANGED <<failures, overlapped>>
        /\ handler' = [handler EXCEPT ![c] =
               IF h.wrote THEN [h EXCEPT !.path = Tail(h.path)] ELSE Idle]
    BY <1>2 DEF ImportResponds, Quiet, boundVars
  <2>2. Stepping(h, "respond") /\ Busy(c) /\ StoreOK(st) /\ h = [f \in HandlerFields |-> h[f]]
    BY <2>1, StepAt
  <2>3. CASE h.wrote
    <3> PICK h2 : h2 = [h EXCEPT !.path = Tail(h.path)]
      OBVIOUS
    <3>1. handler' = [handler EXCEPT ![c] = h2]
      BY <2>1, <2>3
    <3>2. Goes(h, h2) /\ Keeps(h, h2)
      BY <2>2 DEF Goes, Keeps, HandlerFields
    <3>3. Sound(h, st, h2, st) /\ Complete(h, st, h2, st)
      BY <2>2, <3>2, PassSound
    <3> QED
      BY <2>1, <2>2, <3>1, <3>3, TurnKeeps
  <2>4. CASE ~h.wrote
    <3>1. handler' = [handler EXCEPT ![c] = Idle]
      BY <2>1, <2>4
    <3> QED
      BY <2>1, <2>2, <3>1, StopKeeps
  <2> QED
    BY <2>3, <2>4
<1> QED
  BY <1>1, <1>2, ReadingKnown, ImportLoopKept, ImportWriteKept DEF ImportStep

LEMMA DataInit == Init => DataInv
<1> SUFFICES ASSUME Init PROVE DataInv
  OBVIOUS
<1>1. /\ store \in InitialStores /\ handler = [c \in Clients |-> Idle]
      /\ failures = 0 /\ overlapped = FALSE
  BY DEF Init, AdminInit
<1>2. StoreOK(store) /\ Resolved(store)
  BY <1>1, AdminAssumption DEF StoreOK, Resolved, Keyed
<1>3. \A c \in Clients : Known(handler[c]) /\ KnownOf(handler[c], store) /\ OwnedKnown(handler[c], store)
  BY <1>1, IdleKnown
<1>4. Alone
  BY <1>1 DEF Alone, Busy, Idle
<1> QED
  BY <1>1, <1>2, <1>3, <1>4 DEF DataInv

(* The applications leave the configuration and the handlers alone.        *)
LEMMA AppsLeave ==
  ASSUME NEW a \in Apps, AppStep(a)
  PROVE  UNCHANGED <<store, handler, overlapped>> /\ failures' \in {failures, failures + 1}
<1>1. CASE ForwardFails(a)
  BY <1>1 DEF ForwardFails, CountFailure
<1>2. CASE Publish(a)
  BY <1>2 DEF Publish
<1>3. CASE UNCHANGED adminVars
  BY <1>3 DEF adminVars, boundVars
<1>4. CASE Unmatched(a) \/ Synthesize(a) \/ Forward(a)
  BY <1>3, <1>4 DEF Unmatched, Synthesize, Forward
<1>5. CASE ForwardDone(a) \/ ForwardFailed(a) \/ Respond(a)
  BY <1>3, <1>5 DEF ForwardDone, ForwardFailed, Respond
<1> QED
  BY <1>1, <1>2, <1>4, <1>5 DEF AppStep

LEMMA DataStep == IInv /\ DataInv /\ [Next]_vars => DataInv'
<1> SUFFICES ASSUME IInv, DataInv, [Next]_vars PROVE DataInv'
  OBVIOUS
<1>1. ASSUME NEW a \in Apps, AppStep(a)
      PROVE  UNCHANGED <<store, handler, overlapped>> /\ failures' \in {failures, failures + 1}
  BY <1>1, AppsLeave
<1>2. ASSUME UNCHANGED <<store, handler, overlapped>>, failures' \in {failures, failures + 1}
      PROVE  DataInv'
  <2>1. failures' \in Nat /\ (failures' = 0 => failures = 0)
    BY <1>2 DEF DataInv
  <2> QED
    BY <1>2, <2>1 DEF DataInv, Alone, Busy
<1>3. UNCHANGED vars => UNCHANGED <<store, handler, failures, overlapped>>
  BY DEF vars, adminVars, boundVars
<1> QED
  BY <1>1, <1>2, <1>3, AdminKnown, ImportKnown DEF Next


-----------------------------------------------------------------------------
(* With one request at a time, and whatever calls of the store fail, no    *)
(* stored rule refers to a fault profile that is gone: a rule is saved     *)
(* after its references were checked (validateFaultProfileRefs), an import *)
(* writes the profiles of a rule before the rule (saveRuleWithSims), and a *)
(* profile is deleted after the rules were searched for it (faultByID).    *)
THEOREM ProfilesResolve == Spec => []RuleProfilesResolve
<1>1. IInv /\ DataInv => RuleProfilesResolve
  BY DEF DataInv, Resolved, RuleProfilesResolve
<1> QED
  BY <1>1, InvInit, InvStep, DataInit, DataStep, PTL DEF Spec

(* With one request at a time and no failed call, a request that replaces  *)
(* or deletes rules leaves none of their simulations behind, unless a rule *)
(* still refers to it: deleteSimulations has seen every simulation a       *)
(* removed rule owned, the bulk deletion before the next rule, an import   *)
(* before it writes the new rule and its simulations.                      *)
THEOREM CascadeCompletes == Spec => []CascadeIsComplete
<1>1. ASSUME IInv, DataInv, NEW c \in Clients, At(c, "reload"), ~overlapped, failures = 0
      PROVE  handler[c].owned \intersect IdsOf(store.sims) \subseteq ReferencedSims(store.rules)
  <2> PICK h : h = handler[c]
    OBVIOUS
  <2>1. Stepping(h, "reload") /\ Known(h) /\ Road(h)
    BY <1>1, StepAt DEF Stepping, Known
  <2>2. "reload" \in Left(h) /\ Left(h) \subseteq DOMAIN Rank
        /\ \A t \in Left(h) : t = "reload" \/ Rank["reload"] < Rank[t]
    BY <2>1, HeadKnown DEF Stepping
  <2>3. Left(h) \intersect {"write", "rule", "cascade", "sweep"} = {}
    BY <2>2, RankIs
  <2>4. h.cascade = {} /\ Coming(h) = {}
    BY <2>1, <2>3 DEF Known, CascadeKnown, Coming
  <2>5. OwnedKnown(h, store)
    BY <1>1 DEF DataInv
  <2> QED
    BY <2>2, <2>3, <2>4, <2>5 DEF OwnedKnown
<1>2. IInv /\ DataInv => CascadeIsComplete
  BY <1>1 DEF CascadeIsComplete
<1> QED
  BY <1>2, InvInit, InvStep, DataInit, DataStep, PTL DEF Spec

(* What is exported is accepted by an empty store.                         *)
LEMMA ExportAcceptable ==
  ASSUME NEW st, StoreOK(st), NEW rules \in Selections(st)
  PROVE  ImportAcceptable(Exported(st, rules), EmptyStore)
<1> DEFINE list == SetToSeq(rules)
           cfg == Exported(st, rules)
           scenarios == ExportedScenarios(st, rules)
<1>1. /\ rules \subseteq st.rules
      /\ \A r \in rules : /\ r.sims \subseteq IdsOf(st.sims)
                          /\ FaultRefsResolve(r, st)
                          /\ FindDuplicates(rules, r) = {}
      /\ \A s \in scenarios : ScenarioRefsResolve(s, st)
  BY DEF Selections
<1>2. IsFiniteSet(rules) /\ \A x, y \in rules : x.id = y.id => x = y
  BY <1>1, FS_Subset DEF StoreOK, Keyed
<1>3. /\ list \in Seq(ToSet(list)) /\ ToSet(list) = rules
      /\ \A i, j \in 1 .. Len(list) : list[i] = list[j] => i = j
  BY <1>2, SetListed
<1>4. /\ cfg.rules = list
      /\ cfg.sims = {x \in st.sims : x.id \in ReferencedSims(rules)}
      /\ cfg.profiles = {x \in st.profiles : x.id \in ReferencedProfiles(rules \union scenarios)}
      /\ cfg.scenarios = scenarios
  BY DEF Exported
<1>5. DOMAIN list = 1 .. Len(list) /\ Len(list) \in Nat /\ \A i \in 1 .. Len(list) : list[i] \in rules
  <2>1. list \in Seq(rules)
    BY <1>3
  <2> QED
    BY <2>1
<1> HIDE DEF list, cfg, scenarios
<1>6. \A r \in rules : r.sims \subseteq IdsOf(cfg.sims)
  BY <1>1, <1>4 DEF IdsOf, ReferencedSims
<1>7. \A r \in rules \union scenarios : r.profiles \subseteq IdsOf(cfg.profiles)
  <2> SUFFICES ASSUME NEW r \in rules \union scenarios, NEW p \in r.profiles
               PROVE  p \in IdsOf(cfg.profiles)
    OBVIOUS
  <2>1. p \in IdsOf(st.profiles)
    BY <1>1 DEF FaultRefsResolve, ScenarioRefsResolve
  <2>2. p \in ReferencedProfiles(rules \union scenarios)
    BY DEF ReferencedProfiles
  <2> QED
    BY <1>4, <2>1, <2>2 DEF IdsOf
<1>8. ASSUME NEW i \in 1 .. Len(list)
      PROVE  LET r == list[i]
                 before == {list[j] : j \in 1 .. i - 1}
             IN  /\ ~HasRow(before, r.id)
                 /\ FindDuplicates(before, r) = {}
                 /\ r.sims \subseteq IdsOf(cfg.sims \union EmptyStore.sims)
                 /\ r.profiles \subseteq IdsOf(cfg.profiles \union EmptyStore.profiles)
  <2> DEFINE r == list[i]
             before == {list[j] : j \in 1 .. i - 1}
  <2>1. r \in rules
    BY <1>5
  <2>2. ASSUME NEW x \in before PROVE x \in rules /\ x # r
    <3>1. PICK j \in 1 .. i - 1 : x = list[j]
      OBVIOUS
    <3>2. j \in 1 .. Len(list) /\ j # i
      BY <1>5
    <3> QED
      BY <1>3, <1>5, <3>1, <3>2
  <2> HIDE DEF r, before
  <2>3. ~HasRow(before, r.id)
    BY <1>2, <2>1, <2>2 DEF HasRow, IdsOf
  <2>4. FindDuplicates(before, r) = {}
    BY <1>1, <2>1, <2>2 DEF FindDuplicates
  <2>5. r.sims \subseteq IdsOf(cfg.sims \union EmptyStore.sims)
    BY <1>6, <2>1 DEF IdsOf
  <2>6. r.profiles \subseteq IdsOf(cfg.profiles \union EmptyStore.profiles)
    BY <1>7, <2>1 DEF IdsOf
  <2> QED
    BY <2>3, <2>4, <2>5, <2>6 DEF r, before
<1>9. RulesAcceptable(cfg, EmptyStore)
  BY <1>4, <1>5, <1>8 DEF RulesAcceptable
<1>10. ScenariosAcceptable(cfg, EmptyStore)
  <2> SUFFICES ASSUME NEW s \in scenarios
               PROVE  /\ s.rules \subseteq IdsOf(ToSet(list) \union EmptyStore.rules)
                      /\ s.profiles \subseteq IdsOf(cfg.profiles \union EmptyStore.profiles)
    BY <1>4 DEF ScenariosAcceptable
  <2>1. s.rules \subseteq IdsOf(rules)
    BY DEF scenarios, ExportedScenarios
  <2>2. s.profiles \subseteq IdsOf(cfg.profiles)
    BY <1>7
  <2>3. s.rules \subseteq IdsOf(ToSet(list) \union EmptyStore.rules)
    BY <1>3, <2>1 DEF IdsOf
  <2>4. s.profiles \subseteq IdsOf(cfg.profiles \union EmptyStore.profiles)
    BY <2>2 DEF IdsOf
  <2> QED
    BY <2>3, <2>4
<1> QED
  BY <1>9, <1>10 DEF ImportAcceptable, cfg

(* The file exportHandler makes of any rules whose references resolve and  *)
(* of which no two are equal is accepted by validateImportPayload of a     *)
(* store that holds nothing: it carries every simulation and profile its   *)
(* rules and its scenarios refer to, and only scenarios whose rules it has.*)
THEOREM ExportImports == Spec => []ExportedSetImports
<1>1. IInv /\ DataInv => ExportedSetImports
  BY ExportAcceptable DEF DataInv, ExportedSetImports
<1> QED
  BY <1>1, InvInit, InvStep, DataInit, DataStep, PTL DEF Spec


-----------------------------------------------------------------------------
(* Which steps put a rule into the store.                                  *)
LEMMA RowsDropped ==
  ASSUME NEW st, StoreOK(st), NEW id, NEW sim
  PROVE  /\ [st EXCEPT !.rules = DropRow(@, id)].rules \subseteq st.rules
         /\ [st EXCEPT !.sims = DropRow(@, sim)].rules = st.rules
<1>1. st = [t \in Table |-> st[t]] /\ {"rules", "sims"} \subseteq Table
  BY DEF StoreOK, Table
<1> HIDE DEF Table
<1>2. [st EXCEPT !.rules = DropRow(@, id)].rules = DropRow(st.rules, id)
  BY <1>1
<1>3. [st EXCEPT !.sims = DropRow(@, sim)].rules = st.rules
  BY <1>1
<1> QED
  BY <1>2, <1>3 DEF DropRow

(* The rules of the store, after a step that adds none.                    *)
Fewer == store'.rules \subseteq store.rules

LEMMA AdminFewer ==
  ASSUME DataInv, NEW c \in Clients, AdminStep(c)
  PROVE  Fewer \/ Write(c) \/ WriteFails(c)
<1>0. StoreOK(store)
  BY DEF DataInv
<1>1. CASE Receive(c)
  BY <1>1 DEF Receive, Arrive, Fewer
<1>2. CASE \/ CheckRuleRefs(c) \/ CheckProfileRef(c) \/ CheckRefsDone(c) \/ CheckDuplicates(c)
           \/ CheckExists(c) \/ CheckUnused(c) \/ ReadOwned(c) \/ ListRules(c)
           \/ WriteMissing(c) \/ BulkDone(c) \/ CascadeRead(c) \/ CascadeDone(c)
  <2>1. Quiet
    BY <1>2 DEF CheckRuleRefs, CheckProfileRef, CheckRefsDone, CheckDuplicates, CheckExists,
                CheckUnused, ReadOwned, ListRules, WriteMissing, BulkDone, CascadeRead, CascadeDone
  <2> QED
    BY <2>1 DEF Quiet, Fewer
<1>3. CASE \/ ReadFails(c) \/ CascadeReadFails(c) \/ CascadeDeleteFails(c) \/ BulkMissing(c)
           \/ LoadTable(c) \/ RebuildFails(c) \/ Swap(c)
  BY <1>3 DEF ReadFails, CascadeReadFails, CascadeDeleteFails, BulkMissing, LoadTable,
              RebuildFails, Swap, Abandon, Fewer
<1>4. CASE BulkDelete(c)
  BY <1>0, <1>4, RowsDropped DEF BulkDelete, Fewer
<1>5. CASE BulkFails(c)
  BY <1>0, <1>5, RowsDropped DEF BulkFails, Abandon, Fewer
<1>6. CASE CascadeDelete(c)
  BY <1>0, <1>6, RowsDropped DEF CascadeDelete, Fewer
<1> QED
  BY <1>1, <1>2, <1>3, <1>4, <1>5, <1>6 DEF AdminStep

LEMMA ImportFewer ==
  ASSUME DataInv, NEW c \in Clients, ImportStep(c)
  PROVE  Fewer \/ ImportWrite(c) \/ ImportWriteFails(c)
<1>0. StoreOK(store)
  BY DEF DataInv
<1>1. CASE ReceiveImport(c)
  BY <1>1 DEF ReceiveImport, Arrive, Fewer
<1>2. CASE \/ ValidateImport(c) \/ ReadStored(c) \/ ImportSkips(c) \/ ImportSaves(c)
           \/ ImportRulesDone(c)
  <2>1. Quiet
    BY <1>2 DEF ValidateImport, ReadStored, ImportSkips, ImportSaves, ImportRulesDone
  <2> QED
    BY <2>1 DEF Quiet, Fewer
<1>3. CASE ImportResponds(c)
  BY <1>3 DEF ImportResponds, Quiet, Fewer
<1>4. CASE ImportOverrides(c)
  BY <1>0, <1>4, RowsDropped DEF ImportOverrides, Fewer
<1>5. CASE ImportOverrideFails(c)
  BY <1>0, <1>5, RowsDropped DEF ImportOverrideFails, ImportEnds, Abandon, Fewer
<1> QED
  BY <1>1, <1>2, <1>3, <1>4, <1>5 DEF ImportStep

(* A write of the admin API adds the row it has compared with the others.  *)
LEMMA WriteExplains ==
  ASSUME IInv, DataInv, NEW c \in Clients, Write(c) \/ WriteFails(c),
         NEW x \in store'.rules, x \notin store.rules,
         NEW y \in store.rules, x.id # y.id, x.match = y.match
  PROVE  /\ WritesRule(c) /\ RowWritten(c) = x
         /\ overlapped /\ y \notin handler[c].stored
<1> PICK h : h = handler[c]
  OBVIOUS
<1> PICK st : st = store
  OBVIOUS
<1> PICK st2 : st2 = Written(st, h.req)
  OBVIOUS
<1>1. /\ At(c, "write") /\ ~At(c, "rule") /\ Stepping(h, "write") /\ StoreOK(st)
      /\ Known(h) /\ Road(h) /\ h.path # << >> /\ "write" = Head(h.path)
  BY StepAt DEF Write, WriteFails, Stepping, Known, At
<1>2. store' \in {st, st2}
  BY DEF Write, WriteFails, Abandon
<1>3. x \in st2.rules
  BY <1>2
<1>4. st2.rules = IF h.req.table # "rules" THEN st.rules
                  ELSE IF h.req.op = "delete" THEN DropRow(st.rules, h.req.row.id)
                                              ELSE SaveRow(st.rules, h.req.row)
  BY <1>1, WrittenGood
<1>5. h.req.table = "rules" /\ h.req.op # "delete" /\ x = h.req.row
  BY <1>3, <1>4 DEF DropRow, SaveRow
<1>6. "write" \in Left(h) /\ "duplicates" \notin Left(h)
  BY <1>1, HeadKnown, Behind
<1>7. SavesRule(h.req)
  <2>1. h.req \in Requests /\ "write" \in ToSet(Steps(h.req))
    BY <1>1, <1>6, AdminLeft
  <2> QED
    BY <1>5, <2>1, StepsTell, AdminAssumption DEF SavesRule
<1>8. y \notin h.stored
  BY <1>1, <1>5, <1>6, <1>7 DEF Known, UniqueKnown, FindDuplicates
<1>9. overlapped
  <2> SUFFICES ASSUME ~overlapped PROVE FALSE
    BY DEF DataInv
  <2>1. UniqueNow(h, st)
    BY DEF DataInv, KnownOf
  <2> QED
    BY <1>5, <1>6, <1>7, <2>1 DEF UniqueNow, FindDuplicates
<1> QED
  BY <1>1, <1>5, <1>8, <1>9 DEF WritesRule, RowWritten

(* An import, alone, adds a rule equal to another one only in place of     *)
(* others it was compared with.                                            *)
LEMMA ImportExplains ==
  ASSUME IInv, DataInv, NEW c \in Clients, ImportWrite(c) \/ ImportWriteFails(c),
         NEW x \in store'.rules, x \notin store.rules,
         NEW y \in store.rules, x.id # y.id, x.match = y.match
  PROVE  /\ WritesRule(c) /\ RowWritten(c) = x /\ At(c, "rule")
         /\ ~overlapped => Overrides(handler[c].stored, x, y)
<1> PICK h : h = handler[c]
  OBVIOUS
<1> PICK st : st = store
  OBVIOUS
<1>1. PICK s \in ImportWrites : At(c, s)
  BY DEF ImportWrite, ImportWriteFails
<1>2. /\ Stepping(h, s) /\ StoreOK(st) /\ Known(h) /\ Road(h)
      /\ h.path # << >> /\ s = Head(h.path)
  BY <1>1, StepAt DEF Stepping, Known
<1> PICK t : t = IF s = "rule" THEN "rules" ELSE s
  OBVIOUS
<1> PICK rows : rows = PayloadRows(h, s)
  OBVIOUS
<1>3. Payload(c).rows = rows /\ Payload(c).table = t
  BY <1>1, PayloadIs
<1>4. PICK some \in SUBSET rows : store' = [st EXCEPT ![t] = SaveRows(@, some)]
  <2>1. CASE ImportWrite(c)
    BY <1>3, <2>1 DEF ImportWrite
  <2>2. CASE ImportWriteFails(c)
    <3>1. PICK some \in SUBSET rows : \E wrote, tables :
             ImportEnds(c, [st EXCEPT ![t] = SaveRows(@, some)], wrote, tables)
      BY <1>3, <2>2, SomeRowsFail
    <3> QED
      BY <3>1 DEF ImportEnds, Abandon
  <2> QED
    BY <2>1, <2>2
<1> PICK st2 : st2 = store'
  OBVIOUS
<1>5. Fitting(h, s, t, some) /\ Changed(st, t, SaveRows(st[t], some), st2)
  BY <1>4 DEF Fitting, PayloadRows, Changed, ImportWrites, RuleSave
<1>6. (t # "rules" => st2.rules = st.rules) /\ st2[t] = SaveRows(st[t], some)
  BY <1>2, <1>5, SavedGood
<1>7. s = "rule" /\ t = "rules"
  BY <1>6 DEF ImportWrites, RuleSave
<1>8. x = Head(h.todo)
  BY <1>5, <1>6, <1>7 DEF Fitting, SaveRows
<1>9. "rule" \in Left(h) /\ "import" \in Left(h) /\ "stored" \notin Left(h)
  BY <1>2, <1>7, HeadKnown DEF Road
<1>10. ASSUME ~overlapped PROVE Overrides(h.stored, x, y)
  <2>1. LoopKnown(h, st) /\ TurnKnown(h, st)
    BY <1>10 DEF DataInv, KnownOf
  <2>2. /\ h.todo # << >>
        /\ \/ Conflicting(h.stored, x) = {}
           \/ \E ex \in Conflicting(h.stored, x) : ~HasRow(st.rules, ex.id)
    BY <1>8, <1>9, <2>1 DEF TurnKnown
  <2>3. y \in h.stored
    <3>1. x \in ToSet(h.todo)
      BY <1>2, <1>8, <2>2, TodoTail
    <3> QED
      BY <1>9, <2>1, <3>1 DEF LoopKnown
  <2>4. CASE HasRow(h.stored, x.id)
    BY <2>3, <2>4 DEF Overrides
  <2>5. CASE ~HasRow(h.stored, x.id)
    <3>1. Conflicting(h.stored, x) = FindDuplicates(h.stored, x)
      BY <2>5 DEF Conflicting, HasRow, IdsOf
    <3>2. y \in FindDuplicates(h.stored, x)
      BY <2>3 DEF FindDuplicates
    <3>3. PICK ex \in FindDuplicates(h.stored, x) : ~HasRow(st.rules, ex.id)
      BY <2>2, <3>1, <3>2
    <3>4. ex # y
      BY <3>3 DEF HasRow, IdsOf
    <3> QED
      BY <2>3, <3>3, <3>4 DEF Overrides
  <2> QED
    BY <2>4, <2>5
<1> QED
  BY <1>1, <1>7, <1>8, <1>10 DEF WritesRule, RowWritten, Current

(* Two equal rules get into the store only by requests that overlap, or by *)
(* an import that overrides a rule while another stored one is equal, too: *)
(* otherwise duplicateMatchError and detectConflicts stand in the way,     *)
(* whatever calls of the store fail.                                       *)
THEOREM DuplicatesExplained == Spec => DuplicatesHaveACause
<1> DEFINE A == \A x, y \in store'.rules :
          (x.id # y.id /\ x.match = y.match /\ x \notin store.rules /\ y \in store.rules) =>
              \E c \in Clients :
                  /\ WritesRule(c) /\ RowWritten(c) = x
                  /\ IF overlapped THEN At(c, "rule") \/ y \notin handler[c].stored
                                   ELSE At(c, "rule") /\ Overrides(handler[c].stored, x, y)
<1>1. ASSUME IInv, DataInv, [Next]_vars PROVE [A]_vars
  <2> SUFFICES ASSUME Next, NEW x \in store'.rules, NEW y \in store'.rules,
                      x.id # y.id, x.match = y.match, x \notin store.rules, y \in store.rules
               PROVE  \E c \in Clients :
                  /\ WritesRule(c) /\ RowWritten(c) = x
                  /\ IF overlapped THEN At(c, "rule") \/ y \notin handler[c].stored
                                   ELSE At(c, "rule") /\ Overrides(handler[c].stored, x, y)
    BY <1>1
  <2>1. ~Fewer
    BY DEF Fewer
  <2>2. ASSUME NEW a \in Apps, AppStep(a) PROVE FALSE
    BY <2>1, <2>2, AppsLeave DEF Fewer
  <2>3. PICK c \in Clients : Write(c) \/ WriteFails(c) \/ ImportWrite(c) \/ ImportWriteFails(c)
    BY <1>1, <2>1, <2>2, AdminFewer, ImportFewer DEF Next
  <2>4. CASE Write(c) \/ WriteFails(c)
    BY <1>1, <2>4, WriteExplains
  <2>5. CASE ImportWrite(c) \/ ImportWriteFails(c)
    BY <1>1, <2>5, ImportExplains
  <2> QED
    BY <2>3, <2>4, <2>5
<1> QED
  BY <1>1, InvInit, InvStep, DataInit, DataStep, PTL DEF Spec, DuplicatesHaveACause

-----------------------------------------------------------------------------
Call == {p \in [at : {"idle", "entries", "accepted", "failed"}, entries : Seq(Events)] :
            p.at \in {"accepted", "failed"} => p.entries # << >>}

(* The shape of the calls, the captures and the deliveries: a call that    *)
(* waits for the broker has an entry it waits for.                         *)
EventsTyped ==
    /\ publish \in [Apps -> Call]
    /\ captured \in [Events -> [{200, 502} -> Nat]]
    /\ delivered \in [Events -> Nat]

EventInv == EventsTyped /\ CapturesBracketBroker

-----------------------------------------------------------------------------
(* What the captures of an event, and the calls that wait for the broker   *)
(* with it, allow of deliveries.                                           *)
LEMMA OneMore ==
  ASSUME NEW k \in Nat
  PROVE  MaxAttempts * (k + 1) = MaxAttempts * k + MaxAttempts
BY EventAssumption

(* The calls that wait for the broker with an event are finitely many.     *)
LEMMA SentFinite ==
  ASSUME NEW e
  PROVE  /\ IsFiniteSet(Sent(e)) /\ Cardinality(Sent(e)) \in Nat
         /\ IsFiniteSet(Accepted(e)) /\ Cardinality(Accepted(e)) \in Nat
<1>1. Accepted(e) \in SUBSET Sent(e) /\ Sent(e) \in SUBSET Apps
  BY DEF Sent, Accepted
<1>2. IsFiniteSet(Apps)
  BY EventAssumption
<1>3. IsFiniteSet(Sent(e))
  BY <1>1, <1>2, FS_Subset
<1>4. IsFiniteSet(Accepted(e))
  BY <1>1, <1>3, FS_Subset
<1> QED
  BY <1>3, <1>4, FS_CardinalityType

(* The call of one application changes.                                    *)
CallTurns(a, p) == publish' = [publish EXCEPT ![a] = p]

Waits(p) == p.at \in {"accepted", "failed"}

(* A call that neither waits before nor after its step.                    *)
LEMMA InsideKeeps ==
  ASSUME EventInv, NEW a \in Apps, NEW p \in Call, CallTurns(a, p),
         ~Waits(publish[a]), ~Waits(p), UNCHANGED <<captured, delivered>>
  PROVE  EventInv'
<1>1. EventsTyped'
  BY DEF EventInv, EventsTyped, CallTurns
<1>2. ASSUME NEW e \in Events PROVE Sent(e)' = Sent(e) /\ Accepted(e)' = Accepted(e)
  BY DEF EventInv, EventsTyped, CallTurns, Waits, Sent, Accepted, Entry
<1> QED
  BY <1>1, <1>2 DEF EventInv, CapturesBracketBroker

(* The call of the broker: it took the event, as often as the client tried *)
(* at most, or it failed and may have taken it.                            *)
LEMMA SendKeeps ==
  ASSUME EventInv, NEW a \in Apps, NEW p \in Call, CallTurns(a, p), ~Waits(publish[a]),
         Waits(p), NEW e0 \in Events, Head(p.entries) = e0, NEW taken \in 0 .. MaxAttempts,
         p.at = "accepted" => taken >= 1,
         delivered' = [delivered EXCEPT ![e0] = @ + taken], captured' = captured
  PROVE  EventInv'
<1>1. EventsTyped'
  BY DEF EventInv, EventsTyped, CallTurns
<1>2. a \notin Sent(e0) /\ a \notin Accepted(e0)
  BY DEF Sent, Accepted, Waits
<1>3. /\ Sent(e0)' = Sent(e0) \union {a}
      /\ Accepted(e0)' = IF p.at = "accepted" THEN Accepted(e0) \union {a} ELSE Accepted(e0)
  BY <1>2 DEF EventInv, EventsTyped, CallTurns, Waits, Sent, Accepted, Entry
<1>4. /\ Cardinality(Sent(e0)') = Cardinality(Sent(e0)) + 1
      /\ \/ Cardinality(Accepted(e0)') = Cardinality(Accepted(e0))
         \/ Cardinality(Accepted(e0)') = Cardinality(Accepted(e0)) + 1 /\ taken >= 1
  <2>1. IsFiniteSet(Sent(e0)) /\ IsFiniteSet(Accepted(e0))
    BY SentFinite
  <2>2. /\ Cardinality(Sent(e0) \union {a}) = Cardinality(Sent(e0)) + 1
        /\ Cardinality(Accepted(e0) \union {a}) = Cardinality(Accepted(e0)) + 1
    BY <1>2, <2>1, FS_AddElement
  <2>3. CASE p.at = "accepted"
    BY <1>3, <2>2, <2>3
  <2>4. CASE p.at # "accepted"
    BY <1>3, <2>2, <2>4
  <2> QED
    BY <2>3, <2>4
<1>5. \A e \in Events \ {e0} : Sent(e)' = Sent(e) /\ Accepted(e)' = Accepted(e)
  BY DEF EventInv, EventsTyped, CallTurns, Waits, Sent, Accepted, Entry
<1>6. ASSUME NEW e \in Events
      PROVE  (/\ captured[e][200] + Cardinality(Accepted(e)) <= delivered[e]
              /\ delivered[e] <=
                    MaxAttempts * (captured[e][200] + captured[e][502] + Cardinality(Sent(e))))'
  <2>1. CASE e = e0
    <3>1. /\ captured[e0][200] \in Nat /\ captured[e0][502] \in Nat /\ delivered[e0] \in Nat
          /\ delivered'[e0] = delivered[e0] + taken
      BY DEF EventInv, EventsTyped
    <3>2. PICK n \in Nat : n = captured[e0][200] + captured[e0][502] + Cardinality(Sent(e0))
      BY <3>1, SentFinite
    <3>3. /\ captured[e0][200] + Cardinality(Accepted(e0)) <= delivered[e0]
          /\ delivered[e0] <= MaxAttempts * n
      BY <3>2 DEF EventInv, CapturesBracketBroker
    <3>4. captured[e0][200] + captured[e0][502] + Cardinality(Sent(e0)') = n + 1
      BY <1>4, <3>1, <3>2, SentFinite
    <3>5. MaxAttempts \in Nat /\ MaxAttempts * n \in Nat
      BY EventAssumption
    <3>6. delivered'[e0] <= MaxAttempts * (n + 1)
      BY <3>1, <3>3, <3>5, OneMore
    <3>7. captured[e0][200] + Cardinality(Accepted(e0)') <= delivered'[e0]
      BY <1>4, <3>1, <3>3, <3>5, SentFinite
    <3> QED
      BY <2>1, <3>4, <3>6, <3>7
  <2>2. CASE e # e0
    <3>1. delivered'[e] = delivered[e]
      BY <2>2 DEF EventInv, EventsTyped
    <3> QED
      BY <1>5, <2>2, <3>1 DEF EventInv, CapturesBracketBroker
  <2> QED
    BY <2>1, <2>2
<1> QED
  BY <1>1, <1>6 DEF EventInv, CapturesBracketBroker

(* The answer of the broker is captured, with its status.                  *)
LEMMA CaptureKeeps ==
  ASSUME EventInv, NEW a \in Apps, NEW p \in Call, CallTurns(a, p), ~Waits(p),
         Waits(publish[a]), NEW status \in {200, 502}, Capture(a, status),
         status = 200 <=> publish[a].at = "accepted", delivered' = delivered
  PROVE  EventInv'
<1>1. PICK e0 \in Events : e0 = Entry(a)
  <2>1. publish[a].entries \in Seq(Events) /\ publish[a].entries # << >>
    BY DEF EventInv, EventsTyped, Call, Waits
  <2> QED
    BY <2>1 DEF Entry
<1>2. /\ captured' = [captured EXCEPT ![e0][status] = captured[e0][status] + 1]
      /\ captured[e0] \in [{200, 502} -> Nat] /\ delivered[e0] \in Nat
  BY <1>1 DEF Capture, EventInv, EventsTyped
<1>3. EventsTyped'
  BY <1>1, <1>2 DEF EventInv, EventsTyped, CallTurns
<1>4. a \in Sent(e0) /\ (a \in Accepted(e0) <=> status = 200)
  BY <1>1 DEF Sent, Accepted, Waits
<1>5. /\ Sent(e0)' = Sent(e0) \ {a}
      /\ Accepted(e0)' = Accepted(e0) \ {a}
  <2>1. publish'[a] = p /\ \A b \in Apps \ {a} : publish'[b] = publish[b]
    BY DEF EventInv, EventsTyped, CallTurns
  <2>2. Sent(e0)' = Sent(e0) \ {a}
    BY <2>1 DEF Waits, Sent, Entry
  <2>3. Accepted(e0)' = {b \in Sent(e0)' : publish'[b].at = "accepted"}
    BY DEF Accepted
  <2>4. \A b \in Sent(e0)' : b # a /\ publish'[b] = publish[b]
    BY <2>1, <2>2 DEF Sent
  <2> QED
    BY <2>2, <2>3, <2>4 DEF Accepted
<1>6. /\ Cardinality(Sent(e0)') = Cardinality(Sent(e0)) - 1
      /\ Cardinality(Accepted(e0)') =
             Cardinality(Accepted(e0)) - (IF status = 200 THEN 1 ELSE 0)
  <2>1. IsFiniteSet(Sent(e0)) /\ IsFiniteSet(Accepted(e0))
    BY SentFinite
  <2>2. Cardinality(Sent(e0) \ {a}) = Cardinality(Sent(e0)) - 1
    BY <1>4, <2>1, FS_RemoveElement
  <2>3. Cardinality(Accepted(e0) \ {a}) =
            Cardinality(Accepted(e0)) - (IF status = 200 THEN 1 ELSE 0)
    <3>1. CASE status = 200
      BY <1>4, <2>1, <3>1, FS_RemoveElement
    <3>2. CASE status # 200
      BY <1>4, <3>2, SentFinite
    <3> QED
      BY <3>1, <3>2
  <2> QED
    BY <1>5, <2>2, <2>3
<1>7. \A e \in Events \ {e0} : Sent(e)' = Sent(e) /\ Accepted(e)' = Accepted(e)
  BY <1>1 DEF EventInv, EventsTyped, CallTurns, Waits, Sent, Accepted, Entry
<1>8. ASSUME NEW e \in Events
      PROVE  (/\ captured[e][200] + Cardinality(Accepted(e)) <= delivered[e]
              /\ delivered[e] <=
                    MaxAttempts * (captured[e][200] + captured[e][502] + Cardinality(Sent(e))))'
  <2>1. CASE e = e0
    <3>1. /\ captured'[e0][200] = captured[e0][200] + (IF status = 200 THEN 1 ELSE 0)
          /\ captured'[e0][502] = captured[e0][502] + (IF status = 200 THEN 0 ELSE 1)
      BY <1>1, <1>2 DEF EventInv, EventsTyped
    <3>2. /\ captured[e0][200] \in Nat /\ captured[e0][502] \in Nat
      BY <1>2
    <3>3. PICK n \in Nat : n = captured[e0][200] + captured[e0][502] + Cardinality(Sent(e0))
      BY <3>2, SentFinite
    <3>4. captured[e0][200] + Cardinality(Accepted(e0)) <= delivered[e0]
      BY <1>1 DEF EventInv, CapturesBracketBroker
    <3>5. delivered[e0] <= MaxAttempts * n
      BY <1>1, <3>3 DEF EventInv, CapturesBracketBroker
    <3>6. /\ Cardinality(Sent(e0)) \in Nat /\ Cardinality(Accepted(e0)) \in Nat
          /\ delivered[e0] \in Nat /\ delivered' = delivered
      BY <1>2, SentFinite
    <3>7. /\ captured'[e0][200] + captured'[e0][502] + Cardinality(Sent(e0)') = n
          /\ captured'[e0][200] + Cardinality(Accepted(e0)') <= delivered[e0]
      <4>1. CASE status = 200
        BY <1>6, <3>1, <3>2, <3>3, <3>4, <3>6, <4>1
      <4>2. CASE status = 502
        <5>1. /\ captured'[e0][200] = captured[e0][200]
              /\ captured'[e0][502] = captured[e0][502] + 1
              /\ Cardinality(Accepted(e0)') = Cardinality(Accepted(e0))
          BY ONLY <1>6, <3>1, <3>2, <3>6, <4>2
        <5> QED
          BY ONLY <1>6, <3>2, <3>3, <3>4, <3>6, <5>1
      <4> QED
        BY <4>1, <4>2
    <3> QED
      BY <2>1, <3>6, <3>7, <3>5
  <2>2. CASE e # e0
    <3>1. captured'[e] = captured[e]
      BY <1>1, <1>2, <2>2 DEF EventInv, EventsTyped
    <3> QED
      BY <1>7, <2>2, <3>1 DEF EventInv, CapturesBracketBroker
  <2> QED
    BY <2>1, <2>2
<1> QED
  BY <1>3, <1>8 DEF EventInv, CapturesBracketBroker

-----------------------------------------------------------------------------
LEMMA EventInvInit == Init => EventInv
<1> SUFFICES ASSUME Init PROVE EventInv
  OBVIOUS
<1>1. EventsTyped
  BY DEF Init, EventInit, EventsTyped, Call, NoPublish
<1>2. ASSUME NEW e \in Events PROVE Sent(e) = {} /\ Accepted(e) = {}
  BY DEF Init, EventInit, NoPublish, Sent, Accepted
<1>3. Cardinality({}) = 0 /\ MaxAttempts * (0 + 0 + 0) = 0
  BY FS_EmptySet, EventAssumption
<1>4. \A e \in Events : captured[e][200] = 0 /\ captured[e][502] = 0 /\ delivered[e] = 0
  BY DEF Init, EventInit
<1> QED
  BY <1>1, <1>2, <1>3, <1>4 DEF EventInv, CapturesBracketBroker

LEMMA AppKeeps ==
  ASSUME EventInv, NEW a \in Apps, AppStep(a)
  PROVE  EventInv'
<1> DEFINE call == publish[a]
<1>1. call \in Call /\ call = [at |-> call.at, entries |-> call.entries]
  BY DEF EventInv, EventsTyped, Call
<1>2. ASSUME Resolving(a)
      PROVE  /\ ~Waits(call) /\ Entry(a) \in Events
             /\ \A at \in {"accepted", "failed"} : [call EXCEPT !.at = at] \in Call
  BY <1>1, <1>2 DEF Resolving, Waits, Entry, Call
<1>3. ASSUME Resolving(a), NextEntry(a), UNCHANGED <<captured, delivered>> PROVE EventInv'
  <2> DEFINE p == [at |-> "entries", entries |-> Tail(call.entries)]
  <2>1. p \in Call /\ ~Waits(p)
    BY <1>1, <1>3 DEF Resolving, Call, Waits
  <2>2. CallTurns(a, p)
    <3>1. publish' = [publish EXCEPT ![a] = [call EXCEPT !.entries = Tail(call.entries)]]
      BY <1>3 DEF NextEntry, EventInv, EventsTyped
    <3>2. [call EXCEPT !.entries = Tail(call.entries)] = p
      BY <1>1, <1>3 DEF Resolving
    <3> QED
      BY <3>1, <3>2 DEF CallTurns
  <2> QED
    BY <1>2, <1>3, <2>1, <2>2, InsideKeeps
<1>4. CASE Publish(a)
  <2>1. PICK batch \in Batches : CallTurns(a, [at |-> "entries", entries |-> batch])
    BY <1>4 DEF Publish, CallTurns
  <2>2. [at |-> "entries", entries |-> batch] \in Call
    BY EventAssumption DEF Call
  <2> QED
    BY <1>4, <2>1, <2>2, InsideKeeps DEF Publish, Waits
<1>5. CASE Unmatched(a)
  BY <1>3, <1>5 DEF Unmatched
<1>6. CASE Synthesize(a)
  BY <1>3, <1>6 DEF Synthesize
<1>7. CASE Forward(a)
  <2> DEFINE p == [call EXCEPT !.at = "accepted"]
  <2>1. Resolving(a) /\ CallTurns(a, p)
    BY <1>1, <1>7 DEF Forward, CallTurns
  <2>2. Waits(p) /\ Head(p.entries) = Entry(a) /\ p.at = "accepted"
    BY <1>1 DEF Waits, Entry
  <2>3. PICK taken \in 1 .. MaxAttempts : delivered' = [delivered EXCEPT ![Entry(a)] = @ + taken]
    BY <1>7 DEF Forward
  <2>4. captured' = captured /\ taken \in 0 .. MaxAttempts /\ taken >= 1
    BY <1>7, EventAssumption DEF Forward
  <2> QED
    BY <1>2, <2>1, <2>2, <2>3, <2>4, SendKeeps
<1>8. CASE ForwardFails(a)
  <2> DEFINE p == [call EXCEPT !.at = "failed"]
  <2>1. Resolving(a) /\ CallTurns(a, p)
    BY <1>1, <1>8 DEF ForwardFails, CallTurns
  <2>2. Waits(p) /\ Head(p.entries) = Entry(a) /\ p.at # "accepted"
    BY <1>1 DEF Waits, Entry
  <2>3. PICK taken \in 0 .. MaxAttempts : delivered' = [delivered EXCEPT ![Entry(a)] = @ + taken]
    BY <1>8 DEF ForwardFails
  <2>4. captured' = captured
    BY <1>8 DEF ForwardFails
  <2> QED
    BY <1>2, <2>1, <2>2, <2>3, <2>4, SendKeeps
<1>9. CASE ForwardDone(a)
  <2> DEFINE p == [at |-> "entries", entries |-> Tail(call.entries)]
  <2>1. p \in Call /\ ~Waits(p) /\ Waits(call) /\ call.at = "accepted"
    BY <1>1, <1>9 DEF ForwardDone, Call, Waits
  <2>2. CallTurns(a, p) /\ Capture(a, 200) /\ delivered' = delivered
    BY <1>9 DEF ForwardDone, CallTurns
  <2> QED
    BY <2>1, <2>2, CaptureKeeps
<1>10. CASE ForwardFailed(a)
  <2>1. NoPublish \in Call /\ ~Waits(NoPublish) /\ Waits(call) /\ call.at # "accepted"
    BY <1>1, <1>10 DEF ForwardFailed, NoPublish, Call, Waits
  <2>2. CallTurns(a, NoPublish) /\ Capture(a, 502) /\ delivered' = delivered
    BY <1>10 DEF ForwardFailed, CallTurns
  <2> QED
    BY <2>1, <2>2, CaptureKeeps
<1>11. CASE Respond(a)
  <2>1. NoPublish \in Call /\ ~Waits(NoPublish) /\ ~Waits(call)
    BY <1>1, <1>11 DEF Respond, NoPublish, Call, Waits
  <2>2. CallTurns(a, NoPublish) /\ UNCHANGED <<captured, delivered>>
    BY <1>11 DEF Respond, CallTurns
  <2> QED
    BY <2>1, <2>2, InsideKeeps
<1> QED
  BY <1>4, <1>5, <1>6, <1>7, <1>8, <1>9, <1>10, <1>11 DEF AppStep

LEMMA EventInvStep == EventInv /\ [Next]_vars => EventInv'
<1> SUFFICES ASSUME EventInv, [Next]_vars PROVE EventInv'
  OBVIOUS
<1>1. ASSUME UNCHANGED eventVars PROVE EventInv'
  <2>1. \A e : Sent(e)' = Sent(e) /\ Accepted(e)' = Accepted(e)
    BY <1>1 DEF eventVars, Sent, Accepted, Entry
  <2> QED
    BY <1>1, <2>1 DEF eventVars, EventInv, EventsTyped, CapturesBracketBroker
<1> QED
  BY <1>1, AppKeeps DEF Next, vars

-----------------------------------------------------------------------------
(* An event captured as forwarded was delivered to the broker; and there   *)
(* is, or is about to be, a capture for the deliveries of every call of    *)
(* the broker, at most as many of them as its client makes attempts.  It   *)
(* holds for any number of publishes and attempts, and whatever the broker *)
(* takes and yet fails (ServeHTTP, resolveOutcome, Forward).               *)
THEOREM BracketCorrect == Spec => []CapturesBracketBroker
<1>1. EventInv => CapturesBracketBroker
  BY DEF EventInv
<1> QED
  BY <1>1, EventInvInit, EventInvStep, PTL DEF Spec

-----------------------------------------------------------------------------
(* What gets live.  The last invariant is about the rebuilds: a table      *)
(* that is not live as it is stored, or that a reload under way has read   *)
(* before it was changed, will be read again, by a handler that has not    *)
(* got to it yet; or its change is on record as unpublished.               *)

(* A handler on its way to a reload may have changed a table: one of a     *)
(* bulk delete, or of an import, once it has written, an import also when  *)
(* it has saved simulations of the rule it is saving.                      *)
MayOwe(h, t) ==
    /\ Late(h.path)
    /\ CASE h.req.op = "import"    -> h.wrote \/ (t = "sims" /\ "rule" \in Left(h))
         [] h.req.op = "deleteAll" -> h.wrote /\ t \in {"rules", "sims"}
         [] OTHER -> TRUE

(* Its reload will swap the table in as it is stored.                      *)
Fresh(c, t) ==
    /\ MayOwe(handler[c], t)
    /\ t \in rebuild[c].loaded =>
           rebuild[c].snapshot[t] = store[t] /\ t \notin rebuild[c].outdated

Covered(t) == t \in unpublished \/ live[t] = store[t] \/ \E c \in Clients : Fresh(c, t)

ReadCovered(c, t) ==
    t \in rebuild[c].loaded /\ t \notin rebuild[c].outdated =>
        rebuild[c].snapshot[t] = store[t] \/ \E d \in Clients : Fresh(d, t)

RebuildTyped(r) ==
    /\ r = [loaded |-> r.loaded, snapshot |-> r.snapshot, outdated |-> r.outdated]
    /\ r.snapshot = [t \in LiveTable |-> r.snapshot[t]]
    /\ r.outdated \subseteq r.loaded /\ r.loaded \subseteq LiveTable

(* A bulk delete or an import in a cascade has written.                    *)
CascadeWrote(h) ==
    h.req.op \in {"deleteAll", "import"} /\ Left(h) \intersect {"cascade", "sweep"} # {} => h.wrote

RebuildsInv ==
    /\ rebuild = [c \in Clients |-> rebuild[c]]
    /\ \A c \in Clients :
           /\ RebuildTyped(rebuild[c]) /\ CascadeWrote(handler[c])
           /\ ~At(c, "reload") => rebuild[c] = NoRebuild

LiveInv ==
    /\ RebuildsInv
    /\ \A t \in LiveTable : Covered(t) /\ \A c \in Clients : ReadCovered(c, t)

LEMMA NoRebuildTyped == RebuildTyped(NoRebuild) /\ NoRebuild.loaded = {}
BY DEF RebuildTyped, NoRebuild

LEMMA LiveTables ==
  LiveTable = {"rules", "sims", "profiles", "eventRules"} /\ LiveTable \subseteq Table
BY DEF LiveTable, ReadBefore, Table

LEMMA IdleOwesNothing ==
  /\ CascadeWrote(Idle) /\ Idle.path = << >>
  /\ \A t : ~MayOwe(Idle, t)
<1>1. Idle.path = << >>
  BY DEF Idle
<1> QED
  BY <1>1, EmptyLeft DEF CascadeWrote, MayOwe, Late

-----------------------------------------------------------------------------
(* Steps that leave the rebuilds alone.  A table they change is one their  *)
(* handler owes from now on, and it keeps owing what it did.               *)
LEMMA PlainStep ==
  ASSUME LiveInv, IInv, NEW c \in Clients, ~At(c, "reload"), UNCHANGED pipeVars,
         NEW h2, handler' = [handler EXCEPT ![c] = h2], CascadeWrote(h2),
         \A t \in LiveTable : MayOwe(handler[c], t) => MayOwe(h2, t),
         \A t \in LiveTable : store'[t] = store[t] \/ MayOwe(h2, t)
  PROVE  LiveInv'
<1>1. handler'[c] = h2 /\ \A d \in Clients \ {c} : handler'[d] = handler[d]
  BY DEF IInv, PathInv, HandlersTyped
<1>2. live' = live /\ rebuild' = rebuild /\ unpublished' = unpublished
  BY DEF pipeVars
<1>3. rebuild[c] = NoRebuild /\ rebuild[c].loaded = {}
  BY NoRebuildTyped DEF LiveInv, RebuildsInv
<1>4. RebuildsInv'
  <2>1. \A d \in Clients \ {c} : At(d, "reload")' <=> At(d, "reload")
    BY <1>1 DEF At
  <2>2. \A d \in Clients : RebuildTyped(rebuild[d]) /\ CascadeWrote(handler'[d])
    BY <1>1 DEF LiveInv, RebuildsInv
  <2> QED
    BY <1>2, <1>3, <2>1, <2>2 DEF LiveInv, RebuildsInv
<1>5. ASSUME NEW t \in LiveTable
      PROVE  Covered(t)' /\ \A d \in Clients : ReadCovered(d, t)'
  <2>1. CASE MayOwe(h2, t)
    <3>1. Fresh(c, t)'
      BY <1>1, <1>2, <1>3, <2>1 DEF Fresh
    <3> QED
      BY <3>1 DEF Covered, ReadCovered
  <2>2. CASE store'[t] = store[t]
    <3>1. \A d \in Clients : Fresh(d, t) => Fresh(d, t)'
      BY <1>1, <1>2, <2>2 DEF Fresh
    <3> QED
      BY <1>2, <2>2, <3>1 DEF LiveInv, Covered, ReadCovered
  <2> QED
    BY <2>1, <2>2
<1> QED
  BY <1>4, <1>5 DEF LiveInv

(* The rebuilds of the others, when a request ends.                        *)
LEMMA EndsOutdates ==
  ASSUME LiveInv, NEW c \in Clients, NEW st, NEW tables, Ends(c, st, tables)
  PROVE  /\ rebuild' = [d \in Clients |-> rebuild'[d]]
         /\ rebuild'[c] = NoRebuild /\ rebuild'[c].loaded = {}
         /\ \A d \in Clients \ {c} :
               /\ RebuildTyped(rebuild'[d])
               /\ rebuild'[d].loaded = rebuild[d].loaded
               /\ rebuild'[d].snapshot = rebuild[d].snapshot
               /\ \A t : t \in rebuild'[d].outdated <=>
                             \/ t \in rebuild[d].outdated
                             \/ t \in tables /\ t \in rebuild[d].loaded
                                             /\ rebuild[d].snapshot[t] # st[t]
               /\ rebuild[d] = NoRebuild => rebuild'[d] = NoRebuild
<1>1. rebuild' = [d \in Clients |-> rebuild'[d]] /\ rebuild'[c] = NoRebuild
  BY DEF Ends
<1>2. ASSUME NEW d \in Clients \ {c}
      PROVE  /\ RebuildTyped(rebuild'[d])
             /\ rebuild'[d].loaded = rebuild[d].loaded
             /\ rebuild'[d].snapshot = rebuild[d].snapshot
             /\ \A t : t \in rebuild'[d].outdated <=>
                           \/ t \in rebuild[d].outdated
                           \/ t \in tables /\ t \in rebuild[d].loaded
                                           /\ rebuild[d].snapshot[t] # st[t]
             /\ rebuild[d] = NoRebuild => rebuild'[d] = NoRebuild
  <2> PICK r : r = rebuild[d]
    OBVIOUS
  <2> PICK more : more = Outdated(d, st, tables)
    OBVIOUS
  <2>1. RebuildTyped(r)
    BY DEF LiveInv, RebuildsInv
  <2>2. rebuild'[d] = [r EXCEPT !.outdated = @ \union more]
    BY DEF Ends
  <2>3. rebuild'[d] = [loaded |-> r.loaded, snapshot |-> r.snapshot, outdated |-> r.outdated \union more]
    BY <2>1, <2>2 DEF RebuildTyped
  <2>4. \A t : t \in more <=> t \in tables /\ t \in r.loaded /\ r.snapshot[t] # st[t]
    BY DEF Outdated
  <2>5. /\ rebuild'[d].loaded = r.loaded /\ rebuild'[d].snapshot = r.snapshot
        /\ rebuild'[d].outdated = r.outdated \union more
    BY <2>3
  <2>6. RebuildTyped(rebuild'[d])
    BY <2>1, <2>3, <2>4, <2>5 DEF RebuildTyped
  <2>7. ASSUME r = NoRebuild PROVE rebuild'[d] = NoRebuild
    <3>1. r.loaded = {} /\ r.outdated = {}
      BY <2>7 DEF NoRebuild
    <3>2. more = {}
      BY <2>4, <3>1
    <3> QED
      BY <2>3, <2>7, <3>1, <3>2 DEF NoRebuild
  <2> QED
    BY <2>4, <2>5, <2>6, <2>7
<1> QED
  BY <1>1, <1>2, NoRebuildTyped

LEMMA EndsRebuilds ==
  ASSUME LiveInv, NEW c \in Clients, NEW st, NEW tables, Ends(c, st, tables),
         handler'[c] = Idle, \A d \in Clients \ {c} : handler'[d] = handler[d]
  PROVE  RebuildsInv'
<1>1. ASSUME NEW d \in Clients
      PROVE  /\ RebuildTyped(rebuild'[d]) /\ CascadeWrote(handler'[d])
             /\ ~At(d, "reload")' => rebuild'[d] = NoRebuild
  <2>1. CASE d = c
    BY <2>1, EndsOutdates, NoRebuildTyped, IdleOwesNothing
  <2>2. CASE d # c
    <3>1. At(d, "reload")' <=> At(d, "reload")
      BY <2>2 DEF At
    <3>2. CascadeWrote(handler[d]) /\ (~At(d, "reload") => rebuild[d] = NoRebuild)
      BY DEF LiveInv, RebuildsInv
    <3> QED
      BY <2>2, <3>1, <3>2, EndsOutdates
  <2> QED
    BY <2>1, <2>2
<1>2. rebuild' = [d \in Clients |-> rebuild'[d]]
  BY EndsOutdates
<1> QED
  BY <1>1, <1>2 DEF RebuildsInv

(* A request ends without a reload.  What it leaves changed is recorded.   *)
LEMMA AbandonStep ==
  ASSUME LiveInv, IInv, NEW c \in Clients, NEW st, NEW tables, Abandon(c, st, tables),
         \A t \in LiveTable : t \in tables \/ (st[t] = store[t] /\ ~MayOwe(handler[c], t))
  PROVE  LiveInv'
<1>1. handler'[c] = Idle /\ \A d \in Clients \ {c} : handler'[d] = handler[d]
  BY DEF Abandon, IInv, PathInv, HandlersTyped
<1>2. live' = live /\ unpublished' = unpublished \union tables /\ store' = st
  BY DEF Abandon
<1>3. Ends(c, st, tables)
  BY DEF Abandon
<1>4. RebuildsInv'
  BY <1>1, <1>3, EndsRebuilds
<1>5. ASSUME NEW t \in LiveTable
      PROVE  Covered(t)' /\ \A d \in Clients : ReadCovered(d, t)'
  <2>1. CASE t \in tables
    <3>1. \A d \in Clients : t \in rebuild'[d].loaded /\ t \notin rebuild'[d].outdated =>
                                 rebuild'[d].snapshot[t] = st[t]
      BY <1>3, <2>1, EndsOutdates
    <3> QED
      BY <1>2, <2>1, <3>1 DEF Covered, ReadCovered
  <2>2. CASE t \notin tables
    <3>1. st[t] = store[t] /\ ~MayOwe(handler[c], t)
      BY <2>2
    <3>2. /\ rebuild'[c].loaded = {}
          /\ \A d \in Clients \ {c} :
                /\ rebuild'[d].loaded = rebuild[d].loaded
                /\ rebuild'[d].snapshot = rebuild[d].snapshot
                /\ t \in rebuild'[d].outdated <=> t \in rebuild[d].outdated
      BY <1>3, <2>2, EndsOutdates
    <3>3. \A d \in Clients : Fresh(d, t) => Fresh(d, t)'
      BY <1>1, <1>2, <3>1, <3>2 DEF Fresh
    <3> QED
      BY <1>2, <3>1, <3>2, <3>3 DEF LiveInv, Covered, ReadCovered
  <2> QED
    BY <2>1, <2>2
<1> QED
  BY <1>4, <1>5 DEF LiveInv

(* A reload swaps in what it has read, under the lock.                     *)
LEMMA SwapStep ==
  ASSUME LiveInv, IInv, NEW c \in Clients, Swap(c)
  PROVE  LiveInv'
<1>1. handler'[c] = Idle /\ \A d \in Clients \ {c} : handler'[d] = handler[d]
  BY DEF Swap, IInv, PathInv, HandlersTyped
<1>2. /\ live' = rebuild[c].snapshot /\ unpublished' = rebuild[c].outdated
      /\ store' = store /\ rebuild[c].loaded = LiveTable
  BY DEF Swap
<1>3. Ends(c, store, LiveTable)
  BY DEF Swap
<1>4. RebuildsInv'
  BY <1>1, <1>3, EndsRebuilds
<1>5. ASSUME NEW t \in LiveTable
      PROVE  Covered(t)' /\ \A d \in Clients : ReadCovered(d, t)'
  <2>1. \A d \in Clients : t \in rebuild'[d].loaded /\ t \notin rebuild'[d].outdated =>
                               rebuild'[d].snapshot[t] = store[t]
    BY <1>3, EndsOutdates
  <2>2. CASE t \in rebuild[c].outdated
    BY <1>2, <2>1, <2>2 DEF Covered, ReadCovered
  <2>3. CASE rebuild[c].snapshot[t] = store[t]
    BY <1>2, <2>1, <2>3 DEF Covered, ReadCovered
  <2>4. ASSUME NEW d \in Clients, Fresh(d, t), rebuild[c].snapshot[t] # store[t]
        PROVE  Covered(t)'
    <3>1. d # c
      BY <1>2, <2>4 DEF Fresh
    <3>2. Fresh(d, t)'
      BY <1>1, <1>2, <1>3, <2>4, <3>1, EndsOutdates DEF Fresh
    <3> QED
      BY <3>2 DEF Covered
  <2>5. \/ t \in rebuild[c].outdated \/ rebuild[c].snapshot[t] = store[t]
        \/ \E d \in Clients : Fresh(d, t)
    BY <1>2 DEF LiveInv, ReadCovered
  <2> QED
    BY <1>2, <2>1, <2>2, <2>3, <2>4, <2>5 DEF ReadCovered
<1> QED
  BY <1>4, <1>5 DEF LiveInv

(* It reads one of its tables.                                             *)
LEMMA LoadStep ==
  ASSUME LiveInv, IInv, NEW c \in Clients, LoadTable(c)
  PROVE  LiveInv'
<1> PICK r : r = rebuild[c]
  OBVIOUS
<1> PICK rows : rows = store
  OBVIOUS
<1>1. PICK t0 \in LiveTable \ r.loaded :
          rebuild' = [rebuild EXCEPT ![c].loaded = @ \union {t0}, ![c].snapshot[t0] = rows[t0]]
  BY DEF LoadTable
<1>2. store' = store /\ handler' = handler /\ live' = live /\ unpublished' = unpublished
  BY DEF LoadTable
<1>3. RebuildTyped(r) /\ rebuild = [d \in Clients |-> rebuild[d]]
  BY DEF LiveInv, RebuildsInv
<1> PICK r2 : r2 = [loaded   |-> r.loaded \union {t0},
                    snapshot |-> [r.snapshot EXCEPT ![t0] = rows[t0]],
                    outdated |-> r.outdated]
  OBVIOUS
<1>4. /\ rebuild'[c] = r2 /\ rebuild' = [d \in Clients |-> rebuild'[d]]
      /\ \A d \in Clients \ {c} : rebuild'[d] = rebuild[d]
  BY <1>1, <1>3 DEF RebuildTyped
<1>5. /\ r2.loaded = r.loaded \union {t0} /\ r2.outdated = r.outdated
      /\ r2.snapshot = [r.snapshot EXCEPT ![t0] = rows[t0]]
  OBVIOUS
<1>6. /\ r2.snapshot[t0] = store[t0]
      /\ \A t \in LiveTable \ {t0} : r2.snapshot[t] = r.snapshot[t]
  BY <1>3, <1>5 DEF RebuildTyped
<1>7. RebuildTyped(r2) /\ t0 \notin r2.outdated
  BY <1>1, <1>3, <1>5 DEF RebuildTyped
<1>8. RebuildsInv'
  <2>1. \A d \in Clients : At(d, "reload")' <=> At(d, "reload")
    BY <1>2 DEF At
  <2>2. At(c, "reload")
    BY DEF LoadTable
  <2> QED
    BY <1>2, <1>4, <1>7, <2>1, <2>2 DEF LiveInv, RebuildsInv
<1>9. ASSUME NEW t \in LiveTable
      PROVE  Covered(t)' /\ \A d \in Clients : ReadCovered(d, t)'
  <2>1. ASSUME NEW d \in Clients, Fresh(d, t) PROVE Fresh(d, t)'
    <3>1. CASE d = c /\ t = t0
      BY <1>2, <1>4, <1>6, <1>7, <2>1, <3>1 DEF Fresh
    <3>2. CASE d = c /\ t # t0
      BY <1>2, <1>4, <1>5, <1>6, <2>1, <3>2 DEF Fresh
    <3>3. CASE d # c
      BY <1>2, <1>4, <2>1, <3>3 DEF Fresh
    <3> QED
      BY <3>1, <3>2, <3>3
  <2>2. ASSUME NEW d \in Clients PROVE ReadCovered(d, t)'
    <3>1. CASE d = c /\ t = t0
      BY <1>2, <1>4, <1>6, <3>1 DEF ReadCovered
    <3>2. CASE d = c /\ t # t0
      BY <1>2, <1>4, <1>5, <1>6, <2>1, <3>2 DEF LiveInv, ReadCovered
    <3>3. CASE d # c
      BY <1>2, <1>4, <2>1, <3>3 DEF LiveInv, ReadCovered
    <3> QED
      BY <3>1, <3>2, <3>3
  <2>3. Covered(t)'
    BY <1>2, <2>1 DEF LiveInv, Covered
  <2> QED
    BY <2>2, <2>3
<1> QED
  BY <1>8, <1>9 DEF LiveInv

-----------------------------------------------------------------------------
(* The steps of the handlers before their reload.                          *)

(* Before its write a handler owes nothing.                                *)
LEMMA EarlyStep ==
  ASSUME LiveInv, IInv, NEW c \in Clients, NEW s \in ReadSteps \union {"write"}, At(c, s),
         UNCHANGED pipeVars,
         NEW h2, handler' = [handler EXCEPT ![c] = h2],
         \/ h2 = Idle
         \/ /\ Left(h2) \subseteq Left(handler[c])
            /\ h2.req = handler[c].req /\ h2.wrote = handler[c].wrote,
         \A t \in LiveTable : store'[t] = store[t] \/ MayOwe(h2, t)
  PROVE  LiveInv'
<1>1. \A t \in LiveTable : ~MayOwe(handler[c], t)
  BY EarlySteps DEF MayOwe
<1>2. ~At(c, "reload")
  BY DEF At, ReadSteps
<1>3. CascadeWrote(h2)
  <2>1. CascadeWrote(handler[c])
    BY DEF LiveInv, RebuildsInv
  <2> QED
    BY <2>1, IdleOwesNothing DEF CascadeWrote
<1> QED
  BY <1>1, <1>2, <1>3, PlainStep

(* After it, it owes what it did and what it writes.                       *)
LEMMA LateStep ==
  ASSUME LiveInv, IInv, NEW c \in Clients, NEW s \in LateSteps \ {"reload"}, At(c, s),
         UNCHANGED pipeVars,
         NEW h, h = handler[c], NEW h2, handler' = [handler EXCEPT ![c] = h2],
         Late(h2.path), h2.req = h.req, h.wrote => h2.wrote,
         "rule" \in Left(h) => "rule" \in Left(h2) \/ h2.wrote,
         \/ h2.wrote
         \/ Left(h2) \intersect {"cascade", "sweep"} = {}
         \/ Left(h) \intersect {"cascade", "sweep"} # {},
         \A t \in LiveTable : store'[t] = store[t] \/ MayOwe(h2, t)
  PROVE  LiveInv'
<1>1. \A t \in LiveTable : MayOwe(h, t) => MayOwe(h2, t)
  BY DEF MayOwe
<1>2. ~At(c, "reload")
  BY DEF At, LateSteps
<1>3. CascadeWrote(h2)
  <2>1. CascadeWrote(h)
    BY DEF LiveInv, RebuildsInv
  <2> QED
    BY <2>1 DEF CascadeWrote
<1> QED
  BY <1>1, <1>2, <1>3, PlainStep

(* The store, a table of it changed.                                       *)
LEMMA OtherTables ==
  ASSUME DataInv, NEW t, NEW rows, NEW st, st = [store EXCEPT ![t] = rows]
  PROVE  \A u \in LiveTable \ {t} : st[u] = store[u]
<1>1. store = [u \in Table |-> store[u]] /\ LiveTable \subseteq Table
  BY LiveTables DEF DataInv, StoreOK
<1> HIDE DEF Table, LiveTable
<1> QED
  BY <1>1

LEMMA TailLeft ==
  ASSUME DataInv, NEW c \in Clients, NEW s, At(c, s), NEW h, h = handler[c]
  PROVE  ToSet(Tail(h.path)) = Left(h) \ {s} /\ s \in Left(h)
BY RankedTail DEF DataInv, Known, Road, At, Left

(* A request arrives.                                                      *)
LEMMA ArrivalStep ==
  ASSUME LiveInv, IInv, NEW c \in Clients, NEW req, NEW path, Arrive(c, req, path),
         \/ req \in Requests /\ path = Steps(req)
         \/ req \in Imports /\ path = ImportSteps
  PROVE  LiveInv'
<1> PICK h2 : h2 = [Idle EXCEPT !.path = path, !.req = req]
  OBVIOUS
<1>1. /\ handler' = [handler EXCEPT ![c] = h2] /\ UNCHANGED pipeVars /\ store' = store
      /\ handler[c].path = << >>
  BY DEF Arrive, Busy
<1>2. h2.path = path /\ h2.req = req
  BY DEF Idle
<1>3. ~At(c, "reload") /\ \A t : ~MayOwe(handler[c], t)
  BY <1>1 DEF At, MayOwe, Late
<1>4. CascadeWrote(h2)
  <2>1. CASE req \in Requests /\ path = Steps(req)
    BY <1>2, <2>1, StepsTell, AdminAssumption DEF CascadeWrote, Left
  <2>2. CASE req \in Imports /\ path = ImportSteps
    BY <1>2, <2>2, StepSets DEF CascadeWrote, Left
  <2> QED
    BY <2>1, <2>2
<1> QED
  BY <1>1, <1>3, <1>4, PlainStep

(* The reads and checks.                                                   *)
LEMMA ReadingLive ==
  ASSUME LiveInv, IInv, DataInv, NEW c \in Clients,
         \/ CheckRuleRefs(c) \/ CheckProfileRef(c) \/ CheckRefsDone(c) \/ CheckDuplicates(c)
         \/ CheckExists(c) \/ CheckUnused(c) \/ ReadOwned(c) \/ ListRules(c) \/ ReadFails(c)
         \/ ValidateImport(c) \/ ReadStored(c) \/ WriteMissing(c)
  PROVE  LiveInv'
<1> PICK h : h = handler[c]
  OBVIOUS
<1> DEFINE Reads(h2) ==
      \/ h2 = Idle
      \/ Left(h2) \subseteq Left(h) /\ h2.req = h.req /\ h2.wrote = h.wrote
<1>1. PICK s \in ReadSteps \union {"write"} : At(c, s)
  BY DEF CheckRuleRefs, CheckProfileRef, CheckRefsDone, CheckDuplicates, CheckExists, CheckUnused,
         ReadOwned, ListRules, ReadFails, ValidateImport, ReadStored, WriteMissing, ReadSteps
<1>2. UNCHANGED pipeVars /\ store' = store
  BY DEF CheckRuleRefs, CheckProfileRef, CheckRefsDone, CheckDuplicates, CheckExists, CheckUnused,
         ReadOwned, ListRules, ReadFails, ValidateImport, ReadStored, WriteMissing, Quiet
<1>3. h = [f \in HandlerFields |-> h[f]] /\ ToSet(Tail(h.path)) \subseteq Left(h)
  <2>1. h = [f \in HandlerFields |-> h[f]]
    BY <1>1, StepAt
  <2>2. ToSet(Tail(h.path)) = Left(h) \ {s}
    BY <1>1, TailLeft
  <2> QED
    BY <2>1, <2>2
<1>4. ASSUME NEW passes, Check(c, passes)
      PROVE  \E h2 : Reads(h2) /\ handler' = [handler EXCEPT ![c] = h2]
  <2> PICK h2 : h2 = IF passes THEN [h EXCEPT !.path = Tail(h.path)] ELSE Idle
    OBVIOUS
  <2>1. handler' = [handler EXCEPT ![c] = h2]
    BY <1>4 DEF Check
  <2>2. Reads(h2)
    BY <1>3 DEF Left, HandlerFields
  <2> QED
    BY <2>1, <2>2
<1>5. \E h2 : Reads(h2) /\ handler' = [handler EXCEPT ![c] = h2]
  <2>1. CASE \/ CheckRuleRefs(c) \/ CheckRefsDone(c) \/ CheckExists(c) \/ CheckUnused(c)
             \/ ValidateImport(c)
    <3>1. \E passes : Check(c, passes)
      BY <2>1 DEF CheckRuleRefs, CheckRefsDone, CheckExists, CheckUnused, ValidateImport
    <3> QED
      BY <1>4, <3>1
  <2>2. CASE CheckProfileRef(c)
    <3>1. PICK p : handler' = [handler EXCEPT ![c] =
                       IF HasRow(store.profiles, p) THEN [h EXCEPT !.checked = h.checked \union {p}]
                                                    ELSE Idle]
      BY <2>2 DEF CheckProfileRef
    <3> PICK h2 : h2 = IF HasRow(store.profiles, p) THEN [h EXCEPT !.checked = h.checked \union {p}]
                                                    ELSE Idle
      OBVIOUS
    <3>2. Reads(h2)
      BY <1>3 DEF Left, HandlerFields
    <3> QED
      BY <3>1, <3>2
  <2>3. CASE CheckDuplicates(c)
    <3> PICK stored : stored = store.rules
      OBVIOUS
    <3>1. PICK unique : handler' = [handler EXCEPT ![c] =
                 IF unique THEN [h EXCEPT !.path = Tail(h.path), !.stored = stored] ELSE Idle]
      BY <2>3 DEF CheckDuplicates
    <3> PICK h2 : h2 = IF unique THEN [h EXCEPT !.path = Tail(h.path), !.stored = stored] ELSE Idle
      OBVIOUS
    <3>2. Reads(h2)
      BY <1>3 DEF Left, HandlerFields
    <3> QED
      BY <3>1, <3>2
  <2>4. CASE ReadOwned(c)
    <3>1. PICK owned, cascade :
             handler' = [handler EXCEPT ![c].path = Tail(@), ![c].owned = owned, ![c].cascade = cascade]
      BY <2>4 DEF ReadOwned
    <3> PICK h2 : h2 = [h EXCEPT !.path = Tail(@), !.owned = owned, !.cascade = cascade]
      OBVIOUS
    <3>2. Reads(h2) /\ handler' = [handler EXCEPT ![c] = h2]
      BY <1>3, <3>1 DEF Left, HandlerFields
    <3> QED
      BY <3>2
  <2>5. CASE ListRules(c)
    <3>1. PICK owned, todo :
             handler' = [handler EXCEPT ![c].path = Tail(@), ![c].owned = owned, ![c].todo = todo]
      BY <2>5 DEF ListRules
    <3> PICK h2 : h2 = [h EXCEPT !.path = Tail(@), !.owned = owned, !.todo = todo]
      OBVIOUS
    <3>2. Reads(h2) /\ handler' = [handler EXCEPT ![c] = h2]
      BY <1>3, <3>1 DEF Left, HandlerFields
    <3> QED
      BY <3>2
  <2>6. CASE ReadStored(c)
    <3>1. PICK stored, todo :
             handler' = [handler EXCEPT ![c].path = Tail(@), ![c].stored = stored, ![c].todo = todo]
      BY <2>6 DEF ReadStored
    <3> PICK h2 : h2 = [h EXCEPT !.path = Tail(@), !.stored = stored, !.todo = todo]
      OBVIOUS
    <3>2. Reads(h2) /\ handler' = [handler EXCEPT ![c] = h2]
      BY <1>3, <3>1 DEF Left, HandlerFields
    <3> QED
      BY <3>2
  <2>7. CASE ReadFails(c) \/ WriteMissing(c)
    BY <2>7 DEF ReadFails, WriteMissing
  <2> QED
    BY <2>1, <2>2, <2>3, <2>4, <2>5, <2>6, <2>7
<1>6. PICK h2 : Reads(h2) /\ handler' = [handler EXCEPT ![c] = h2]
  BY <1>5
<1> QED
  BY <1>1, <1>2, <1>6, EarlyStep

(* Steps put before those that are left: they are late, too.               *)
LEMMA PrefixLate ==
  ASSUME IInv, IInv', NEW c \in Clients, handler[c].path # << >>,
         NEW q \in Seq(LateSteps), q # << >>,
         NEW h2, handler' = [handler EXCEPT ![c] = h2], h2.path = q \o handler[c].path
  PROVE  Late(h2.path)
<1>1. Orderly(h2.path) /\ handler[c].path \in Seq(Step)
  BY DEF IInv, PathInv, HandlersTyped, Orderly
<1>2. h2.path # << >> /\ Head(h2.path) = Head(q) /\ Head(q) \in LateSteps
  <2> PICK p \in Seq(Step) : p = handler[c].path
    BY <1>1
  <2>1. Len(q) \in Nat \ {0} /\ q \in Seq(Step) /\ Head(q) \in LateSteps
    BY DEF Step
  <2> HIDE DEF LateSteps
  <2> QED
    BY <2>1
<1> QED
  BY <1>1, <1>2, HeadTells

LEMMA PrefixedSet ==
  ASSUME NEW S, NEW p \in Seq(S), NEW s \in S
  PROVE  ToSet(<<s>> \o p) = {s} \union ToSet(p)
<1> PICK n \in Nat : n = Len(p)
  OBVIOUS
<1> PICK r : r = <<s>> \o p
  OBVIOUS
<1>1. /\ DOMAIN r = 1 .. n + 1 /\ DOMAIN p = 1 .. n
      /\ r[1] = s /\ \A i \in 1 .. n : r[i + 1] = p[i]
  OBVIOUS
<1>2. ASSUME NEW x \in ToSet(r) PROVE x \in {s} \union ToSet(p)
  <2>1. PICK i \in 1 .. n + 1 : r[i] = x
    BY <1>1 DEF ToSet
  <2>2. CASE i = 1
    BY <1>1, <2>1, <2>2
  <2>3. CASE i # 1
    <3>1. PICK j \in 1 .. n : i = j + 1
      BY <2>3
    <3> QED
      BY <1>1, <2>1, <3>1 DEF ToSet
  <2> QED
    BY <2>2, <2>3
<1>3. s \in ToSet(r)
  <2>1. 1 \in 1 .. n + 1
    OBVIOUS
  <2> QED
    BY ONLY <1>1, <2>1 DEF ToSet
<1>4. ASSUME NEW x \in ToSet(p) PROVE x \in ToSet(r)
  <2>1. PICK i \in 1 .. n : p[i] = x
    BY <1>1 DEF ToSet
  <2>2. i + 1 \in 1 .. n + 1 /\ r[i + 1] = x
    BY <1>1, <2>1
  <2> QED
    BY ONLY <1>1, <2>2 DEF ToSet
<1> QED
  BY <1>2, <1>3, <1>4

(* A step forward that changes nothing in the store.                       *)
LEMMA TailStep ==
  ASSUME LiveInv, IInv, DataInv, NEW c \in Clients, NEW s \in LateSteps \ {"reload", "rule"}, At(c, s),
         UNCHANGED <<pipeVars, store>>,
         NEW h, h = handler[c], NEW h2, handler' = [handler EXCEPT ![c] = h2],
         h2.path = Tail(h.path), h2.req = h.req, h2.wrote = h.wrote
  PROVE  LiveInv'
<1>1. Late(h2.path)
  BY LaterSteps
<1>2. Left(h2) = Left(h) \ {s}
  BY TailLeft DEF Left
<1> QED
  BY <1>1, <1>2, LateStep

(* A write of a row owes all the tables from then on.                      *)
LEMMA WritingLive ==
  ASSUME LiveInv, IInv, DataInv, NEW c \in Clients, Write(c) \/ WriteFails(c), IInv'
  PROVE  LiveInv'
<1> PICK h : h = handler[c]
  OBVIOUS
<1>1. At(c, "write") /\ h = [f \in HandlerFields |-> h[f]]
  BY StepAt DEF Write, WriteFails
<1>2. h.req \in Requests /\ h.req.op \notin {"import", "deleteAll"}
  <2>1. "write" \in Left(h) /\ Road(h)
    BY <1>1, TailLeft DEF DataInv, Known
  <2>2. h.req \in Requests /\ "write" \in ToSet(Steps(h.req))
    BY <2>1, AdminLeft
  <2> QED
    BY <2>2, StepsTell, AdminAssumption
<1> PICK st : st = Written(store, h.req)
  OBVIOUS
<1>3. \A t \in LiveTable \ {h.req.table} : st[t] = store[t]
  BY OtherTables DEF Written
<1>4. CASE Write(c)
  <2> PICK h2 : h2 = [h EXCEPT !.path = Tail(@)]
    OBVIOUS
  <2>1. /\ handler' = [handler EXCEPT ![c] = h2] /\ UNCHANGED pipeVars /\ store' = st
    BY <1>4 DEF Write
  <2>2. h2.path = Tail(h.path) /\ h2.req = h.req /\ h2.wrote = h.wrote
    BY <1>1 DEF HandlerFields
  <2>3. Left(h2) \subseteq Left(h)
    <3>1. ToSet(Tail(h.path)) = Left(h) \ {"write"}
      BY <1>1, TailLeft
    <3> QED
      BY <2>2, <3>1 DEF Left
  <2>4. Late(h2.path)
    <3>1. handler[c].path # << >> /\ Orderly(handler[c].path)
          /\ Head(handler[c].path) = "write"
      BY <1>1 DEF At, IInv, PathInv
    <3> QED
      BY <2>2, <3>1, TailOrderly DEF ReadSteps
  <2>5. \A t \in LiveTable : MayOwe(h2, t)
    BY <1>2, <2>2, <2>4 DEF MayOwe
  <2> QED
    BY <1>1, <2>1, <2>2, <2>3, <2>5, EarlyStep
<1>5. CASE WriteFails(c)
  <2>1. \A t : ~MayOwe(h, t)
    BY <1>1, EarlySteps DEF MayOwe
  <2>2. Abandon(c, store, {}) \/ Abandon(c, st, {h.req.table})
    BY <1>5 DEF WriteFails
  <2> QED
    BY <1>3, <2>1, <2>2, AbandonStep
<1> QED
  BY <1>4, <1>5

(* The deletion of all rules owes the rules and the simulations once it    *)
(* has deleted one.                                                        *)
LEMMA BulkLive ==
  ASSUME LiveInv, IInv, DataInv, NEW c \in Clients, IInv',
         BulkDelete(c) \/ BulkDone(c) \/ BulkFails(c) \/ BulkMissing(c)
  PROVE  LiveInv'
<1> PICK h : h = handler[c]
  OBVIOUS
<1>1. At(c, "bulk") /\ h = [f \in HandlerFields |-> h[f]] /\ "bulk" \in LateSteps \ {"reload"}
  BY StepAt DEF BulkDelete, BulkDone, BulkFails, BulkMissing, LateSteps
<1>2. h.req.op = "deleteAll"
  <2>1. "bulk" \in Left(h) /\ Road(h)
    BY <1>1, TailLeft DEF DataInv, Known
  <2>2. h.req \in Requests /\ "bulk" \in ToSet(Steps(h.req))
    BY <2>1, AdminLeft
  <2> QED
    BY <2>2, StepsTell
<1> PICK st : st = [store EXCEPT !.rules = DropRow(@, Head(h.todo).id)]
  OBVIOUS
<1>3. \A t \in LiveTable \ {"rules"} : st[t] = store[t]
  BY OtherTables
<1>4. CASE BulkDelete(c)
  <2> PICK h2 : h2 = [h EXCEPT !.path = <<"cascade">> \o @, !.cascade = Head(h.todo).sims,
                               !.todo = Tail(h.todo), !.wrote = TRUE]
    OBVIOUS
  <2>1. /\ handler' = [handler EXCEPT ![c] = h2] /\ UNCHANGED pipeVars /\ store' = st
    BY <1>4 DEF BulkDelete
  <2>2. h2.path = <<"cascade">> \o h.path /\ h2.req = h.req /\ h2.wrote = TRUE
    BY <1>1 DEF HandlerFields
  <2>3. Late(h2.path)
    <3>1. <<"cascade">> \in Seq(LateSteps) /\ <<"cascade">> # << >> /\ handler[c].path # << >>
      BY <1>1 DEF LateSteps, At
    <3> QED
      BY <2>1, <2>2, <3>1, PrefixLate
  <2>4. MayOwe(h2, "rules")
    BY <1>2, <2>2, <2>3 DEF MayOwe
  <2>5. \A t \in LiveTable : store'[t] = store[t] \/ MayOwe(h2, t)
    BY <1>3, <2>1, <2>4
  <2> QED
    BY ONLY LiveInv, IInv, c \in Clients, h = handler[c], <1>1, <2>1, <2>2, <2>3, <2>5, LateStep
<1>5. CASE BulkDone(c)
  <2> PICK h2 : h2 = [h EXCEPT !.path = Tail(@)]
    OBVIOUS
  <2>1. /\ handler' = [handler EXCEPT ![c] = h2] /\ UNCHANGED pipeVars /\ store' = store
    BY <1>5 DEF BulkDone, Quiet
  <2>2. h2.path = Tail(h.path) /\ h2.req = h.req /\ h2.wrote = h.wrote
    BY <1>1 DEF HandlerFields
  <2> QED
    BY <1>1, <2>1, <2>2, TailStep
<1>6. CASE BulkFails(c) \/ BulkMissing(c)
  <2>1. \A t \in LiveTable : t \in Deleted(c) \/ ~MayOwe(h, t)
    BY <1>2 DEF MayOwe, Deleted
  <2>2. Abandon(c, store, Deleted(c)) \/ Abandon(c, st, Deleted(c) \union {"rules"})
    BY <1>6 DEF BulkFails, BulkMissing
  <2> QED
    BY <1>3, <2>1, <2>2, AbandonStep
<1> QED
  BY <1>4, <1>5, <1>6

LEMMA CascadeLive ==
  ASSUME LiveInv, IInv, DataInv, NEW c \in Clients, IInv',
         \/ CascadeRead(c) \/ CascadeReadFails(c)
         \/ CascadeDelete(c) \/ CascadeDeleteFails(c) \/ CascadeDone(c)
  PROVE  LiveInv'
<1> PICK h : h = handler[c]
  OBVIOUS
<1>1. PICK s \in {"cascade", "sweep"} : At(c, s)
  BY DEF CascadeRead, CascadeReadFails, CascadeDelete, CascadeDeleteFails, CascadeDone
<1>2. h = [f \in HandlerFields |-> h[f]] /\ s \in LateSteps \ {"reload"}
  BY <1>1, StepAt DEF LateSteps
<1>3. ToSet(Tail(h.path)) = Left(h) \ {s} /\ s \in Left(h)
  BY <1>1, TailLeft
<1>4. Late(h.path) /\ Late(Tail(h.path))
  BY <1>1, <1>2, LaterSteps
<1>5. UNCHANGED pipeVars
  BY DEF CascadeRead, CascadeReadFails, CascadeDelete, CascadeDeleteFails, CascadeDone, Quiet
<1>6. CASE CascadeRead(c)
  <2> PICK h2 : h2 = [h EXCEPT !.path = <<"sweep">> \o Tail(@), !.seen = store.rules,
                               !.cascade = @ \ ReferencedSims(store.rules)]
    OBVIOUS
  <2>1. handler' = [handler EXCEPT ![c] = h2] /\ store' = store /\ At(c, "cascade")
    BY <1>6 DEF CascadeRead, Quiet
  <2>2. h2.path = <<"sweep">> \o Tail(h.path) /\ h2.req = h.req /\ h2.wrote = h.wrote
    BY <1>2 DEF HandlerFields
  <2>3. Late(h2.path)
    <3>1. Orderly(h.path) /\ Tail(h.path) \in Seq(Step)
      BY <1>1, <1>2, LaterSteps DEF Orderly
    <3>2. h2.path # << >> /\ Head(h2.path) = "sweep"
      BY ONLY <2>2, <3>1
    <3>3. Orderly(h2.path)
      BY <2>1 DEF IInv, PathInv, HandlersTyped
    <3> QED
      BY <3>2, <3>3, HeadTells DEF LateSteps
  <2>4. "rule" \in Left(h) => "rule" \in Left(h2)
    <3>1. Tail(h.path) \in Seq(Step)
      BY <1>1, <1>2, LaterSteps DEF Orderly
    <3>2. "sweep" \in Step
      BY DEF Step, LateSteps
    <3>3. ToSet(h2.path) = {"sweep"} \union ToSet(Tail(h.path))
      BY <2>2, <3>1, <3>2, PrefixedSet
    <3> QED
      BY <1>1, <1>3, <2>1, <3>3 DEF Left, At
  <2> QED
    BY <1>1, <1>2, <1>3, <1>5, <2>1, <2>2, <2>3, <2>4, LateStep
<1>7. CASE CascadeReadFails(c) \/ CascadeDone(c)
  <2>1. PICK cascade : handler' = [handler EXCEPT ![c] = [h EXCEPT !.path = Tail(@), !.cascade = cascade]]
    <3>1. CASE CascadeReadFails(c)
      BY <3>1 DEF CascadeReadFails
    <3>2. CASE CascadeDone(c)
      <4>1. handler' = [handler EXCEPT ![c] = [h EXCEPT !.path = Tail(@)]]
        BY <3>2 DEF CascadeDone
      <4>2. [h EXCEPT !.path = Tail(@)] = [h EXCEPT !.path = Tail(@), !.cascade = h.cascade]
        BY <1>2 DEF HandlerFields
      <4> QED
        BY <4>1, <4>2
    <3> QED
      BY <1>7, <3>1, <3>2
  <2> PICK h2 : h2 = [h EXCEPT !.path = Tail(@), !.cascade = cascade]
    OBVIOUS
  <2>2. store' = store /\ handler' = [handler EXCEPT ![c] = h2]
    BY <1>7, <2>1 DEF CascadeReadFails, CascadeDone, Quiet
  <2>3. h2.path = Tail(h.path) /\ h2.req = h.req /\ h2.wrote = h.wrote
    BY <1>2 DEF HandlerFields
  <2> QED
    BY <1>1, <1>2, <1>5, <2>2, <2>3, TailStep
<1>8. CASE CascadeDelete(c) \/ CascadeDeleteFails(c)
  <2>1. PICK sim \in h.cascade :
            /\ handler' = [handler EXCEPT ![c].cascade = @ \ {sim}]
            /\ \/ store' = store
               \/ store' = [store EXCEPT !.sims = DropRow(@, sim)]
    BY <1>8 DEF CascadeDelete, CascadeDeleteFails
  <2> PICK h2 : h2 = [h EXCEPT !.cascade = @ \ {sim}]
    OBVIOUS
  <2>2. handler' = [handler EXCEPT ![c] = h2]
    BY <2>1
  <2>3. h2.path = h.path /\ h2.req = h.req /\ h2.wrote = h.wrote /\ Left(h2) = Left(h)
    BY <1>2 DEF HandlerFields, Left
  <2>4. \A t \in LiveTable \ {"sims"} : store'[t] = store[t]
    <3> PICK st : st = [store EXCEPT !.sims = DropRow(@, sim)]
      OBVIOUS
    <3> PICK rows : rows = DropRow(store.sims, sim)
      OBVIOUS
    <3>1. st = [store EXCEPT !["sims"] = rows]
      OBVIOUS
    <3>2. \A t \in LiveTable \ {"sims"} : st[t] = store[t]
      BY ONLY DataInv, <3>1, OtherTables
    <3> QED
      BY <2>1, <3>2
  <2>5. MayOwe(h2, "sims")
    <3>1. CascadeWrote(h)
      BY DEF LiveInv, RebuildsInv
    <3>2. h.req.op \in {"deleteAll", "import"} => h.wrote
      BY <1>3, <3>1 DEF CascadeWrote
    <3> QED
      BY <1>4, <2>3, <3>2 DEF MayOwe
  <2>6. \A t \in LiveTable : store'[t] = store[t] \/ MayOwe(h2, t)
    BY <2>4, <2>5
  <2>7. Left(h) \intersect {"cascade", "sweep"} # {} /\ Late(h2.path)
    BY <1>3, <1>4, <2>3
  <2> QED
    BY ONLY LiveInv, IInv, c \in Clients, h = handler[c], <1>1, <1>2, <1>5, <2>2, <2>3, <2>6,
            <2>7, LateStep
<1> QED
  BY <1>6, <1>7, <1>8

(* A step of the import: what it owes of the tables it has changed.        *)
LEMMA ImportOwes ==
  ASSUME DataInv, NEW c \in Clients, NEW s, At(c, s), NEW h, h = handler[c],
         s \in {"import", "scenarios", "eventRules", "respond", "sims", "profiles", "rule"}
  PROVE  /\ h.req.op = "import" /\ s \in Left(h)
         /\ s \in {"import", "scenarios", "eventRules", "respond"} => "rule" \notin Left(h)
         /\ s = "sims" => "rule" \in Left(h) \ {s}
<1>1. Road(h) /\ s \in Left(h) /\ h.path # << >> /\ s = Head(h.path)
  <2>1. s \in Left(h)
    BY TailLeft
  <2> QED
    BY <2>1 DEF DataInv, Known, At
<1>2. h.req \in Imports
  BY <1>1, ImportLeft
<1>3. \A t \in Left(h) : t = s \/ Rank[s] < Rank[t]
  BY <1>1, HeadKnown
<1>4. s \in {"import", "scenarios", "eventRules", "respond"} => "rule" \notin Left(h)
  BY <1>3, RankIs
<1>5. s = "sims" => "rule" \in Left(h) \ {s}
  BY <1>1 DEF Road
<1> QED
  BY <1>1, <1>2, <1>4, <1>5, ImportAssumption

(* An import that fails reloads, or has nothing to tell but what it names. *)
LEMMA EndLive ==
  ASSUME LiveInv, IInv, DataInv, NEW c \in Clients, NEW s, At(c, s), s # "reload",
         NEW st, NEW wrote, NEW tables, ImportEnds(c, st, wrote, tables),
         wrote \/ \A t \in LiveTable :
                      t \in tables \/ (st[t] = store[t] /\ ~MayOwe(handler[c], t))
  PROVE  LiveInv'
<1>1. CASE wrote
  <2> PICK h2 : h2 = [Idle EXCEPT !.path = <<"reload">>]
    OBVIOUS
  <2>1. handler' = [handler EXCEPT ![c] = h2] /\ UNCHANGED pipeVars
    BY <1>1 DEF ImportEnds
  <2>2. h2.path = <<"reload">> /\ h2.req.op = "none"
    BY DEF Idle
  <2>3. \A t : MayOwe(h2, t)
    BY <2>2, EndsOrderly DEF MayOwe
  <2>4. CascadeWrote(h2)
    BY <2>2 DEF CascadeWrote
  <2>5. ~At(c, "reload")
    BY DEF At
  <2> QED
    BY <2>1, <2>3, <2>4, <2>5, PlainStep
<1>2. CASE ~wrote
  <2>1. Abandon(c, st, tables)
    BY <1>2 DEF ImportEnds
  <2> QED
    BY <1>2, <2>1, AbandonStep
<1> QED
  BY <1>1, <1>2

(* The loop over the rules of the file.                                    *)
LEMMA ImportLoopLive ==
  ASSUME LiveInv, IInv, DataInv, NEW c \in Clients, IInv',
         \/ ImportSkips(c) \/ ImportSaves(c) \/ ImportOverrides(c) \/ ImportRulesDone(c)
         \/ ImportOverrideFails(c)
  PROVE  LiveInv'
<1> PICK h : h = handler[c]
  OBVIOUS
<1>1. /\ At(c, "import") /\ h = [f \in HandlerFields |-> h[f]]
      /\ "import" \in LateSteps \ {"reload"} /\ handler[c].path # << >>
  BY StepAt DEF ImportSkips, ImportSaves, ImportOverrides, ImportRulesDone, ImportOverrideFails,
                Importing, LateSteps, At
<1>2. h.req.op = "import" /\ "rule" \notin Left(h)
  BY <1>1, ImportOwes
<1>3. Late(h.path)
  BY <1>1, LaterSteps
<1>4. CASE ImportSkips(c)
  <2> PICK h2 : h2 = [h EXCEPT !.todo = Tail(@)]
    OBVIOUS
  <2>1. handler' = [handler EXCEPT ![c] = h2] /\ UNCHANGED pipeVars /\ store' = store
    BY <1>4 DEF ImportSkips, Quiet
  <2>2. h2.path = h.path /\ h2.req = h.req /\ h2.wrote = h.wrote /\ Left(h2) = Left(h)
    BY <1>1 DEF HandlerFields, Left
  <2> QED
    BY <1>1, <1>3, <2>1, <2>2, LateStep
<1>5. CASE ImportSaves(c)
  <2> PICK h2 : h2 = [h EXCEPT !.path = SaveSteps \o @]
    OBVIOUS
  <2>1. handler' = [handler EXCEPT ![c] = h2] /\ UNCHANGED pipeVars /\ store' = store
    BY <1>5 DEF ImportSaves, Quiet
  <2>2. h2.path = SaveSteps \o h.path /\ h2.req = h.req /\ h2.wrote = h.wrote
    BY <1>1 DEF HandlerFields
  <2>3. Late(h2.path)
    <3>1. SaveSteps \in Seq(LateSteps) /\ SaveSteps # << >>
      BY DEF SaveSteps, LateSteps
    <3> QED
      BY <1>1, <2>1, <2>2, <3>1, PrefixLate
  <2>4. Left(h2) = Left(h) \union {"sims", "profiles", "rule"}
    <3> PICK q : q = SaveSteps
      OBVIOUS
    <3>1. Ranked(q) /\ ToSet(q) = {"sims", "profiles", "rule"} /\ h2.path = q \o h.path
      BY <2>2, StepsRanked, StepSets
    <3>2. Stepping(h, "import")
      BY <1>1, StepAt
    <3>3. ToSet(q \o h.path) = ToSet(q) \union Left(h)
      BY ONLY <3>1, <3>2, PutBefore
    <3> QED
      BY ONLY <3>1, <3>3 DEF Left
  <2>5. \/ Left(h2) \intersect {"cascade", "sweep"} = {}
        \/ Left(h) \intersect {"cascade", "sweep"} # {}
    BY <2>4
  <2> QED
    BY ONLY LiveInv, IInv, c \in Clients, h = handler[c], <1>1, <1>2, <2>1, <2>2, <2>3, <2>5, LateStep
<1>6. CASE ImportOverrides(c)
  <2>1. PICK ex \in Conflicting(h.stored, Head(h.todo)) :
           handler' = [handler EXCEPT ![c].path    = <<"cascade">> \o SaveSteps \o @,
                                      ![c].owned   = ex.sims,
                                      ![c].cascade = ex.sims \ Head(h.todo).sims,
                                      ![c].wrote   = TRUE]
    BY <1>6 DEF ImportOverrides, Conflicts, Current
  <2> PICK h2 : h2 = [h EXCEPT !.path = <<"cascade">> \o SaveSteps \o @, !.owned = ex.sims,
                               !.cascade = ex.sims \ Head(h.todo).sims, !.wrote = TRUE]
    OBVIOUS
  <2>2. handler' = [handler EXCEPT ![c] = h2] /\ UNCHANGED pipeVars
    <3>1. UNCHANGED pipeVars
      BY <1>6 DEF ImportOverrides
    <3>2. handler' = [handler EXCEPT ![c] = h2]
      BY <2>1
    <3> QED
      BY <3>1, <3>2
  <2>3. /\ h2.path = (<<"cascade">> \o SaveSteps) \o h.path /\ h2.req = h.req /\ h2.wrote = TRUE
    BY <1>1 DEF HandlerFields
  <2>4. Late(h2.path)
    <3>1. <<"cascade">> \in Seq(LateSteps) /\ SaveSteps \in Seq(LateSteps)
      BY DEF SaveSteps, LateSteps
    <3>2. <<"cascade">> \o SaveSteps \in Seq(LateSteps) /\ <<"cascade">> \o SaveSteps # << >>
      BY ONLY <3>1
    <3> QED
      BY <1>1, <2>2, <2>3, <3>2, PrefixLate
  <2>5. \A t \in LiveTable : store'[t] = store[t] \/ MayOwe(h2, t)
    BY <1>2, <2>3, <2>4 DEF MayOwe
  <2> QED
    BY ONLY LiveInv, IInv, c \in Clients, h = handler[c], <1>1, <2>2, <2>3, <2>4, <2>5, LateStep
<1>7. CASE ImportRulesDone(c)
  <2> PICK h2 : h2 = [h EXCEPT !.path = Tail(@)]
    OBVIOUS
  <2>1. handler' = [handler EXCEPT ![c] = h2] /\ UNCHANGED <<pipeVars, store>>
    BY <1>7 DEF ImportRulesDone, Quiet
  <2>2. h2.path = Tail(h.path) /\ h2.req = h.req /\ h2.wrote = h.wrote
    BY <1>1 DEF HandlerFields
  <2> QED
    BY <1>1, <2>1, <2>2, TailStep
<1>8. CASE ImportOverrideFails(c)
  <2>1. PICK id : \/ ImportEnds(c, store, h.wrote, {})
                  \/ ImportEnds(c, [store EXCEPT !.rules = DropRow(@, id)], h.wrote, {"rules"})
    BY <1>8 DEF ImportOverrideFails
  <2> PICK st : st = [store EXCEPT !.rules = DropRow(@, id)]
    OBVIOUS
  <2>2. \A t \in LiveTable \ {"rules"} : st[t] = store[t]
    BY OtherTables
  <2>3. h.wrote \/ \A t : ~MayOwe(h, t)
    BY <1>2 DEF MayOwe
  <2>4. CASE ImportEnds(c, store, h.wrote, {})
    BY ONLY LiveInv, IInv, DataInv, c \in Clients, h = handler[c], <1>1, <2>3, <2>4, EndLive
  <2>5. CASE ImportEnds(c, st, h.wrote, {"rules"})
    <3>1. h.wrote \/ \A t \in LiveTable :
                        t \in {"rules"} \/ (st[t] = store[t] /\ ~MayOwe(handler[c], t))
      BY <2>2, <2>3
    <3>2. "import" # "reload"
      OBVIOUS
    <3> QED
      BY ONLY LiveInv, IInv, DataInv, c \in Clients, <1>1, <2>5, <3>1, <3>2, EndLive
  <2> QED
    BY <2>1, <2>4, <2>5
<1> QED
  BY <1>4, <1>5, <1>6, <1>7, <1>8

(* What the import writes, and its answer.                                 *)
LEMMA ImportWriteLive ==
  ASSUME LiveInv, IInv, DataInv, NEW c \in Clients, IInv',
         ImportWrite(c) \/ ImportWriteFails(c) \/ ImportResponds(c)
  PROVE  LiveInv'
<1> PICK h : h = handler[c]
  OBVIOUS
<1>1. CASE ImportWrite(c) \/ ImportWriteFails(c)
  <2>1. PICK s \in ImportWrites : At(c, s)
    BY <1>1 DEF ImportWrite, ImportWriteFails
  <2>2. /\ h = [f \in HandlerFields |-> h[f]] /\ s \in LateSteps \ {"reload"}
        /\ s \in {"scenarios", "eventRules", "sims", "profiles", "rule"}
    BY <2>1, StepAt DEF ImportWrites, RuleSave, LateSteps
  <2>3. /\ h.req.op = "import"
        /\ s \in {"scenarios", "eventRules"} => "rule" \notin Left(h)
        /\ s = "sims" => "rule" \in Left(h) \ {s}
    BY <2>1, <2>2, ImportOwes, ZenonT(40)
  <2> PICK t : t = IF s = "rule" THEN "rules" ELSE s
    OBVIOUS
  <2> PICK rows : rows = PayloadRows(h, s)
    OBVIOUS
  <2>4. Payload(c).rows = rows /\ Payload(c).table = t
    BY <2>1, PayloadIs
  <2>5. CASE ImportWrite(c)
    <3> PICK st : st = [store EXCEPT ![t] = SaveRows(@, rows)]
      OBVIOUS
    <3> PICK h2 : h2 = [h EXCEPT !.path = Tail(@),
                                 !.wrote = @ \/ (t # "sims" /\ rows # {}),
                                 !.todo = IF t = "rules" THEN Tail(@) ELSE @]
      OBVIOUS
    <3>1. store' = st /\ handler' = [handler EXCEPT ![c] = h2] /\ UNCHANGED pipeVars
      BY <2>4, <2>5 DEF ImportWrite
    <3>2. /\ h2.path = Tail(h.path) /\ h2.req = h.req
          /\ h2.wrote = (h.wrote \/ (t # "sims" /\ rows # {}))
      BY <2>2 DEF HandlerFields
    <3>3. Late(h2.path)
      BY <2>1, <2>2, <3>2, LaterSteps
    <3>4. Left(h2) = Left(h) \ {s}
      <4>1. ToSet(Tail(h.path)) = Left(h) \ {s}
        BY <2>1, TailLeft
      <4> QED
        BY <3>2, <4>1 DEF Left
    <3>5. "rule" \in Left(h) => "rule" \in Left(h2) \/ h2.wrote
      <4>1. s = "rule" => t = "rules" /\ rows # {}
        BY DEF PayloadRows
      <4> QED
        BY <3>2, <3>4, <4>1
    <3>6. \A u \in LiveTable : store'[u] = store[u] \/ MayOwe(h2, u)
      <4>1. \A u \in LiveTable \ {t} : st[u] = store[u]
        BY OtherTables
      <4>2. CASE t = "sims"
        <5>1. MayOwe(h2, "sims")
          BY <2>2, <2>3, <3>2, <3>3, <3>4, <4>2 DEF MayOwe
        <5> QED
          BY <3>1, <4>1, <4>2, <5>1
      <4>3. CASE t # "sims" /\ rows # {}
        BY <2>3, <3>2, <3>3, <4>3 DEF MayOwe
      <4>4. CASE rows = {}
        <5>1. SaveRows(store[t], rows) = store[t]
          BY <4>4 DEF SaveRows, IdsOf
        <5>2. \A u \in LiveTable : st[u] = store[u]
          <6>1. store = [u \in Table |-> store[u]] /\ LiveTable \subseteq Table
            BY LiveTables DEF DataInv, StoreOK
          <6> QED
            BY <4>1, <5>1, <6>1
        <5> QED
          BY <3>1, <5>2
      <4> QED
        BY <4>2, <4>3, <4>4
    <3> QED
      BY ONLY LiveInv, IInv, c \in Clients, h = handler[c], <2>1, <2>2, <3>1, <3>2, <3>3, <3>4,
              <3>5, <3>6, LateStep
  <2>6. CASE ImportWriteFails(c)
    <3>1. PICK some \in SUBSET rows : \E wrote, tables :
             /\ ImportEnds(c, [store EXCEPT ![t] = SaveRows(@, some)], wrote, tables)
             /\ wrote \/ (~handler[c].wrote /\ tables = Touched(t))
      BY <2>4, <2>6, SomeRowsFail, SMTT(20)
    <3> PICK st : st = [store EXCEPT ![t] = SaveRows(@, some)]
      OBVIOUS
    <3>2. PICK wrote, tables :
             /\ ImportEnds(c, st, wrote, tables)
             /\ wrote \/ (~handler[c].wrote /\ tables = Touched(t))
      BY <3>1
    <3>3. \A u \in LiveTable \ {t} : st[u] = store[u]
      BY OtherTables
    <3>4. ASSUME ~wrote, NEW u \in LiveTable, u \notin tables
          PROVE  st[u] = store[u] /\ ~MayOwe(h, u)
      <4>1. st[u] = store[u] /\ ~h.wrote
        BY <3>2, <3>3, <3>4 DEF Touched
      <4>2. u = "sims" => s \in {"scenarios", "eventRules"}
        BY <2>2, <3>2, <3>4 DEF Touched
      <4> QED
        BY <2>3, <4>1, <4>2 DEF MayOwe
    <3>5. s # "reload"
      BY <2>2
    <3> QED
      BY ONLY LiveInv, IInv, DataInv, c \in Clients, h = handler[c], <2>1, <3>2, <3>4, <3>5, EndLive
  <2> QED
    BY <1>1, <2>5, <2>6
<1>2. CASE ImportResponds(c)
  <2>1. /\ At(c, "respond") /\ UNCHANGED <<pipeVars, store>>
        /\ handler' = [handler EXCEPT ![c] =
               IF h.wrote THEN [h EXCEPT !.path = Tail(h.path)] ELSE Idle]
    BY <1>2 DEF ImportResponds, Quiet
  <2>2. h = [f \in HandlerFields |-> h[f]] /\ "respond" \in LateSteps \ {"reload", "rule"}
    BY <2>1, StepAt DEF LateSteps
  <2>3. CASE h.wrote
    <3> PICK h2 : h2 = [h EXCEPT !.path = Tail(h.path)]
      OBVIOUS
    <3>1. handler' = [handler EXCEPT ![c] = h2]
      BY <2>1, <2>3
    <3>2. h2.path = Tail(h.path) /\ h2.req = h.req /\ h2.wrote = h.wrote
      BY <2>2 DEF HandlerFields
    <3> QED
      BY ONLY LiveInv, IInv, DataInv, c \in Clients, h = handler[c], <2>1, <2>2, <3>1, <3>2,
              TailStep
  <2>4. CASE ~h.wrote
    <3>1. handler' = [handler EXCEPT ![c] = Idle]
      BY <2>1, <2>4
    <3>2. \A t : ~MayOwe(h, t)
      BY <2>1, <2>4, ImportOwes DEF MayOwe
    <3>3. ~At(c, "reload")
      BY <2>1 DEF At
    <3> QED
      BY <2>1, <3>1, <3>2, <3>3, IdleOwesNothing, PlainStep
  <2> QED
    BY <2>3, <2>4
<1> QED
  BY <1>1, <1>2

-----------------------------------------------------------------------------
LEMMA LiveInit == Init => LiveInv
<1> SUFFICES ASSUME Init PROVE LiveInv
  OBVIOUS
<1>1. /\ handler = [c \in Clients |-> Idle] /\ rebuild = [c \in Clients |-> NoRebuild]
      /\ \A t \in LiveTable : live[t] = store[t]
  BY DEF Init, AdminInit, Live
<1>2. \A c \in Clients : handler[c] = Idle /\ rebuild[c] = NoRebuild
  BY <1>1
<1>3. RebuildsInv
  BY <1>1, <1>2, NoRebuildTyped, IdleOwesNothing DEF RebuildsInv
<1>4. \A t \in LiveTable : Covered(t) /\ \A c \in Clients : ReadCovered(c, t)
  BY <1>1, <1>2, NoRebuildTyped DEF Covered, ReadCovered
<1> QED
  BY <1>3, <1>4 DEF LiveInv

LEMMA AdminLive ==
  ASSUME LiveInv, IInv, DataInv, IInv', NEW c \in Clients, AdminStep(c)
  PROVE  LiveInv'
<1>1. CASE Receive(c)
  BY <1>1, ArrivalStep DEF Receive
<1>2. CASE RebuildFails(c)
  BY <1>2, AbandonStep DEF RebuildFails
<1> QED
  BY <1>1, <1>2, ReadingLive, WritingLive, BulkLive, CascadeLive, LoadStep, SwapStep DEF AdminStep

LEMMA LiveStep == LiveInv /\ IInv /\ DataInv /\ IInv' /\ [Next]_vars => LiveInv'
<1> SUFFICES ASSUME LiveInv, IInv, DataInv, IInv', [Next]_vars PROVE LiveInv'
  OBVIOUS
<1>1. ASSUME NEW c \in Clients, ImportStep(c) PROVE LiveInv'
  <2>1. CASE ReceiveImport(c)
    BY <2>1, ArrivalStep DEF ReceiveImport
  <2> QED
    BY <1>1, <2>1, ReadingLive, ImportLoopLive, ImportWriteLive DEF ImportStep
<1>2. ASSUME UNCHANGED <<pipeVars, store, handler>> PROVE LiveInv'
  BY <1>2 DEF pipeVars, LiveInv, RebuildsInv, Covered, ReadCovered, Fresh, At
<1>3. ASSUME NEW a \in Apps, AppStep(a) PROVE UNCHANGED <<pipeVars, store, handler>>
  <2>1. UNCHANGED pipeVars
    BY <1>3 DEF AppStep, Publish, Unmatched, Synthesize, Forward, ForwardFails, ForwardDone,
                ForwardFailed, Respond, adminVars
  <2> QED
    BY <1>3, <2>1, AppsLeave
<1>4. UNCHANGED vars => UNCHANGED <<pipeVars, store, handler>>
  BY DEF vars, adminVars
<1> QED
  BY <1>1, <1>2, <1>3, <1>4, AdminLive DEF Next

(* What requests wrote is live once none is in progress, but for the       *)
(* tables recorded as unpublished: a write that failed after it had its    *)
(* effect, a bulk delete or an import that gave up and did not reload, a   *)
(* rebuild that failed, whose error restapi drops (server.go:205-209), and *)
(* a rebuild that was swapped in (server/server.go:530-533) after a newer  *)
(* one.  So each handler that changed a table and answered a success has   *)
(* read that table again after its change, whatever it overlapped with.    *)
THEOREM PublishedCorrect == Spec => []WritesGoLive
<1>1. ASSUME LiveInv, AllIdle, NEW t \in LiveTable \ unpublished PROVE live[t] = store[t]
  <2>1. \A c \in Clients : ~Fresh(c, t)
    BY <1>1 DEF AllIdle, Busy, Fresh, MayOwe, Late
  <2> QED
    BY <1>1, <2>1 DEF LiveInv, Covered
<1>2. LiveInv => WritesGoLive
  BY <1>1 DEF WritesGoLive
<1> QED
  BY <1>2, InvInit, InvStep, DataInit, DataStep, LiveInit, LiveStep, PTL DEF Spec
=============================================================================
