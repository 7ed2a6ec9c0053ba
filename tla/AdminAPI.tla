------------------------------ MODULE AdminAPI ------------------------------
(***************************************************************************)
(* The handlers of the admin API that change the configuration (package    *)
(* restapi): rules, simulations, fault profiles, scenarios and event       *)
(* rules.  A handler is a path of steps, each at most one call of the      *)
(* store; the handlers of concurrent requests interleave between them.     *)
(* The requests are those that pass decoding and Validate; the others are  *)
(* answered without touching anything.                                     *)
(*                                                                         *)
(* A call of the store may fail: a read without effect, a write without or *)
(* with its effect, since the version is bumped after the data was         *)
(* written.  A call that reads sees what was written last.                 *)
(*                                                                         *)
(* A reload reads the live tables one after the other, without a lock, and *)
(* swaps the pipeline at the end.  Its error is dropped: the request is    *)
(* answered as a success.  Other processes, and the reloader that polls    *)
(* the version, are in ConfigReload.                                       *)
(***************************************************************************)
EXTENDS ConfigData

CONSTANTS
    Clients,       \* clients of the admin API, one request at a time each
    Requests,      \* requests they may send
    InitialStores, \* configurations to start from
    Budget         \* bound on requests and failed calls, together

(* A store starts as one can be: finitely many rules, told apart by their  *)
(* ids, of fault profiles that exist.                                      *)
ASSUME AdminAssumption ==
    /\ Budget \in Nat
    /\ \A st \in InitialStores :
          /\ st = [t \in Table |-> st[t]]
          /\ IsFiniteSet(st.rules)
          /\ \A x, y \in st.rules : x.id = y.id => x = y
          /\ \A r \in st.rules : FaultRefsResolve(r, st)
    /\ \A req \in Requests :
          /\ req.table \in Table
          /\ req.op \in {"post", "put", "delete", "deleteAll"}
          /\ req.op = "deleteAll" => req.table = "rules"

VARIABLES
    store,       \* the tables of the store
    live,        \* what the running pipeline was built from
    handler,     \* handler[c]: where the request of client c stands
    rebuild,     \* rebuild[c]: what its reload has read so far
    strict,      \* configuration: deleting what is not there is an error
    requests,    \* requests so far
    failures,    \* failed calls so far
    overlapped,  \* history: two requests have been in progress together
    unpublished  \* history: tables a request changed and did not publish

boundVars == <<requests, failures>>
pipeVars == <<live, rebuild, unpublished>>
adminVars == <<store, handler, pipeVars, strict, boundVars, overlapped>>

(* The tables rebuild reads, and those it has read before each.            *)
ReadBefore ==
    [rules      |-> {},
     sims       |-> {"rules"},
     profiles   |-> {"rules", "sims"},
     eventRules |-> {"rules", "sims", "profiles"}]

LiveTable == DOMAIN ReadBefore

NoRebuild ==
    [loaded   |-> {},                          \* tables read so far
     snapshot |-> [t \in LiveTable |-> {}],    \* what was read
     outdated |-> {}]                          \* history, see Ends

Idle ==
    [path    |-> << >>,            \* steps still to be taken
     req     |-> [op |-> "none"],
     checked |-> {},               \* fault profiles that have been found
     stored  |-> {},               \* rules read for the checks
     seen    |-> {},               \* rules read for the latest cascade
     owned   |-> {},               \* simulations of the rules replaced or deleted
     cascade |-> {},               \* simulations still to be deleted
     todo    |-> << >>,            \* rules of a list still to be worked off
     wrote   |-> FALSE]            \* rows have been written (import, bulk delete)

At(c, step) == handler[c].path # << >> /\ Head(handler[c].path) = step
Busy(c) == handler[c].path # << >>
AllIdle == \A c \in Clients : ~Busy(c)

Live(st) == [t \in LiveTable |-> st[t]]

AdminInit ==
    /\ strict \in BOOLEAN
    /\ store \in InitialStores
    /\ live = Live(store)
    /\ handler = [c \in Clients |-> Idle]
    /\ rebuild = [c \in Clients |-> NoRebuild]
    /\ requests = 0 /\ failures = 0
    /\ overlapped = FALSE
    /\ unpublished = {}

-----------------------------------------------------------------------------
(* The handlers as paths.                                                  *)

(* Variant: an edited rule is not compared with the others. *)
RuleStepsUnchecked(op) ==
    CASE op = "post"      -> <<"refs", "duplicates", "write", "reload">>
      [] op = "put"       -> <<"refs", "owned", "write", "cascade", "reload">>
      [] op = "delete"    -> <<"owned", "write", "cascade", "reload">>
      [] op = "deleteAll" -> <<"list", "bulk", "reload">>

(* Variant: an edited rule keeps what it no longer refers to. *)
RuleStepsNoCascade(op) ==
    CASE op = "post"      -> <<"refs", "duplicates", "write", "reload">>
      [] op = "put"       -> <<"refs", "duplicates", "owned", "write", "reload">>
      [] op = "delete"    -> <<"owned", "write", "cascade", "reload">>
      [] op = "deleteAll" -> <<"list", "bulk", "reload">>

(* rules and ruleByID. *)
RuleSteps(op) ==
    CASE op = "post"      -> <<"refs", "duplicates", "write", "reload">>
      [] op = "put"       -> <<"refs", "duplicates", "owned", "write", "cascade", "reload">>
      [] op = "delete"    -> <<"owned", "write", "cascade", "reload">>
      [] op = "deleteAll" -> <<"list", "bulk", "reload">>

(* simulations and simulationByID. *)
SimulationSteps(op) == <<"write", "reload">>

(* Variant: a profile still referenced may be deleted. *)
ProfileStepsUnguarded(op) == <<"exists", "write", "reload">>

(* faults and faultByID. *)
ProfileSteps(op) ==
    IF op = "delete" THEN <<"exists", "guard", "write", "reload">>
                     ELSE <<"exists", "write", "reload">>

(* scenarios and scenarioByID. *)
ScenarioSteps(op) ==
    IF op = "delete" THEN <<"exists", "write", "reload">>
                     ELSE <<"ruleRefs", "refs", "exists", "write", "reload">>

(* eventRules and eventRuleByID. *)
EventRuleSteps(op) == <<"write", "reload">>

Steps(req) ==
    CASE req.table = "rules"      -> RuleSteps(req.op)
      [] req.table = "sims"       -> SimulationSteps(req.op)
      [] req.table = "profiles"   -> ProfileSteps(req.op)
      [] req.table = "scenarios"  -> ScenarioSteps(req.op)
      [] req.table = "eventRules" -> EventRuleSteps(req.op)

Arrive(c, req, path) ==
    /\ ~Busy(c)
    /\ requests + failures < Budget
    /\ requests' = requests + 1
    /\ handler' = [handler EXCEPT ![c] = [Idle EXCEPT !.path = path, !.req = req]]
    /\ overlapped' = (overlapped \/ ~AllIdle)
    /\ UNCHANGED <<store, pipeVars, strict, failures>>

Receive(c) == \E req \in Requests : Arrive(c, req, Steps(req))

-----------------------------------------------------------------------------
(* Steps that read.  A check that fails answers the request, with 404, 409 *)
(* or 422, and ends it.                                                    *)

Quiet == UNCHANGED <<store, pipeVars, strict, boundVars, overlapped>>

Check(c, passes) ==
    handler' = [handler EXCEPT ![c] =
                   IF passes THEN [@ EXCEPT !.path = Tail(handler[c].path)] ELSE Idle]

(* validateScenarioRefs looks up all rules at once, and then, like         *)
(* validateFaultProfileRefs, one profile after the other.                  *)
CheckRuleRefs(c) ==
    /\ At(c, "ruleRefs")
    /\ Check(c, handler[c].req.row.rules \subseteq IdsOf(store.rules))
    /\ Quiet

CheckProfileRef(c) ==
    /\ At(c, "refs")
    /\ \E p \in handler[c].req.row.profiles \ handler[c].checked :
           handler' = [handler EXCEPT ![c] =
               IF HasRow(store.profiles, p)
               THEN [@ EXCEPT !.checked = handler[c].checked \union {p}]
               ELSE Idle]
    /\ Quiet

CheckRefsDone(c) ==
    /\ At(c, "refs")
    /\ handler[c].req.row.profiles \subseteq handler[c].checked
    /\ Check(c, TRUE)
    /\ Quiet

(* duplicateMatchError. *)
CheckDuplicates(c) ==
    LET unique == FindDuplicates(store.rules, handler[c].req.row) = {}
    IN  /\ At(c, "duplicates")
        /\ handler' = [handler EXCEPT ![c] =
               IF unique THEN [@ EXCEPT !.path = Tail(handler[c].path), !.stored = store.rules]
                         ELSE Idle]
        /\ Quiet

(* A profile or scenario to create must be new, any other must exist. *)
CheckExists(c) ==
    LET req == handler[c].req
    IN  /\ At(c, "exists")
        /\ Check(c, HasRow(store[req.table], req.row.id) = (req.op # "post"))
        /\ Quiet

(* The reference guard of faultByID. *)
CheckUnused(c) ==
    /\ At(c, "guard")
    /\ Check(c, handler[c].req.row.id \notin ReferencedProfiles(store.rules))
    /\ Quiet

(* ruleByIDLookup before a rule is replaced or deleted: the simulations it *)
(* owns and, of these, the ones it will no longer refer to.                *)
ReadOwned(c) ==
    LET req == handler[c].req
        owned == ReferencedSims({r \in store.rules : r.id = req.row.id})
    IN  /\ At(c, "owned")
        /\ handler' = [handler EXCEPT
               ![c].path    = Tail(@),
               ![c].owned   = owned,
               ![c].cascade = IF req.op = "put" THEN owned \ req.row.sims ELSE owned]
        /\ Quiet

(* The bulk delete lists all rules. *)
ListRules(c) ==
    /\ At(c, "list")
    /\ handler' = [handler EXCEPT ![c].path  = Tail(@),
                                  ![c].owned = ReferencedSims(store.rules),
                                  ![c].todo  = SetToSeq(store.rules)]
    /\ Quiet

ReadSteps == {"ruleRefs", "refs", "duplicates", "exists", "guard", "owned", "list", "validate", "stored"}

(* A read that fails answers 500. *)
ReadFails(c) ==
    /\ \E step \in ReadSteps : At(c, step)
    /\ requests + failures < Budget
    /\ failures' = failures + 1
    /\ handler' = [handler EXCEPT ![c] = Idle]
    /\ UNCHANGED <<store, pipeVars, strict, requests, overlapped>>

-----------------------------------------------------------------------------
(* Steps that write.                                                       *)

Written(st, req) ==
    [st EXCEPT ![req.table] = IF req.op = "delete" THEN DropRow(@, req.row.id)
                                                   ELSE SaveRow(@, req.row)]

Missing(req) == strict /\ req.op = "delete" /\ ~HasRow(store[req.table], req.row.id)

Write(c) ==
    /\ At(c, "write")
    /\ ~Missing(handler[c].req)
    /\ store' = Written(store, handler[c].req)
    /\ handler' = [handler EXCEPT ![c].path = Tail(@)]
    /\ UNCHANGED <<pipeVars, strict, boundVars, overlapped>>

WriteMissing(c) ==
    /\ At(c, "write")
    /\ Missing(handler[c].req)
    /\ handler' = [handler EXCEPT ![c] = Idle]
    /\ Quiet

(* A request ends and leaves some tables changed and unpublished.  What    *)
(* another reload has read of these and is no longer stored is outdated.   *)
Outdated(d, st, tables) ==
    {t \in rebuild[d].loaded \intersect tables : rebuild[d].snapshot[t] # st[t]}

Ends(c, st, tables) ==
    rebuild' = [d \in Clients |->
        IF d = c THEN NoRebuild
                 ELSE [rebuild[d] EXCEPT !.outdated = @ \union Outdated(d, st, tables)]]

(* The handler answers an error and does not reload. *)
Abandon(c, st, tables) ==
    /\ store' = st
    /\ handler' = [handler EXCEPT ![c] = Idle]
    /\ unpublished' = unpublished \union tables
    /\ Ends(c, st, tables)
    /\ UNCHANGED <<live, strict, requests, overlapped>>

CountFailure ==
    /\ requests + failures < Budget
    /\ failures' = failures + 1

WriteFails(c) ==
    LET req == handler[c].req
    IN  /\ At(c, "write")
        /\ CountFailure
        /\ \/ Abandon(c, store, {})
           \/ Abandon(c, Written(store, req), {req.table})

(* One turn of the loop of the bulk delete: the next rule, and its         *)
(* simulations before the one after it.                                    *)
BulkDelete(c) ==
    LET todo == handler[c].todo
    IN  /\ At(c, "bulk") /\ todo # << >>
        /\ strict => HasRow(store.rules, Head(todo).id)
        /\ store' = [store EXCEPT !.rules = DropRow(@, Head(todo).id)]
        /\ handler' = [handler EXCEPT ![c].path    = <<"cascade">> \o @,
                                      ![c].cascade = Head(todo).sims,
                                      ![c].todo    = Tail(todo),
                                      ![c].wrote   = TRUE]
        /\ UNCHANGED <<pipeVars, strict, boundVars, overlapped>>

BulkDone(c) ==
    /\ At(c, "bulk") /\ handler[c].todo = << >>
    /\ handler' = [handler EXCEPT ![c].path = Tail(@)]
    /\ Quiet

(* A rule that cannot be deleted, or is gone, ends the request: those      *)
(* deleted so far stay deleted and the pipeline keeps them.                *)
Deleted(c) == IF handler[c].wrote THEN {"rules", "sims"} ELSE {}

BulkFails(c) ==
    /\ At(c, "bulk") /\ handler[c].todo # << >>
    /\ CountFailure
    /\ \/ Abandon(c, store, Deleted(c))
       \/ Abandon(c, [store EXCEPT !.rules = DropRow(@, Head(handler[c].todo).id)],
                  Deleted(c) \union {"rules"})

BulkMissing(c) ==
    /\ At(c, "bulk") /\ handler[c].todo # << >>
    /\ strict /\ ~HasRow(store.rules, Head(handler[c].todo).id)
    /\ Abandon(c, store, Deleted(c))
    /\ UNCHANGED failures

-----------------------------------------------------------------------------
(* deleteSimulations: one read of the rules, then the deletions, whose     *)
(* errors are ignored.  When the read fails nothing is deleted.            *)

(* Variant: what other rules refer to is not looked up. *)
CascadeReadUnguarded(c) ==
    /\ At(c, "cascade")
    /\ handler' = [handler EXCEPT ![c].path = <<"sweep">> \o Tail(@),
                                  ![c].seen = store.rules]
    /\ Quiet

CascadeRead(c) ==
    /\ At(c, "cascade")
    /\ handler' = [handler EXCEPT ![c].path    = <<"sweep">> \o Tail(@),
                                  ![c].seen    = store.rules,
                                  ![c].cascade = @ \ ReferencedSims(store.rules)]
    /\ Quiet

CascadeReadFails(c) ==
    /\ At(c, "cascade")
    /\ requests + failures < Budget
    /\ failures' = failures + 1
    /\ handler' = [handler EXCEPT ![c].path = Tail(@), ![c].cascade = {}]
    /\ UNCHANGED <<store, pipeVars, strict, requests, overlapped>>

CascadeDelete(c) ==
    /\ At(c, "sweep")
    /\ \E s \in handler[c].cascade :
           /\ store' = [store EXCEPT !.sims = DropRow(@, s)]
           /\ handler' = [handler EXCEPT ![c].cascade = @ \ {s}]
    /\ UNCHANGED <<pipeVars, strict, boundVars, overlapped>>

CascadeDeleteFails(c) ==
    /\ At(c, "sweep")
    /\ requests + failures < Budget
    /\ failures' = failures + 1
    /\ \E s \in handler[c].cascade :
           handler' = [handler EXCEPT ![c].cascade = @ \ {s}]
    /\ UNCHANGED <<store, pipeVars, strict, requests, overlapped>>

CascadeDone(c) ==
    /\ At(c, "sweep") /\ handler[c].cascade = {}
    /\ handler' = [handler EXCEPT ![c].path = Tail(@)]
    /\ Quiet

-----------------------------------------------------------------------------
(* reload: rebuild, and the answer.                                        *)

LoadTable(c) ==
    /\ At(c, "reload")
    /\ \E t \in LiveTable \ rebuild[c].loaded :
           /\ ReadBefore[t] \subseteq rebuild[c].loaded
           /\ rebuild' = [rebuild EXCEPT ![c].loaded      = @ \union {t},
                                         ![c].snapshot[t] = store[t]]
    /\ UNCHANGED <<store, handler, live, unpublished, strict, boundVars, overlapped>>

(* The running pipeline stays. *)
RebuildFails(c) ==
    /\ At(c, "reload") /\ rebuild[c].loaded # LiveTable
    /\ CountFailure
    /\ Abandon(c, store, LiveTable)

(* Under the lock.  A table that was outdated when it is swapped in stays  *)
(* unpublished: the pipeline had a newer one.                              *)
Swap(c) ==
    /\ At(c, "reload") /\ rebuild[c].loaded = LiveTable
    /\ live' = rebuild[c].snapshot
    /\ handler' = [handler EXCEPT ![c] = Idle]
    /\ unpublished' = rebuild[c].outdated
    /\ Ends(c, store, LiveTable)
    /\ UNCHANGED <<store, strict, boundVars, overlapped>>

AdminStep(c) ==
    \/ Receive(c)
    \/ CheckRuleRefs(c) \/ CheckProfileRef(c) \/ CheckRefsDone(c) \/ CheckDuplicates(c)
    \/ CheckExists(c) \/ CheckUnused(c) \/ ReadOwned(c) \/ ListRules(c) \/ ReadFails(c)
    \/ Write(c) \/ WriteMissing(c) \/ WriteFails(c)
    \/ BulkDelete(c) \/ BulkDone(c) \/ BulkFails(c) \/ BulkMissing(c)
    \/ CascadeRead(c) \/ CascadeReadFails(c)
    \/ CascadeDelete(c) \/ CascadeDeleteFails(c) \/ CascadeDone(c)
    \/ LoadTable(c) \/ RebuildFails(c) \/ Swap(c)
=============================================================================
