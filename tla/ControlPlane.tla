---------------------------- MODULE ControlPlane ----------------------------
(***************************************************************************)
(* The admin API, the import of configurations and the interception of     *)
(* events as one system: clients change the configuration, request by      *)
(* request and step by step, while applications publish events against     *)
(* what of it is live.                                                     *)
(***************************************************************************)
EXTENDS EventIntercept

vars == <<adminVars, eventVars>>

Init == AdminInit /\ EventInit

Next ==
    \/ \E c \in Clients : (AdminStep(c) \/ ImportStep(c)) /\ UNCHANGED eventVars
    \/ \E a \in Apps : AppStep(a)

Spec == Init /\ [][Next]_vars

-----------------------------------------------------------------------------
(* Without overlapping requests, a stored rule never refers to a fault     *)
(* profile that is gone: the check when a rule is saved, the guard when a  *)
(* profile is deleted and the order an import writes in, profiles before   *)
(* the rule, keep it so whatever calls of the store fail in between.       *)
RuleProfilesResolve ==
    ~overlapped => \A r \in store.rules : FaultRefsResolve(r, store)

(* When a request that replaced or deleted rules reaches its reload, alone *)
(* and without a failed call, none of the simulations those rules owned is *)
(* left behind: it is deleted or a stored rule refers to it.               *)
CascadeIsComplete ==
    \A c \in Clients :
        At(c, "reload") /\ ~overlapped /\ failures = 0 =>
            handler[c].owned \intersect IdsOf(store.sims) \subseteq ReferencedSims(store.rules)

(* Once no request is in progress the pipeline runs what the store holds,  *)
(* also after an import that failed half way, except of tables that        *)
(*   - a write, or a bulk delete half way, changed and then failed,        *)
(*   - an import changed that failed when it had written only simulations, *)
(*   - a rebuild did not get to, because a read of it failed (all tables), *)
(*   - were swapped in by a rebuild that read them before a change which   *)
(*     another rebuild had published first.                                *)
(* Nothing else gets lost, however requests and their reloads overlap; and *)
(* what did is published by the next reload that is not overtaken.         *)
WritesGoLive == AllIdle => \A t \in LiveTable \ unpublished : live[t] = store[t]

(* Between requests, a selection of rules without dangling references and  *)
(* without duplicates can be exported and imported elsewhere: the file     *)
(* carries all its rules and scenarios refer to, so that an empty store    *)
(* accepts it.                                                             *)
EmptyStore == [t \in Table |-> {}]

Selections(st) ==
    {rules \in SUBSET st.rules :
        /\ \A r \in rules : /\ r.sims \subseteq IdsOf(st.sims)
                            /\ FaultRefsResolve(r, st)
                            /\ FindDuplicates(rules, r) = {}
        /\ \A s \in ExportedScenarios(st, rules) : ScenarioRefsResolve(s, st)}

ExportedSetImports ==
    AllIdle => \A rules \in Selections(store) : ImportAcceptable(Exported(store, rules), EmptyStore)

(* Two rules with equal match criteria come from overlapping requests, a   *)
(* rule written before the other writer looked or saved again while an     *)
(* import replaces it; or from an import that overrides a rule by its id,  *)
(* or one of several stored rules that are equal to the imported one.      *)
(* Otherwise the checks catch them.                                        *)
RowWritten(c) == IF At(c, "rule") THEN Current(c) ELSE handler[c].req.row

WritesRule(c) ==
    At(c, "rule") \/ (At(c, "write") /\ handler[c].req.table = "rules")

Overrides(stored, x, y) ==
    y \in stored /\ (HasRow(stored, x.id) \/ FindDuplicates(stored, x) # {y})

DuplicatesHaveACause ==
    [][\A x, y \in store'.rules :
          (x.id # y.id /\ x.match = y.match /\ x \notin store.rules /\ y \in store.rules) =>
              \E c \in Clients :
                  /\ WritesRule(c) /\ RowWritten(c) = x
                  /\ IF overlapped THEN At(c, "rule") \/ y \notin handler[c].stored
                                   ELSE At(c, "rule") /\ Overrides(handler[c].stored, x, y)
      ]_vars

(* The cascade deletes a simulation a stored rule refers to only when that *)
(* rule was saved after the cascade had read the rules.                    *)
CascadeSparesReferenced ==
    [][\A c \in Clients :
          At(c, "sweep") /\ handler'[c] # handler[c] =>
              \A r \in store.rules :
                  r.sims \intersect (IdsOf(store.sims) \ IdsOf(store'.sims)) # {} =>
                      r \notin handler[c].seen
      ]_vars

(* The captures tell what the broker got: an event captured as forwarded   *)
(* was delivered; and one delivered is captured or about to be, as         *)
(* forwarded or as failed, once for at most as many deliveries as the      *)
(* client of the broker makes attempts at a call.                          *)
Sent(e) == {a \in Apps : publish[a].at \in {"accepted", "failed"} /\ Entry(a) = e}
Accepted(e) == {a \in Sent(e) : publish[a].at = "accepted"}

CapturesBracketBroker ==
    \A e \in Events :
        /\ captured[e][200] + Cardinality(Accepted(e)) <= delivered[e]
        /\ delivered[e] <=
              MaxAttempts * (captured[e][200] + captured[e][502] + Cardinality(Sent(e)))
=============================================================================
