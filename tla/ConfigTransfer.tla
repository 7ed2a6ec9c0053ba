--------------------------- MODULE ConfigTransfer ---------------------------
(***************************************************************************)
(* POST /api/import: the commit of a configuration file.  Rules are taken  *)
(* in the order of the file.  One that conflicts with a stored rule is     *)
(* skipped, or replaces it when the request overrides it; the simulations  *)
(* and profiles a rule refers to are written just before the rule.         *)
(*                                                                         *)
(* The store supports every table, and import is disabled for the JSON     *)
(* store, the strict one.  Each simulation, profile, scenario and event    *)
(* rule is a call of its own; those of one kind and one rule are a single  *)
(* step here, which may fail after any of them.                            *)
(***************************************************************************)
EXTENDS AdminAPI

CONSTANT Imports \* requests [op |-> "import", config, override]

ASSUME ImportAssumption ==
    \A req \in Imports :
        req.op = "import" /\ req.config.rules \in Seq(ToSet(req.config.rules))

ImportSteps ==
    <<"validate", "stored", "import", "scenarios", "eventRules", "respond", "reload">>

(* saveRuleWithSims. *)
SaveSteps == <<"sims", "profiles", "rule">>

ReceiveImport(c) == ~strict /\ \E req \in Imports : Arrive(c, req, ImportSteps)

Config(c) == handler[c].req.config
Current(c) == Head(handler[c].todo)

ValidateImport(c) ==
    /\ At(c, "validate")
    /\ Check(c, ImportAcceptable(Config(c), store))
    /\ Quiet

(* The rules all conflicts are decided against, until the end. *)
ReadStored(c) ==
    /\ At(c, "stored")
    /\ handler' = [handler EXCEPT ![c].path   = Tail(@),
                                  ![c].stored = store.rules,
                                  ![c].todo   = Config(c).rules]
    /\ Quiet

-----------------------------------------------------------------------------
(* The turns of the loop over the rules.                                   *)

Importing(c) == At(c, "import") /\ handler[c].todo # << >>
Conflicts(c) == Conflicting(handler[c].stored, Current(c))
Overridden(c) == Current(c).id \in handler[c].req.override

ImportSkips(c) ==
    /\ Importing(c)
    /\ Conflicts(c) # {} /\ ~Overridden(c)
    /\ handler' = [handler EXCEPT ![c].todo = Tail(@)]
    /\ Quiet

ImportSaves(c) ==
    /\ Importing(c)
    /\ Conflicts(c) = {}
    /\ handler' = [handler EXCEPT ![c].path = SaveSteps \o @]
    /\ Quiet

(* The rule to be replaced is deleted, with the simulations the new one    *)
(* does not refer to.                                                      *)
ImportOverrides(c) ==
    /\ Importing(c)
    /\ Overridden(c)
    /\ \E ex \in Conflicts(c) :
           /\ store' = [store EXCEPT !.rules = DropRow(@, ex.id)]
           /\ handler' = [handler EXCEPT ![c].path    = <<"cascade">> \o SaveSteps \o @,
                                         ![c].owned   = ex.sims,
                                         ![c].cascade = ex.sims \ Current(c).sims,
                                         ![c].wrote   = TRUE]
    /\ UNCHANGED <<pipeVars, strict, boundVars, overlapped>>

(* Upserts of a set of rows, one after the other. *)
SaveRows(rows, new) == {x \in rows : x.id \notin IdsOf(new)} \union new

PayloadSims(c) == {x \in Config(c).sims : x.id \in Current(c).sims}
PayloadProfiles(c) == {x \in Config(c).profiles : x.id \in Current(c).profiles}

(* What a step writes: a table and some rows of the file. *)
Payload(c) ==
    CASE At(c, "sims")       -> [table |-> "sims", rows |-> PayloadSims(c)]
      [] At(c, "profiles")   -> [table |-> "profiles", rows |-> PayloadProfiles(c)]
      [] At(c, "rule")       -> [table |-> "rules", rows |-> {Current(c)}]
      [] At(c, "scenarios")  -> [table |-> "scenarios", rows |-> Config(c).scenarios]
      [] At(c, "eventRules") -> [table |-> "eventRules", rows |-> Config(c).eventRules]

RuleSave == {"sims", "profiles", "rule"}
ImportWrites == RuleSave \union {"scenarios", "eventRules"}

(* A simulation saved does not count as written. *)
ImportWrite(c) ==
    /\ \E step \in ImportWrites : At(c, step)
    /\ LET p == Payload(c)
       IN  /\ store' = [store EXCEPT ![p.table] = SaveRows(@, p.rows)]
           /\ handler' = [handler EXCEPT
                  ![c].path  = Tail(@),
                  ![c].wrote = @ \/ (p.table # "sims" /\ p.rows # {}),
                  ![c].todo  = IF p.table = "rules" THEN Tail(@) ELSE @]
    /\ UNCHANGED <<pipeVars, strict, boundVars, overlapped>>

ImportRulesDone(c) ==
    /\ At(c, "import") /\ handler[c].todo = << >>
    /\ handler' = [handler EXCEPT ![c].path = Tail(@)]
    /\ Quiet

-----------------------------------------------------------------------------
(* Variant: an import that fails does not reload. *)
ImportAbandoned(c, st, wrote, tables) ==
    /\ CountFailure
    /\ Abandon(c, st, IF wrote THEN {} ELSE tables)

(* The deferred function: an import that fails reloads when it has written *)
(* something but simulations.                                              *)
ImportEnds(c, st, wrote, tables) ==
    /\ CountFailure
    /\ IF wrote
       THEN /\ store' = st
            /\ handler' = [handler EXCEPT ![c] = [Idle EXCEPT !.path = <<"reload">>]]
            /\ UNCHANGED <<pipeVars, strict, requests, overlapped>>
       ELSE Abandon(c, st, tables)

ImportOverrideFails(c) ==
    /\ Importing(c)
    /\ Overridden(c)
    /\ \E ex \in Conflicts(c) :
           \/ ImportEnds(c, store, handler[c].wrote, {})
           \/ ImportEnds(c, [store EXCEPT !.rules = DropRow(@, ex.id)], handler[c].wrote, {"rules"})

(* One of the rows fails: those before it are written, itself may be.      *)
(* Simulations of the rule may have been written before.                   *)
ImportWriteFails(c) ==
    /\ \E step \in ImportWrites : At(c, step)
    /\ Payload(c).rows # {}
    /\ \E before \in SUBSET Payload(c).rows :
       \E failed \in Payload(c).rows \ before :
       \E landed \in SUBSET {failed} :
           LET p == Payload(c)
           IN  ImportEnds(c, [store EXCEPT ![p.table] = SaveRows(@, before \union landed)],
                          handler[c].wrote \/ (p.table # "sims" /\ before # {}),
                          {p.table} \union
                          IF p.table \in {"profiles", "rules"} THEN {"sims"} ELSE {})

(* The answer 200. *)
ImportResponds(c) ==
    /\ At(c, "respond")
    /\ handler' = [handler EXCEPT ![c] =
                      IF @.wrote THEN [@ EXCEPT !.path = Tail(handler[c].path)] ELSE Idle]
    /\ Quiet

ImportStep(c) ==
    \/ ReceiveImport(c) \/ ValidateImport(c) \/ ReadStored(c)
    \/ ImportSkips(c) \/ ImportSaves(c) \/ ImportOverrides(c) \/ ImportRulesDone(c)
    \/ ImportWrite(c) \/ ImportOverrideFails(c) \/ ImportWriteFails(c)
    \/ ImportResponds(c)
=============================================================================
