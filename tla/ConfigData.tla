----------------------------- MODULE ConfigData -----------------------------
(***************************************************************************)
(* The configuration a store holds, and what the admin API computes from   *)
(* it: duplicate rules, references, import conflicts, the validation of an *)
(* import and the set an export collects.                                  *)
(*                                                                         *)
(* Every table is a set of rows told apart by their id.  A rule is a       *)
(* record [id, match, sims, profiles]: its match criteria as one value,    *)
(* and the simulations and fault profiles its buckets refer to.  A         *)
(* scenario is [id, rules, profiles], an event rule [id, events,           *)
(* constraints, forward, disabled].  Of simulations and profiles only the  *)
(* id is left.  A configuration file holds its rules in order and is a     *)
(* record [rules, sims, profiles, scenarios, eventRules].                  *)
(***************************************************************************)
EXTENDS Naturals, FiniteSetsExt, SequencesExt

Table == {"rules", "sims", "profiles", "scenarios", "eventRules"}

IdsOf(rows) == {x.id : x \in rows}
HasRow(rows, id) == id \in IdsOf(rows)

(* SaveRule, SaveSimulation and the like upsert; Delete drops. *)
SaveRow(rows, row) == {x \in rows : x.id # row.id} \union {row}
DropRow(rows, id) == {x \in rows : x.id # id}

FindDuplicates(rules, r) == {x \in rules : x.id # r.id /\ x.match = r.match}

(* What the simulate buckets of some rules refer to. *)
ReferencedSims(rules) == UNION {r.sims : r \in rules}
ReferencedProfiles(rows) == UNION {x.profiles : x \in rows}

FaultRefsResolve(rule, st) == rule.profiles \subseteq IdsOf(st.profiles)

ScenarioRefsResolve(s, st) ==
    /\ s.rules \subseteq IdsOf(st.rules)
    /\ s.profiles \subseteq IdsOf(st.profiles)

-----------------------------------------------------------------------------
(* Import.                                                                 *)

(* detectConflicts: the stored rules one of which an incoming rule would   *)
(* replace.  The same id wins over equal criteria.                         *)
Conflicting(stored, in) ==
    LET sameId == {x \in stored : x.id = in.id}
    IN  IF sameId # {} THEN sameId ELSE FindDuplicates(stored, in)

(* validateImportPayload.  The id of a simulation of the payload is not    *)
(* compared with anything but the ids of the payload.                      *)
RulesAcceptable(cfg, st) ==
    \A i \in DOMAIN cfg.rules :
        LET r == cfg.rules[i]
            before == {cfg.rules[j] : j \in 1 .. i - 1}
        IN  /\ ~HasRow(before, r.id)
            /\ FindDuplicates(before, r) = {}
            /\ r.sims \subseteq IdsOf(cfg.sims \union st.sims)
            /\ r.profiles \subseteq IdsOf(cfg.profiles \union st.profiles)

(* validateScenarioImport. *)
ScenariosAcceptable(cfg, st) ==
    \A s \in cfg.scenarios :
        /\ s.rules \subseteq IdsOf(ToSet(cfg.rules) \union st.rules)
        /\ s.profiles \subseteq IdsOf(cfg.profiles \union st.profiles)

ImportAcceptable(cfg, st) == RulesAcceptable(cfg, st) /\ ScenariosAcceptable(cfg, st)

-----------------------------------------------------------------------------
(* Export.                                                                 *)

(* The scenarios all of whose rules are exported. *)
ExportedScenarios(st, rules) == {s \in st.scenarios : s.rules \subseteq IdsOf(rules)}

(* Variant: the profiles of scenario phases are left behind. *)
ExportedWithoutPhases(st, rules) ==
    [rules      |-> SetToSeq(rules),
     sims       |-> {x \in st.sims : x.id \in ReferencedSims(rules)},
     profiles   |-> {x \in st.profiles : x.id \in ReferencedProfiles(rules)},
     scenarios  |-> ExportedScenarios(st, rules),
     eventRules |-> st.eventRules]

(* exportHandler, for the rules selected; it reads table after table, here *)
(* from one store.                                                         *)
Exported(st, rules) ==
    LET scenarios == ExportedScenarios(st, rules)
    IN  [rules      |-> SetToSeq(rules),
         sims       |-> {x \in st.sims : x.id \in ReferencedSims(rules)},
         profiles   |-> {x \in st.profiles :
                            x.id \in ReferencedProfiles(rules \union scenarios)},
         scenarios  |-> scenarios,
         eventRules |-> st.eventRules]
=============================================================================
