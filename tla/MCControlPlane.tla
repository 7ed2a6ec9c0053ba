--------------------------- MODULE MCControlPlane ---------------------------
(***************************************************************************)
(* Rules that share simulations and match criteria, a profile two rules    *)
(* and a scenario refer to, requests that touch each other, and a file     *)
(* whose rules conflict by id, by match and, once what they conflict with  *)
(* is deleted, not at all.                                                 *)
(***************************************************************************)
EXTENDS ControlPlane

Rule(id, match, sims, profiles) ==
    [id |-> id, match |-> match, sims |-> sims, profiles |-> profiles]
Row(id) == [id |-> id]
Scenario(id, rules, profiles) == [id |-> id, rules |-> rules, profiles |-> profiles]
EventRule(id, events, constraints, forward, disabled) ==
    [id |-> id, events |-> events, constraints |-> constraints,
     forward |-> forward, disabled |-> disabled]

MCEvents == {"created", "paid"}
MCBatches == {<<"created", "paid">>}

Relay == EventRule("relay", MCEvents, 1, TRUE, FALSE)
Fake == EventRule("fake", {"paid"}, 2, FALSE, FALSE)

MCInitialStores ==
    {[rules |-> {Rule("A", "m1", {"s1"}, {})},
      sims |-> {Row("s1")}, profiles |-> {Row("p1")}, scenarios |-> {},
      eventRules |-> {Relay, Fake}]}

Req(op, table, row) == [op |-> op, table |-> table, row |-> row]

MCRequests ==
    {Req("post", "rules", Rule("C", "m3", {"s1"}, {"p1"})),
     Req("put", "rules", Rule("C", "m1", {}, {})),
     Req("delete", "rules", Row("A")),
     Req("deleteAll", "rules", Row("none")),
     Req("delete", "sims", Row("s1")),
     Req("post", "profiles", Row("p1")),
     Req("delete", "profiles", Row("p1")),
     Req("post", "scenarios", Scenario("S", {"A"}, {"p1"})),
     Req("delete", "eventRules", Row("relay"))}

File(rules, sims, profiles, scenarios, eventRules) ==
    [rules |-> rules, sims |-> sims, profiles |-> profiles,
     scenarios |-> scenarios, eventRules |-> eventRules]

Import(config, override) == [op |-> "import", config |-> config, override |-> override]

(* One rule conflicts by its id, and with C by its match, and is           *)
(* overridden; the other conflicts by its match and is not.  The file      *)
(* brings back a profile and an event rule that may have been deleted; the *)
(* profile of its scenario is no rule's.                                   *)
Replacing ==
    File(<<Rule("A", "m3", {"s2"}, {"p1"}), Rule("X", "m1", {}, {})>>,
         {Row("s2")}, {Row("p1"), Row("p3")}, {Scenario("T", {"A"}, {"p3"})}, {Relay})

MCImports == {Import(Replacing, {"A"})}

Symmetry == Permutations(Clients)
=============================================================================
