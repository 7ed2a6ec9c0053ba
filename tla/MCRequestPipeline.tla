-------------------------- MODULE MCRequestPipeline --------------------------
(* TLC instance of RequestPipeline: an exact rule and a wildcard rule that *)
(* overlap, and a configuration that replaces them while requests run; the *)
(* latter has a disabled rule and a disabled profile.                      *)
EXTENDS RequestPipeline, TLC

CONSTANTS q1, q2

MatchAll(id, path, headers, buckets) ==
    [id |-> id, path |-> path, headers |-> headers, buckets |-> buckets,
     disabled |-> FALSE, protocol |-> "", method |-> "", query |-> {}, body |-> {}]

Disabled(rule) == [rule EXCEPT !.disabled = TRUE]

Bucket(weight, action, simulation, profile) ==
    [weight |-> weight, action |-> action, simulation |-> simulation, profile |-> profile]

Fault(type, probability) ==
    [type |-> type, probability |-> probability, keyBy |-> "path", failFirst |-> 0, window |-> 0]

Storm(keyBy) ==
    [type |-> "retryStorm", probability |-> "always", keyBy |-> keyBy,
     failFirst |-> 1, window |-> 1]

Profile(faults) == [faults |-> faults, enabled |-> TRUE]

MCArrivals ==
    {[path |-> path, headers |-> {<<"x-id", "a">>}, protocol |-> "http",
      method |-> "GET", query |-> {}, body |-> {}] :
        path \in {<<"pay", "1">>, <<"other">>}}

MCConfigs ==
    {[rules |-> <<MatchAll("any", <<"pay", "*">>, {},
                           <<Bucket(3, "simulate", "ok", "")>>),
                  MatchAll("one", <<"pay", "1">>, {},
                           <<Bucket(1, "simulate", "ok", "mixed"),
                             Bucket(2, "forward", "", "storm")>>)>>,
      simulations |-> {"ok"},
      profiles |-> [mixed |-> Profile(<<Fault("jitter", "always"),
                                        Fault("error", "always")>>),
                    storm |-> Profile(<<Storm("path")>>)]],
     [rules |-> <<MatchAll("any", <<"pay", "*">>, {},
                           <<Bucket(3, "forward", "", "mixed")>>),
                  MatchAll("one", <<"pay", "*">>, {<<"x-id", "a">>},
                           <<Bucket(2, "simulate", "gone", "mixed"),
                             Bucket(1, "simulate", "ok", "off")>>),
                  Disabled(MatchAll("spare", <<"pay", "1">>, {<<"x-id", "a">>},
                                    <<Bucket(3, "forward", "", "")>>))>>,
      simulations |-> {"ok"},
      profiles |-> [mixed |-> Profile(<<Storm("x-id"), Fault("halfResponse", "sometimes")>>),
                    off |-> [Profile(<<Fault("error", "always")>>) EXCEPT !.enabled = FALSE]]]}

MCOverlays ==
    {[profile |-> "", rules |-> {"any", "one"}],
     [profile |-> "mixed", rules |-> {"one"}]}

Symmetry == Permutations(Requests)
=============================================================================
