----------------------------- MODULE RuleMatching -----------------------------
(***************************************************************************)
(* How a request finds its rule (internal/domain/matching) and its bucket  *)
(* (internal/domain/routing), as operators.                                *)
(*                                                                         *)
(* A path is the sequence of its segments; a pattern may have Wildcard     *)
(* segments, which match any one segment; the root path, wildcards within  *)
(* a segment and the ? and [] of path.Match are left out.  Methods and     *)
(* header names are taken after case folding.  What a rule asks of         *)
(* headers, body and query is a set of name-value pairs, and so is what a  *)
(* request has; values are not empty.                                      *)
(***************************************************************************)
EXTENDS Integers, FiniteSets, SequencesExt

Wildcard == "*"
AnyPath == << >>   \* the empty pattern
Unset == ""

PathMatches(pattern, path) ==
    \/ pattern = AnyPath
    \/ /\ Len(pattern) = Len(path)
       /\ \A i \in DOMAIN path : pattern[i] \in {path[i], Wildcard}

(* matchRule *)
MatchRule(rule, q) ==
    /\ ~rule.disabled
    /\ rule.protocol \in {Unset, q.protocol}
    /\ rule.method \in {Unset, q.method}
    /\ PathMatches(rule.path, q.path)
    /\ rule.headers \subseteq q.headers
    /\ rule.query \subseteq q.query
    /\ rule.body \subseteq q.body

(* urlScore: any exact pattern outranks any pattern with a wildcard. *)
UrlScore(pattern) ==
    LET literals == {i \in DOMAIN pattern : pattern[i] # Wildcard}
    IN  IF pattern = AnyPath THEN 0
        ELSE IF literals = DOMAIN pattern THEN 1000 ELSE 100 + Cardinality(literals)

SpecTuple(rule) ==
    <<Cardinality(rule.headers), UrlScore(rule.path),
      Cardinality(rule.body), Cardinality(rule.query)>>

TupleMoreSpecific(a, b) ==
    \E k \in 1 .. 4 : a[k] > b[k] /\ \A l \in 1 .. k - 1 : a[l] = b[l]

(* Variant: the order the rules were stored in. *)
InInputOrder(rules) == [i \in DOMAIN rules |-> i]

(* More specific rules come first, equally specific ones as stored.        *)
Before(rules, i, j) ==
    LET a == SpecTuple(rules[i])
        b == SpecTuple(rules[j])
    IN  TupleMoreSpecific(a, b) \/ (a = b /\ i < j)

(* sortBySpecificity, as the indexes of the rules: the rule in place k has *)
(* k - 1 before it. *)
BySpecificity(rules) ==
    [k \in DOMAIN rules |->
        CHOOSE i \in DOMAIN rules :
            Cardinality({j \in DOMAIN rules : Before(rules, j, i)}) = k - 1]

NoRule == 0

(* The match stage: the first rule in that order that matches. *)
FirstMatch(rules, q) ==
    LET order == BySpecificity(rules)
        first == SelectInSeq(order, LAMBDA i : MatchRule(rules[i], q))
    IN  IF first = 0 THEN NoRule ELSE order[first]

(* Weights of buckets added up: those of the first i. *)
Cumulative(buckets) ==
    LET sum[i \in 0 .. Len(buckets)] ==
            IF i = 0 THEN 0 ELSE sum[i - 1] + buckets[i].weight
    IN  sum

TotalWeight(buckets) == Cumulative(buckets)[Len(buckets)]

(* Variant: the bounds of the buckets overlap by one. *)
SelectBucketInclusive(buckets, pick) ==
    SelectInSeq([i \in DOMAIN buckets |-> Cumulative(buckets)[i]],
                LAMBDA cumulative : pick <= cumulative)

(* selectBucket for one draw of the random number, as an index: the first  *)
(* bucket whose cumulative weight exceeds it.                              *)
SelectBucket(buckets, pick) ==
    SelectInSeq([i \in DOMAIN buckets |-> Cumulative(buckets)[i]],
                LAMBDA cumulative : pick < cumulative)
=============================================================================
