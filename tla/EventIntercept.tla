--------------------------- MODULE EventIntercept ---------------------------
(***************************************************************************)
(* The interception of AWS publishes on the mock port (packages awsmsg,    *)
(* eventroute and awsforward): a publish carries one event, or a batch for *)
(* EventBridge, and its entries are resolved one after the other against   *)
(* the event rules in force at that moment.  An entry is forwarded to the  *)
(* real broker or given a made-up id, and captured when a rule matched.    *)
(* The first entry whose forwarding fails ends the publish with 502.       *)
(*                                                                         *)
(* An event is a value; an event rule has the set of events its service,   *)
(* globs, attributes and message expressions accept.  That a publish is    *)
(* recognised by its headers and parses is taken for granted.              *)
(***************************************************************************)
EXTENDS ConfigTransfer

CONSTANTS
    Apps,    \* applications that publish, one call at a time each
    Events,
    Batches, \* the publishes they may send: sequences of events
    MaxAttempts \* of the broker's client at one call: 3, its default

ASSUME EventAssumption ==
    /\ IsFiniteSet(Apps)
    /\ Batches \subseteq Seq(Events)
    /\ MaxAttempts \in Nat \ {0}

VARIABLES
    publish,   \* publish[a]: the call in progress
    captured,  \* captured[e][status]: captures of e as forwarded, by status
    synthetic, \* synthetic[e]: captures of e under a made-up id
    delivered  \* delivered[e]: how often the broker has taken e

eventVars == <<publish, captured, synthetic, delivered>>

NoPublish == [at |-> "idle", entries |-> << >>]

EventInit ==
    /\ publish = [a \in Apps |-> NoPublish]
    /\ captured = [e \in Events |-> [status \in {200, 502} |-> 0]]
    /\ synthetic = [e \in Events |-> 0]
    /\ delivered = [e \in Events |-> 0]

(* Match: the enabled rules that accept the event and impose the most      *)
(* constraints.  The order of rules that impose equally many is the        *)
(* store's; any of them may be first.                                      *)
Accepting(rules, e) == {r \in rules : ~r.disabled /\ e \in r.events}

Match(rules, e) ==
    {r \in Accepting(rules, e) :
        \A o \in Accepting(rules, e) : o.constraints <= r.constraints}

Entry(a) == Head(publish[a].entries)

Publish(a) ==
    /\ publish[a].at = "idle"
    /\ requests + failures < Budget
    /\ requests' = requests + 1
    /\ \E batch \in Batches :
           publish' = [publish EXCEPT ![a] = [at |-> "entries", entries |-> batch]]
    /\ UNCHANGED <<captured, synthetic, delivered, store, handler, pipeVars, strict,
                   failures, overlapped>>

Resolving(a) == publish[a].at = "entries" /\ publish[a].entries # << >>
NextEntry(a) == publish' = [publish EXCEPT ![a].entries = Tail(@)]

(* The outcomes of resolveOutcome that stay inside. *)
Unmatched(a) ==
    /\ Resolving(a)
    /\ Match(live.eventRules, Entry(a)) = {}
    /\ NextEntry(a)
    /\ UNCHANGED <<captured, synthetic, delivered, adminVars>>

Synthesize(a) ==
    /\ Resolving(a)
    /\ \E r \in Match(live.eventRules, Entry(a)) : ~r.forward
    /\ synthetic' = [synthetic EXCEPT ![Entry(a)] = @ + 1]
    /\ NextEntry(a)
    /\ UNCHANGED <<captured, delivered, adminVars>>

(* Forward: the call to the broker.  Its client repeats an attempt that    *)
(* failed, and one that failed may have been taken all the same.  Nothing  *)
(* here can tell the attempts of one call apart: it is one step.           *)
Forward(a) ==
    /\ Resolving(a)
    /\ \E r \in Match(live.eventRules, Entry(a)) : r.forward
    /\ \E taken \in 1 .. MaxAttempts : delivered' = [delivered EXCEPT ![Entry(a)] = @ + taken]
    /\ publish' = [publish EXCEPT ![a].at = "accepted"]
    /\ UNCHANGED <<captured, synthetic, adminVars>>

ForwardFails(a) ==
    /\ Resolving(a)
    /\ \E r \in Match(live.eventRules, Entry(a)) : r.forward
    /\ CountFailure
    /\ \E taken \in 0 .. MaxAttempts : delivered' = [delivered EXCEPT ![Entry(a)] = @ + taken]
    /\ publish' = [publish EXCEPT ![a].at = "failed"]
    /\ UNCHANGED <<captured, synthetic, store, handler, pipeVars, strict, requests, overlapped>>

Capture(a, status) == captured' = [captured EXCEPT ![Entry(a)][status] = @ + 1]

(* After the delay of the rule. *)
ForwardDone(a) ==
    /\ publish[a].at = "accepted"
    /\ Capture(a, 200)
    /\ publish' = [publish EXCEPT ![a] = [at |-> "entries", entries |-> Tail(@.entries)]]
    /\ UNCHANGED <<synthetic, delivered, adminVars>>

(* Variant: a failure is answered before it is captured. *)
ForwardFailedUncaptured(a) ==
    /\ publish[a].at = "failed"
    /\ publish' = [publish EXCEPT ![a] = NoPublish]
    /\ UNCHANGED <<captured, synthetic, delivered, adminVars>>

(* The answer 502: what is left of the batch is dropped. *)
ForwardFailed(a) ==
    /\ publish[a].at = "failed"
    /\ Capture(a, 502)
    /\ publish' = [publish EXCEPT ![a] = NoPublish]
    /\ UNCHANGED <<synthetic, delivered, adminVars>>

(* The answer 200, with the ids. *)
Respond(a) ==
    /\ publish[a].at = "entries" /\ publish[a].entries = << >>
    /\ publish' = [publish EXCEPT ![a] = NoPublish]
    /\ UNCHANGED <<captured, synthetic, delivered, adminVars>>

AppStep(a) ==
    \/ Publish(a)
    \/ Unmatched(a) \/ Synthesize(a) \/ Forward(a) \/ ForwardFails(a)
    \/ ForwardDone(a) \/ ForwardFailed(a) \/ Respond(a)
=============================================================================
