----------------------------- MODULE Dashboard ------------------------------
(***************************************************************************)
(* The live dashboard: the streamed metrics and the list of unmatched      *)
(* requests, both fed by the middleware around the pipeline.               *)
(***************************************************************************)
EXTENDS UnmatchedRing, MetricsStream

CONSTANT Threads \* goroutines that serve requests

VARIABLE missed \* missed[t]: the request t has counted and not yet listed

dashVars == <<vars, streamVars, missed>>

DashInit ==
    /\ Init
    /\ StreamInit
    /\ missed = [t \in Threads |-> Blank]

(* Middleware.Execute for a request that matched a rule. *)
Hit ==
    /\ Count
    /\ UNCHANGED <<vars, missed>>

(* For one that did not: RecordMiss, then the ring. *)
Miss(t) ==
    /\ missed[t] = Blank
    /\ Count
    /\ \E r \in Requests : missed' = [missed EXCEPT ![t] = r]
    /\ UNCHANGED vars

ListMissed(t) ==
    /\ missed[t] # Blank
    /\ Add(missed[t])
    /\ missed' = [missed EXCEPT ![t] = Blank]
    /\ UNCHANGED streamVars

(* DELETE /api/unmatched. *)
ClearUnmatched ==
    /\ Clear
    /\ UNCHANGED <<streamVars, missed>>

DashNext ==
    \/ Hit \/ ClearUnmatched
    \/ \E t \in Threads : Miss(t) \/ ListMissed(t)
    \/ StreamStep /\ UNCHANGED <<vars, missed>>

(* The ticker fires and the broker goes on; a connected client is read to. *)
Fairness ==
    /\ WF_dashVars(Tick /\ UNCHANGED <<vars, missed>>)
    /\ WF_dashVars(TakeSnapshot /\ UNCHANGED <<vars, missed>>)
    /\ WF_dashVars(Send /\ UNCHANGED <<vars, missed>>)
    /\ \A s \in Streams : WF_dashVars(Show(s) /\ UNCHANGED <<vars, missed>>)

DashSpec == DashInit /\ [][DashNext]_dashVars /\ Fairness

(* Every open stream comes to show all requests, however often its channel *)
(* was full when a snapshot was sent, unless its client goes (Broker.Start *)
(* and metricsStream).                                                     *)
FreshestArrives ==
    \A s \in Streams : stream[s].open ~> (stream[s].shown = total \/ ~stream[s].open)
=============================================================================
