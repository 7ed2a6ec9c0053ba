--------------------------- MODULE MetricsStream ----------------------------
(***************************************************************************)
(* The live metrics of the dashboard (sse.go, metricsStream): once a       *)
(* second a broker takes a snapshot and offers it to the channel of every  *)
(* open stream; a stream that is not read fast enough misses it.           *)
(*                                                                         *)
(* Of a snapshot only the number of requests is left, which dates it.      *)
(***************************************************************************)
EXTENDS Naturals, Sequences

CONSTANTS
    Streams,  \* clients that open the metrics stream
    Capacity, \* of the channel of a stream: 4
    MaxTotal  \* bound on requests

ASSUME StreamAssumption == Capacity \in Nat \ {0} /\ MaxTotal \in Nat

VARIABLES
    total,  \* requests counted by the collector
    broker, \* where the broadcast loop stands, and its latest snapshot
    stream  \* stream[s]: the channel of a client, and what it shows

streamVars == <<total, broker, stream>>

Closed == [open |-> FALSE, channel |-> << >>, shown |-> 0]

StreamInit ==
    /\ total = 0
    /\ broker = [at |-> "idle", snapshot |-> 0]
    /\ stream = [s \in Streams |-> Closed]

(* A request is counted, under the collector's lock. *)
Count ==
    /\ total < MaxTotal
    /\ total' = total + 1
    /\ UNCHANGED <<broker, stream>>

(* With nobody listening the tick is skipped. *)
Tick ==
    /\ broker.at = "idle"
    /\ \E s \in Streams : stream[s].open
    /\ broker' = [broker EXCEPT !.at = "snapshot"]
    /\ UNCHANGED <<total, stream>>

(* Variant: a snapshot like the one before is not sent. *)
TakeSnapshotChanged ==
    /\ broker.at = "snapshot"
    /\ broker' = [at |-> IF broker.snapshot = total THEN "idle" ELSE "send",
                  snapshot |-> total]
    /\ UNCHANGED <<total, stream>>

TakeSnapshot ==
    /\ broker.at = "snapshot"
    /\ broker' = [at |-> "send", snapshot |-> total]
    /\ UNCHANGED <<total, stream>>

(* Under the broker's lock, which opening and closing a stream take too. *)
Send ==
    /\ broker.at = "send"
    /\ stream' = [s \in Streams |->
           IF stream[s].open /\ Len(stream[s].channel) < Capacity
           THEN [stream[s] EXCEPT !.channel = Append(@, broker.snapshot)]
           ELSE stream[s]]
    /\ broker' = [broker EXCEPT !.at = "idle"]
    /\ UNCHANGED total

Subscribe(s) ==
    /\ ~stream[s].open
    /\ stream' = [stream EXCEPT ![s] = [Closed EXCEPT !.open = TRUE]]
    /\ UNCHANGED <<total, broker>>

(* The loop of metricsStream. *)
Show(s) ==
    /\ stream[s].open
    /\ stream[s].channel # << >>
    /\ stream' = [stream EXCEPT ![s].channel = Tail(@), ![s].shown = Head(stream[s].channel)]
    /\ UNCHANGED <<total, broker>>

(* The client disconnects. *)
Unsubscribe(s) ==
    /\ stream[s].open
    /\ stream' = [stream EXCEPT ![s] = Closed]
    /\ UNCHANGED <<total, broker>>

StreamStep ==
    \/ Tick \/ TakeSnapshot \/ Send
    \/ \E s \in Streams : Subscribe(s) \/ Show(s) \/ Unsubscribe(s)
=============================================================================
