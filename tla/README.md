# Mockwave in TLA+

Models of mockwave, the programmable mock server, with TLC
runs that check them and TLAPS proofs about them. Source paths are relative to
the repository root. `PROJECT.json` relates every definition to the lines it
models, every property to the hazards it is for, and every property to a
variant of the code that it rejects.

```
tlc -workers 2 -config ScenarioControl.cfg MCScenarioControl.tla
tlapm ScenarioControl_proofs.tla
```

## The system

One process (`server/server.go`) serves mock requests and an admin API. Its
goroutines share a handful of objects, and several processes may share a store.

```
 mock clients --> protocol adapter --> active pipeline ----------------+
                                       match route FAULT sim script fwd|
                                            |   |                      v
                        KillSwitch <--------+   +--> ScenarioController   middleware
                            ^                            ^              |    |    |
 admin API --halt/resume----+     start/stop --> runner -+        metrics  ring  capture
   |  write --> store --> bump version                                          buffer
   |  reload -> rebuild: reads the tables, swaps the pipeline              Syncer | ^ hydrate
 reloader --polls version--> rebuild                                           store
```

| Component | State it keeps | Operations | What is hard | What makes it correct |
|---|---|---|---|---|
| Scenario control (`server/server.go`, `internal/chaos`) | generation, cancel function of the active run, overlay, one goroutine per run | start, stop, halt, resume, the runner's phase loop | a stopped goroutine goes on beside the next run; halting is two steps | the slot belongs to the live run; no overlay without a goroutine to clear it; stops take effect |
| Kill switch (`internal/chaos/killswitch.go`) | one flag | halt, resume, read by every request | read before the overlay is | nothing is injected under it |
| Request pipeline (`internal/domain`) | an immutable list of stages per rebuild, a context per request | the six stages | a pipeline is swapped while requests run; a terminal fault must silence the later stages | the most specific rule answers; shares are the weights; exactly one answer |
| Fault stage, retry storms (`internal/chaos/stage.go`, `retrystorm.go`) | counters per key and window | roll each fault, count | concurrent requests of one key, windows, loss at a rebuild | only faults in force; at most `fail_first` per window |
| Capture buffer (`internal/matched`) | lists per rule, a global order, bodies, pending sets, a capacity | add, hydrate, clear, drain, sweep, pages of a list | five indexes updated by different loops; pages of a list that changes between them | the indexes agree; a cursor goes on where its page ended |
| Syncer and hydration (`internal/matched/syncer.go`, `server/server.go`) | the batch of a flush, the rules to hydrate | tick, close, hydrate, restart | two flushes at once, save errors, clears during a save | nothing is forgotten, nothing is saved twice |
| Rebuild and reloader (`server/server.go`, `internal/reload`) | version marker, last version seen, the served snapshot | write, bump, poll, rebuild, swap | tables read without a transaction, rebuilds that race, failures | caught-up pods are fresh; no dangling references |
| Unmatched ring (`internal/unmatched`) | slots, size, head | add, clear, list, deduplicated list | the wrap | it is a bounded log |
| Admin CRUD (`internal/adapters/cfg/restapi`) | none but the store | create, replace, delete and delete all of rules, simulations, profiles, scenarios, event rules | checks made before the write they guard, cascades that read and then delete, calls of the store that fail between two steps, reloads that fail unnoticed or overtake each other | what was written goes live, unless a named failure or an overtaken reload keeps it back; references resolve; a cascade deletes all its rule left behind and nothing another rule needs; duplicates only from a race or an override |
| Import and export (`transfer.go`) | none but the store | select, validate, decide conflicts, write in order, reload | an import that fails half way; references through scenarios | what is exported can be imported; what was written goes live |
| Dashboard metrics (`internal/metrics`) | rings of minutes and of latencies, a broker with subscribers | record, snapshot, tick, subscribe, send | stamps taken outside the lock, full channels | the history holds the latest minutes, percentiles are of the latest samples, the freshest snapshot arrives |
| AWS interception (`internal/adapters/in/awsmsg`) | none but the capture buffer | match, simulate or forward entry by entry, capture, answer | batches that fail half way, a broker that takes an event and yet fails, a client that repeats the attempt | the captures tell what the broker got |
| Store adapters, protocol adapters, scripting, MCP server, command line, UI, observability | connections and files | I/O and translation | | |

## Modules

| Module | Models | State and actions |
|---|---|---|
| `ScenarioControl` | `StartScenario`, `StopScenario`, `ScenarioRunner.Run`, the halt and resume handlers | `scenarioGen` and `scenarioCancel` as in `Server`; a run is its generation number; `pc` says where its goroutine stands. Start and stop hold `scenarioMu` and are one step; each access of the goroutine to the context, the overlay or the slot is one |
| `RuleMatching` | `matcher.go`, `percentile.go` | operators only: match, specificity, the stable sort, the weighted choice |
| `RequestPipeline` | the six stages, `FaultStage`, `retryCounter`, the answer of the HTTP adapter | `ctx[r]` is the `PipelineContext` of a request. Taking the pipeline, reading the switch, reading the overlay and counting a retry are steps of their own; the stages between them read nothing that changes and are operators from a context to the contexts it may become |
| `CaptureBuffer` | `buffer.go`, `query.go`, `request.go` | a buffer is a record, each method under its mutex an operator on it; a page of `List` is one too |
| `CaptureSync` | the middleware's capture, `Syncer`, hydration, admin clears, `Close`, shutdown, restart | uses `CaptureBuffer`; `flush["run"]` and `flush["close"]` are the two flushes that may overlap, each a drain, a save and a sweep |
| `ConfigReload` | admin writes, `bumpVersion`, `Reloader.Run`, `rebuild` on several pods | a table is its revision; a thread is the reloader of a pod or an admin request; each read of a table is a step |
| `ConfigData` | the tables, references and duplicates of `server.go`, `scenario.go` and `transfer.go` | operators only: a table is a set of rows; match criteria are values that are equal or not |
| `AdminAPI` | the handlers of the admin API that write | `handler[c].path` is the list of steps the request of client `c` still has to take, each at most one call of the store, which may fail; references are looked up one by one; a handler is defined by the path it starts with. `rebuild[c]` is what its reload has read so far: `LoadTable` reads the next table, `RebuildFails` drops the error, `Swap` is the locked part |
| `ConfigTransfer` | export, and the commit of an import | an import is one more path of the same handlers; its loop over the rules puts the steps of a rule before the rest of the path |
| `EventIntercept` | `awsmsg/handler.go`, `eventroute`, `awsforward` | `publish[a]` is the batch an application waits for, entry by entry; `delivered` counts what the broker took, `captured` what the buffer was given. A forward is one to `MaxAttempts` deliveries, a failed one none to `MaxAttempts`: the clients come from `config.LoadDefaultConfig`, whose standard retryer makes three attempts |
| `ControlPlane` | the three together | admin handlers and publishes against one `store` and one `live` configuration |
| `Metrics` | `collector.go`, `history.go` | `thread[t]` is a request between counting, taking its stamp and counting in the rings; `log` keeps what each ring was given |
| `MetricsStream` | `sse.go`, `metricsStream` | the broker's loop in three steps, and each client's channel |
| `UnmatchedLog` | what the ring promises | a sequence of the latest `Cap` requests |
| `UnmatchedRing` | `internal/unmatched/buffer.go` | slots, size and head; it implements `UnmatchedLog` with `log <- List` |
| `Dashboard` | the middleware that feeds both | composes `UnmatchedRing` and `MetricsStream`: a request is counted first and listed later |
| `MC...` | TLC instances | constants, and symmetry where processes or rules are alike |
| `FoldLemmas` | | lemmas the proofs share: induction along numbers, sizes, sorting by rank, running sums, what a fold computes |
| `..._proofs` | theorems | |

`CaptureSync` composes the buffer with everything that uses it, `Dashboard` the
ring and the stream with the request threads, and `ControlPlane` the admin
handlers, the import and the interception of events, which share the store and
the live configuration. The other modules meet where one's state is another's
environment: the overlay and the switch that `ScenarioControl` produces are set
freely in `RequestPipeline`, which so covers every order in which runners and
handlers may set them; the snapshots `ConfigReload` serves are the
configurations `Rebuild` swaps in there. A reload is read by read in both
`AdminAPI` and `ConfigReload`: the first has the rows of the tables, the handlers
of one process and what each leaves behind when it fails; the second has table
revisions, the version, several pods and the reloader that polls.

`WritesGoLive` says what a reload is good for, and the code gives no plain answer:
the pipeline is rebuilt without a lock and its error dropped
(`server/admin.go:86`), the handler answering success all the same. So the
property names, in the history variable `unpublished`, the only ways in which the
pipeline may be behind the store while no request is in progress: a write that
reported a failure though it took effect, and a bulk delete or an import that was
given up half way (an import that had written only simulations does not reload),
for the tables these changed; a rebuild one of whose reads failed, for all
tables; and a rebuild overtaken by another, for those tables it had read before
a change the other published. `CaughtUpPodsAreFresh` shows the last of these across
pods. The next reload that runs to its end without being overtaken clears the
record. What is left to go wrong, and what the property and its proof exclude, is
a handler that writes and answers without a reload, or two handlers each of which
leaves the reload to the other.

The properties of `ControlPlane` assume that a store reads what was written last.
The JSON and MongoDB stores do; DynamoDB's `Scan` and `GetItem` are not asked for
consistent reads here, and there a check, a guard, a cascade or a rebuild may miss a
write that was just made. `ReadsLag` of `ConfigReload` is the one model of that.

A definition marked *Variant* is the definition after it with a plausible
mistake (a guard dropped, a reset forgotten, an order swapped). No action of the
models uses one; each property is known to fail when the definition is replaced
by its variant.

## Runs

| Run | Instance | What it shows |
|---|---|---|
| `scenario_control` | three starts, two phases each, one halt handler | the slot is held by exactly the live run, an overlay always has a goroutine that will clear it, no scenario from before a halt survives it, live runs never disturb one another, stops take effect, the slot is freed |
| `scenario_overlay` | two starts | **violated**: the goroutine of a stopped run clears or replaces the overlay of the next one |
| `request_pipeline` | two requests, two configurations, two phases, a clock of one tick | the most specific rule answers, shares are the weights, the switch suppresses, only faults in force are injected, the adapter never lacks a response and a terminal fault is all the client sees, a storm is bounded |
| `pipeline_half_response` | the same without rebuild or clock | **violated**: `halfResponse` never sends a byte |
| `capture_sync` | two rules, three captures, capacity two, failing saves, a client that pages | the indexes agree, bodies have owners, held captures are pending, in a batch, stored, failed or expired, nothing is saved twice, a cursor goes on where its page ended |
| `capture_live` | one rule, two captures, a restart, with and without a store | pending captures are flushed, expired ones swept |
| `capture_clear` | two rules, two captures | **violated**: clearing a rule leaves its captures in the store |
| `config_reload` | one pod that is written through, one that polls, one write per table, a failed rebuild, a crash | the polling pod is fresh when caught up, finds every reference, never goes back, catches up in the end |
| `config_pods` | two pods, each written through | **violated**: two rebuilds of one pod swap in the wrong order and the pod stays stale |
| `control_plane` | two clients with nine requests and one import, one application; three requests or failed calls, two attempts at a forward | references to profiles resolve, cascades delete what they should and no more, the pipeline ends with what the store holds but for the cases below, exports import, captures agree with what the broker got, duplicates have a cause |
| `metrics` | two threads, four requests over four minutes, rings of three minutes and two latencies | the history holds every minute of its window, late stamps cost a bounded number of places, percentiles and rates are those of the recent requests |
| `dashboard` | two threads, a ring of three slots, one stream with room for one snapshot | the ring implements the log and its deduplicated list is complete below concurrent threads; every open stream shows the latest total in the end |

Bounds, and why they are enough:

* `MaxRuns = 3`: a run, the one that replaces it while its goroutine is still
  there, and a third that meets both. Two phases give a first and a last.
* `RequestPipeline`: every shared access is by one request and the environment,
  but for the retry counter, which two requests contend for with `fail_first =
  1`. `MaxTime = 1` with a window of one second lets a window end and restart.
  `MaxBuilds = 2` lets one rebuild come at every point of a request. `FullWeight
  = 3` stands for 100: each draw is a choice.
* `CaptureSync`: `BufferCap = 2`, `MaxId = 3`: the third capture evicts; two
  rules make the global order differ from the lists. Pages of one item, so that a
  full buffer has a next page; a query for all captures and one that reads
  bodies. `MaxInFlight = 1`: captures are added one at a time, in the order of
  their ids, by the instance, though not by the module.
* `ConfigReload`: `MaxWrites = 1` per table: one write that the pods must see;
  the races are between a write and the reads around it. Both tables being
  written gives the references something to lack.
* `ControlPlane`: `Budget = 3` bounds requests and failed calls together: two
  requests that overlap and a third, or two and a failure, or one with two. The
  requests of `MCControlPlane` are chosen so that each pair touches the same rows:
  a rule that takes over another's criteria, simulations shared by two rules, a
  profile that two rules and a scenario name, a file with a rule that conflicts
  by id, or by match once another rule was posted, and is overridden, and one that
  conflicts by match and is skipped. `MaxAttempts = 2` for 3: an event is
  delivered more often than it is captured. (770 thousand distinct states.)
* `Metrics`: `Slots = 3` for 30 and `Samples = 2` for 2048, `MaxMinutes = 3` (four
  minutes) and `MaxHits = 4`: both rings wrap, one stamp comes late while another
  thread opens one or more newer minutes.
* `Dashboard`: `Cap = 3` with requests of two keys: full, wrapped and cleared at
  every index. `Capacity = 1` for 4: the channel is full at every send that is not
  read in time. `MaxTotal = 4`: the requests counted.

`CHECK_DEADLOCK FALSE` is set where a bound ends the behaviour (no more
captures, requests or builds), not where the code may stop.

## Fairness

* `ScenarioControl`: weak fairness of each goroutine. Go schedules runnable
  goroutines and timers fire; no admin request is assumed.
* `CaptureSync`: weak fairness of each flush and of the memory sweep: they are
  ticker loops. Requests, clears, `Close` and shutdown need not happen.
* `ConfigReload`: weak fairness of each reloader's poll, of a rebuild it began,
  and of the start of a pod that is down (the orchestrator). Nothing is asked of
  admins; failures are bounded, so they cannot go on for ever.
* `Dashboard`: weak fairness of the broker's ticker and of its two steps, and of
  the loop that writes to a connected client. Requests, clears and clients need
  not come, and a client may leave.
* The other modules state safety only.

## Proofs

Every theorem holds for all values of the constants under the module's
`ASSUME`, which TLC evaluates on every run.

| Theorem | From | Argument |
|---|---|---|
| `ScenarioControl_proofs!TypeCorrect` | `ScenarioAssumption` | inductive as it stands |
| `SlotCorrect` | | `SlotInv`: runs above the generation have not started, and a held slot holds the latest generation. Without the second, the guard of the goroutine's tail (`scenarioGen = g`) would say nothing of the slot |
| `OverlayCorrect` | | with the types: only a goroutine in its loop installs, and it clears before it finishes |
| `HaltCorrect` | | over `SlotInv`: after `HaltStop` no run is live, and a start while halted is born halted |
| `OverlayDisplacement` | | the action property from `SlotInv`: the run that moves when the overlay changes is stopped, or is the one live run, whose overlay it was |
| `ConfigReload_proofs!TypeCorrect` | `ReloadAssumption` | inductive as it stands |
| `ReadersAreFresh` | `~ReadsLag` | `FreshInv`: the data is never behind what the version marks and no pod has seen a version that is yet to come (`BumpedLast`); and what a reloader has read since it saw the current version covers what that version marks (`FreshAt`). The second part carries the claim from the poll, table by table, to the swap, and a later bump only makes its premise false |
| `ReferencesAreServed` | `~ReadsLag` | `RefInv`: a snapshot, read or served, has references at least as new as its rules' were. It holds for every pod and however rebuilds race, since each snapshot is sound by itself: rules are read first |
| `ReadersGoForward` | `~ReadsLag` | `ForwardInv`: of a pod that only polls, the snapshot it serves is no newer than the tables, nor than what its one rebuild has read so far |
| `Dashboard_proofs!TypeCorrect` | `RingAssumption` | arithmetic of the wrap |
| `RingImplementsLog` | `RingAssumption` | each `Add` maps to an `Add` of the log, by cases on a full ring and on the wrap |
| `DedupCorrect` | `RingAssumption` | the walk of `ListDeduped` from the newest request back is a run (`WalkRuns`, see below), and after each step what was kept is exactly the last occurrences met so far, each in its place (`Walked`). The counts are a running sum, and a request is counted with the one last occurrence of its key |
| `DashboardImplementsLog`, `DashboardDedups` | `RingAssumption` | `DashIsRing`: whatever the request threads, the admins and the streams do, the ring takes a step of its own or none, since a thread lists only a request it met (`MissedType`). So the two results above hold of `DashSpec`, which the run checks |
| `StreamsGoForward` | `StreamAssumption` | `StreamInv`: what a stream shows, what waits in its channel and the broker's snapshot are in order of their totals. A snapshot that found the channel full leaves a gap, never a step back |
| `Metrics_proofs!TypeCorrect` | `MetricsAssumption` | inductive as it stands |
| `PlacesBounded` | `MetricsAssumption` | a potential: a ring is in debt for one place while its current place is older than the newest minute (`Owed`), `Latest` says that no place is of a minute newer than any seen, and `Frugal` that places opened and owed are at most the minutes met and two per late stamp. The bound without the debt is not inductive: the stamp after a late one opens a place for a minute that has one |
| `HistoryCorrect` | `MetricsAssumption` | the same potential place by place: `Paid` says that a place used for minute m is no older, in places opened since, than the minutes newer than m and two per late stamp. A stamp that opens a place pays for it with its minute, with being late, or with the place owed (`AgePaid`), and the place used again is as old as the ring is long. So a minute within the window loses no count, and since one place changes, the sum over the ring changes as that place does (`SumsDiffer`) |
| `SnapshotCorrect` | `MetricsAssumption`, `Slots > 1` | `RecentInv`: read from its own index on, the ring of latencies is the latest of all latencies in their order (`InTurn`), and while no stamp came late no minute has two places and the current one is that of the newest (`Sharp`). A percentile is then a matter of counting: the value in the rank's place of the sorted samples has fewer than the rank below it and at least the rank at most it. With a single place the hit of the minute under way overwrites the last full one, and the claim about the rate is false; the code has 30 |
| `CaptureSync_proofs!TypeCorrect`, `OrderCorrect`, `BodiesCorrect`, `SafeCorrect`, `SavedCorrect` | `BufferAssumption`, `SyncAssumption` | one invariant, described below |
| `PagesCorrect` | the same | the action property from the types alone: whatever the step was, it leaves some list of captures. None of it held twice, the sort of `List` is a strictly falling rearrangement of it (`NewestFirstFacts`), what stands behind the cursor is what is older (`AfterFacts`), filtering keeps a falling list falling (`OnlyFalls`), and a page is a prefix of that |
| `ControlPlane_proofs!PublishedCorrect` | `AdminAssumption` | `PathInv`: every path has its checks first, one reload, and that at its end (`Orderly`), so that a handler past its first write has a reload still to come or owns up to what it leaves (`Late`). `LiveInv`, described below, adds the reads of the reloads under way |
| `CascadeCorrect` | `AdminAssumption` | `SweepInv`: what a cascade is about to delete, no rule it read refers to. It rests on `PathInv`: only the head of a path is a sweep, so no step leads into one but the read |
| `ProfilesResolve`, `CascadeCompletes` | `AdminAssumption`, `ImportAssumption` | `DataInv`, described below |
| `ExportImports` | the same | over the part of `DataInv` that holds of the store whatever overlaps: ids are keys. An export collects what its rules name among what is stored, and that is what the validation of an import looks for |
| `DuplicatesExplained` | the same | the action property from `DataInv`: only a step that writes a rule adds one, and when it does its handler, alone, still has in hand the rules it checked against |
| `BracketCorrect` | `EventAssumption` | the bracket itself with the types, for any `MaxAttempts`: each step of an application moves one entry of one call, and the cardinality of the calls that wait for the broker with it changes by at most one; the library's facts on finite sets count it. A call adds at most `MaxAttempts` deliveries and one to what is captured or about to be |
| `RequestPipeline_proofs!TypeCorrect` | `PipelineAssumption` | `SoundInv` and bounds on the clock and the counters |
| `HaltCorrect` | | `ContextInv`: a request the switch has covered so far stands before the switch, which is halted, or past the faults (`Silent`). Nothing is asked of matching or routing |
| `AnswersCorrect` | | `ContextInv`: until a terminal fault nothing has answered, and after it the stages have nothing to add (`OneAnswer`) |
| `StormsCorrect` | | `StormInv`: an entry counts at least the failures of its window, and no failure of a key lies beyond the window its entry counts (`StormsCounted`). The second is what the first needs when a window ends: the one that opens next leaves all failures behind. It holds where the faults that share a key agree on the window |
| `SpecificityCorrect` | | `SoundInv`: the rule of a request is the first match in its own pipeline (`Picked`); and the comparison of rules is a strict total order, so that every rule has a place of its own and the first match none before it |
| `FaultsCorrect` | | `SoundInv`: until the stage decides, the profile of a context is that of a bucket of its rule; after that, the one in force under an overlay of its time; and what was injected comes from such a profile (`InForce`) |
| `SharesCorrect` | | for all weights: the cumulated weights cut the numbers below the full weight into intervals as long as the weights |

`LiveInv`. A table of the pipeline is as it is stored, or on record as unpublished,
or some handler that has not answered will read it again or has read it as it is
stored (`Covered`); and whatever another reload has read is as it is stored, or
marked as overtaken, or there is such a handler (`ReadCovered`). The second is what
a swap needs: it may put an old table in only while a handler is under way that puts
the stored one in afterwards, or else the table was marked, and goes on record. Which
handlers have to reload is less than `Late`: a bulk delete or an import that wrote nothing
does not, and one that wrote only simulations only if it saves their rule (`MayOwe`).

`DataInv`. Two requests that overlap break almost everything a handler knows,
and `ControlPlane` has a flag, `overlapped`, for that. `DataInv` says what stays
true in any case (ids are keys of every table, each handler's payload fits its
request) and, while requests have not overlapped, what a handler that stands at
some step has learnt from the steps behind it: past the reference check, that the
profiles its rule names are stored; past the guard of a deletion, that no rule
names the profile; between the reading of a rule and its write, whose simulations
it owned; in the loop of an import, that every profile the rest of the file names
is stored or in the file. What is behind is told by what is left: the steps have
an order (`Rank`), every path is sorted by it, so a step that is not left and
whose path had it has been taken. The initial stores are any in which ids are
keys and rules find their profiles (`AdminAssumption`), which is what the stores
guarantee and `ProfilesResolve` then preserves.

`CaptureSync`. The invariant says where a capture may be. Its id names it and was
drawn once (`Named`); it is with its handler, pending, in the batch of one of the
two flushes, or in the store or the page that was read from it, and in one of
those only (`Apart`); what the buffer holds is pending, or in a batch, or was
saved, or failed, or has expired (`Remembered`); what is pending is held once,
with its body (`Tracked`, without which a flush would drain a capture whose body
an eviction has dropped: a capture that hydration put in twice loses its body
with its first copy, and the invariant knows that only stored captures are held
twice); bodies have owners (`Owned`); a batch has the bodies of its captures and
the store what it was given (`Delivered`). `SavedOnce`, `BufferedIsSafe` and
`BodiesAreOwned` follow. The methods that drop captures are one relation, `Fewer`
(what is left is as pending and has as much of a body as before), which is
transitive, so that an eviction loop, a clear and a sweep need one lemma each and
the rest of the state is argued once. `OrderMirrorsRules` is not inductive by ids
only: `Mirrors` says that the list of a rule is the global order with the refs of
the other rules left out, and removing the first match from both sides keeps it.

The loops of the code are folds, and a fold over a sequence is proved to be a run:
a function from the places of the sequence to the values the loop goes through
(`FoldRuns`). What a loop does is then an induction over a number, which needs no
induction principle with an operator as parameter: the set of places where a claim
holds is a set, and its least counterexample is one that a step refutes (`Climb`).

Rules and captures are sorted by rank: the element with k - 1 before it comes k-th.
That such a definition names one element for each place, and loses none, is shown
once for any strict total order (`RanksSort`), and used for the rules of a pipeline
and for the pages of captures.

Every invariant and every action property the runs check is the property of a
theorem. Only model-checked is all liveness (`StopTakesEffect`, `SlotIsFreed`,
`PendingIsFlushed`, `ExpiredIsSwept`, `BumpedWritesReachReaders`,
`FreshestArrives`), which needs fairness and ENABLED; and for pods that are written
through, or stores whose reads lag, nothing of freshness is claimed.

`ReadsLag = TRUE` is in the model for a store whose reads may miss the latest
write (DynamoDB's default reads). The freshness theorems exclude it by their
premise, and it is not claimed that the code is fresh there.

## Divergences from the documentation

Shown by a run: `scenario_overlay` (docs/chaos.md:284), `pipeline_half_response`
(docs/chaos.md:56), `capture_clear` (docs/matched-capture.md:176), `config_pods`
(docs/kubernetes.md:220).

Seen while modelling, without a run. Captures:

* `Hydrate` appends a newest-first page behind captures already taken, so a full
  buffer may evict a newer capture before an older one (docs/matched-capture.md:326).
* Captures whose save failed are neither pending nor saved again
  (`internal/matched/syncer.go:65`), against docs/matched-capture.md:326, "Store
  save errors are retried on the next sync tick".
* The program's shutdown (`server/admin.go:122`) does not close the syncers, so
  the captures of the last interval do not "survive a restart"
  (docs/matched-capture.md:309); the model has the shutdown as it is.
* Hydration asks for as many captures as the buffer holds, and each backend caps
  the page (`internal/matched/query.go`), against docs/event-capture.md:297. The
  model has the cap as `PageLimit`.
* Without a durable store nothing drains the dirty sets of the buffer.
* A capture that is held twice, because it was listed by the hydration after it
  was flushed, makes a cursor repeat at a page boundary; evicting one copy drops
  the body of the other. A cursor whose capture was evicted or cleared meanwhile
  gives an empty last page (docs/matched-capture.md:199).
* The detail of a hydrated capture warns that its body was evicted although the
  store has it (`matched_handlers.go:65`).

Requests and faults:

* A new retry counter comes with every rebuild, so any edit of the configuration
  restarts the storms docs/chaos.md:58 describes as passed; an entry is never
  removed before. `domain/model.go:223` calls the window sliding; it is fixed.
* The key of a retry entry does not name its fault: two `retryStorm` faults with
  different windows share an entry, one ends the window of the other, and more
  than `fail_first` requests may fail in the longer one. `StormIsBounded` speaks of
  faults that agree on the window.
* A modifier does nothing beside `hang`, `reset` or `halfResponse`, and
  docs/chaos.md says it combines with anything.
* `domain/model.go:34` gives `/api/**` as a glob; `path.Match` takes `**` for `*`.

Configuration:

* docs/kubernetes.md:228 says cosmos reports no config version; its store is the
  MongoDB one, which does.
* When the bump fails after a write, the write stays and is seen with the next
  bump only. Deleting all rules without success half way does not reload either.
* A rebuild that fails after an admin write is not reported: the request is answered
  201, 200 or 204, and the pipeline keeps what it had until the next reload. Two
  rebuilds may swap in the opposite order of their reads, and the older stays.
* A rule posted with the id of a stored one replaces it without the cascade of a
  replacement; no save of a rule checks that its simulations exist.
* The guard of a profile's deletion looks at rules and not at scenarios, whose
  phases may be left naming it.
* An import writes the profiles its rules name, not those only its scenarios'
  phases name, so a scenario may arrive without its profile (docs/chaos.md:363); it
  also writes the scenarios of rules that were skipped. The cascade of an override
  may delete a simulation only the store has that a later rule of the file names.
  An override by id may store the match criteria of a third rule a second time,
  and one rule that is stored may be deleted again by a later override that
  conflicts with the rule it replaced.

Events and metrics:

* docs/event-capture.md:156 says event rules are evaluated in order; the matcher
  tries them by the number of their constraints.
* One captured forward may be up to three deliveries, and one captured as failed
  any number from none: the SDK's retryer repeats an attempt whose answer was lost.
* An EventBridge batch whose forwarding fails half way is answered 502 and
  nothing says which entries were delivered: a client that repeats it repeats them.
* A late stamp opens a second place for its minute, so the history is not strictly
  chronological. The rate of an idle rule stays that of its last active minute.

## Plan

Modelled first was what requests meet (scenario control, the pipeline, captures,
reload), then what the control plane does to it (admin CRUD, import and export,
event interception), then what observes it (metrics, the dashboard). What is left:

1. *Stale reads in the control plane*: `ReadsLag` in `AdminAPI`, to say which of its
   properties a store without consistent reads keeps.
2. *Event captures*: both hydrations of one process and the `hydrateCancel` they
   share.

## Not modelled

Wire formats, templates, scripts, forwarding I/O, the JSON file store, the MCP
server, the UI and observability: stateless translation or I/O. Response bodies,
delays and status codes: no property is about them. The preview of an import and
the two formats of its file: a read and a translation. The detection of AWS
services and the signing of what is forwarded. Event captures as a buffer: the same
code on a second buffer; what is not covered is the `hydrateCancel` the two
hydrations share.
