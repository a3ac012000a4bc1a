# OpenShift update experience: specification and proofs

TLA+ modules of the controllers that watch an OpenShift cluster during an
update and publish what they see as *progress insights*, with TLC
configurations that check them on small instances and TLAPS proofs of all the
safety properties that those runs find to hold. Paths below are relative to the repository (`src/`).

## 1. The system

One process (`cmd/main.go`) runs several controller-runtime controllers
against one informer cache and one API server.

| Part | State it keeps | Operations |
|---|---|---|
| **Node evaluation** `internal/controller/nodestate/{assess,conditions,state}.go`, `internal/mco` | none (pure), but conditions of one evaluation feed the next | `EvaluateNode`, `DetermineConditions`, `ComputeHash` |
| **Central node state controller** `internal/controller/nodestate/{impl,caches}.go`, `internal/controller/centralnodestate_controller.go` | selector cache, version cache, store of node states, two bounded channels, work queue, one queue per watch | six watches with their predicates and handlers, `requestsForAllNodes`, `Reconcile`, `Notify...Controllers` |
| **Node state provider** (`nodestate.Provider`) | what the above shows of itself: store and channels | `GetNodeState`, the two channels |
| **Node progress insight controller** `nodeprogressinsight_controller.go` | its work queue; the insights live in the API server | `reconcileWithProvider`: get, delete, create, update status |
| **Machine config pool insight controller** `machineconfigpools/`, `machineconfigpoolprogressinsight_controller.go` | insights of pools, summarised from `GetNodeStatesByPool` | `Reconcile`, `AssessPool` |
| **Cluster version insight controller** `clusterversions/`, `clusterversionprogressinsight_controller.go` | one insight, its health insights, the last observed progress (in the insight itself) | `Reconcile`, `assessClusterVersion`, `hasSignificantDifference` with its 30 s tolerance, `reconcileHealthInsights` |
| **Cluster operator insight controller** `clusteroperators/`, `clusteroperatorprogressinsight_controller.go` | one insight per operator | `Reconcile`, `assessClusterOperator`, `allClusterOperators` |
| **Client** `cmd/oc-update-status` | none beyond one run | `Run`: four lists, and what is shown of them |
| **Legacy node reconciler** `nodes/impl.go` | none in use: superseded by the central controller | |
| **Manager** `cmd/main.go`, **API types**, **metrics** | flags, certificates; declarations; counters | |

How they interact. Nodes, MachineConfigPools, MachineConfigs and the
ClusterVersion reach the central controller through watches. Each `Watches()`
registers a listener with the informer, and client-go gives every listener a
queue and a goroutine of its own; a listener calls the handler, which changes
a cache and puts *all* nodes on the work queue if the change matters. One worker
takes nodes off the queue, reads five things one after the other (node, selector
cache, pool, ClusterVersion, version cache), evaluates, and, if the hash of the
result is new, stores it and does two non-blocking sends. The sends wake the
insight controllers, which read the store *later* than the announcement and
write to the API server through calls that may conflict or fail.

What is hard here, and what the properties are about:

- *Interleaving of watches.* A deletion and an update of one object go through
  different goroutines; caches are filled while nodes are reconciled already;
  every read of `Reconcile` may be stale by the next. Correct: once everything has been
  handled, caches and store agree with the cluster.
- *Change detection by hash.* An evaluation with the hash of the stored
  one is thrown away, so the hash has to cover what is shown, and must not
  change when nothing did: conditions are carried over, taken out and appended.
- *The update protocol of a node.* Annotations are written one after the other
  by other processes; an evaluation may come between any two. Correct: Completed
  means the node runs the target version.
- *Lossy announcements.* Full channels drop, restarts forget, removals are not
  announced. Correct: insights nevertheless come to mirror the store.
- *Calls that fail, half-fail or conflict.* A created insight is empty until a
  second call; an answer may be lost after the call succeeded. Health insights are
  a set that is diffed and written one call at a time.
- *Status computed from status.* Transition times and the last observed progress
  are taken from the previous status, read from an informer that lags, and times that
  differ little are not written. Correct: a time moves only with what it dates.
- *Wake-ups that are filtered.* Predicates and labels decide who hears of what.
- *A reader that makes several lists.* The client combines insights of
  different moments. Correct: it makes nothing up, and is right about a cluster
  that holds still.

The full list, line by line, is `hazards` in `PROJECT.json`.

## 2. Modules

    NodeAssessment ──── NodeUpdate                 evaluator; evaluator over an update
          └──────────── CentralNodeState           the central controller
                             │ implements
                        StateProvider              what it promises (abstract)
                             │ is extended by
              ┌──────────────┴──────────────┐
        NodeInsight        PoolAssessment ─ PoolInsight
        the node insights                   the pool insights

    Conditions ── ClusterVersion ── ClusterVersionAssessment ── ClusterVersionInsight
        │               └──────────────────────┐
        └── ClusterOperatorAssessment ── ClusterOperatorInsight

    UpdateStatus: the client's run, over StatusDisplay (what is shown) and all
      four assessments (what the controllers write)

    *_proofs                                       TLAPS
    MC_*                                           instances for TLC

- **NodeAssessment**: operators only. `EvaluateNode` is
  `DefaultStateEvaluator.EvaluateNode` with the Machine Config Operator's helpers
  beneath it. A message is the set of facts it reports, a condition's `why` its
  reason and message, time a number with 0 for Go's zero time. `ComputeHash`
  keeps what the code's hash has and no more: the sequence of fields written,
  where an empty field leaves no trace and times are not written. `Shown` is what an
  insight shows of a state, times left aside.
- **NodeUpdate**: one node with its pool, the version cache and the target, all
  changed by the (external) Machine Config Operator, kubelet, administrator and
  cluster-version operator in the order their protocol has. `Evaluate` is
  `Reconcile` seen from the evaluator: conditions of the stored state go in, the
  result is stored if its hash is new.
- **CentralNodeState**: `nodes`, `pools`, `configs`, `clusterVersion` are the
  informers' view. `poolEvents`/`poolDeletions` and
  `configEvents`/`configDeletions` are the queues of the pairs of listeners; a pool event
  carries the selector it had *then*, because the handler ingests the
  event's object and not the current one. `listing` holds the handlers between the
  change of a cache and `requestsForAllNodes`. `pc`, `item`, `got` are the
  worker's place in `Reconcile` and what it has read. Predicates are in the guard
  of the action that makes the event, or in the handler's condition where predicate and
  handler test the same thing. `overtaken` and `unheeded` are history variables: no
  action reads them. So is `missed`: a list of `requestsForAllNodes` that fails is logged and
  forgotten (`ListFails`), and these are the nodes it would have requested.
- **StateProvider**: store, channels and what is still to be announced. States
  are stored before they are announced, and announced before the next is stored;
  full channels drop; removals are silent; a restart loses everything.
- **NodeInsight**: extends StateProvider with the insights in the API server, an
  informer that lags (`cached`, `unseen`), the work queue and the worker's calls.
  `Answered` lets a call succeed and its answer get lost; `CallFails` lets it do
  nothing. `Meddle` is another client. `unannounced` and `gone` are history.
- **PoolAssessment**: operators only: summaries, assessment in its order of
  precedence, completion, the two conditions and how the previous status hands
  down their transition times. A pool's name and its scope are left out, and a node's
  conditions are the two booleans the summaries look at.
- **PoolInsight**: extends StateProvider with the pools, the insights in the API
  server and the informer's copies of them. Unlike NodeInsight it keeps the copies'
  contents: `Reconcile` takes transition times from the copy it read and skips the
  update if that copy says the same already. `spec`, `copy` and `plan` are the
  pool, the insight and the status of lines 61, 71 and 105 of `impl.go`.
  `unheard` is history: pools a node left, or whose announcement was dropped.

- **Conditions**, **ClusterVersion**: operators only. A condition carried over by
  `meta.SetStatusCondition`; the ClusterVersion with what the (external)
  cluster-version operator may make of it next, including an operator whose Progressing
  condition is at odds with its history, and `internal/clusterversions/predicates.go`.
- **ClusterVersionAssessment**: operators only. The code's estimate is kept with its
  edges: a zero start makes a difference saturate and the product wrap
  (`Since`, `Wrap`, at `MaxDuration` ticks in place of 2^63 ns), what is overdue is
  shrunk and not stretched. The fitted polynomial of `timewiseComplete` is the
  constant `Timewise`, which the instance gives at the share it meets. `Percentage` is
  `int32(float64(u) / float64(n) * 100)`: it rounds down, and one further where the share is
  29, 57 or 58 percent exactly, as these doubles times 100 fall just short (29 of 50 is shown
  as 57). That list is a fact about binary64 that was computed for every share of up to 3000
  operators; two operators do not meet it, and the theorems do not depend on which numbers
  are on it beyond 0 and 100 being none of them. Durations are whole
  ticks, longer than the second the code rounds to.
- **ClusterVersionInsight**: `cv` and `operators` are the informers' view; `insight`
  and `health` are what the API server holds, `copy` and `listed` what the informers
  have. `todo` is the diff of `reconcileHealthInsights`; each call is an action that may
  fail, be refused or lose its answer without keeping the others from being made. Health
  insights are created without their status, because it is a subresource. `Collect` is
  the garbage collector. There is one ClusterVersion, so the work queue is `dirty`.
  `clock` counts ticks; `MaxDuration` is far beyond it (`HorizonAssumption`), so that what
  wraps is what the code makes of a zero start, and never an estimate of a real update.
- **ClusterOperatorAssessment**, **ClusterOperatorInsight**: likewise, per operator.
  `listing` is the handler between the ClusterVersion's event and its list of operators,
  which may fail. `unheard` is history. Messages of conditions are left out: an
  operator that only changes a message is one that does not change.
- **StatusDisplay**, **UpdateStatus**: the client. `Run` is one action per list; in between the
  cluster changes, and controllers (abstracted to: write what the assessment says)
  catch up, each insight by itself, or insights are lost and come back blank. `header`, `nodes` and `rows` are
  the three parts of the screen. Of the first list `header` has what is displayed of
  it (`Glance`). `Line` is the place of a node among those the client lists, which decides
  with `MaxLines` whether it may be left out (`OmittedLines`). `steady` is history: the insights were right at
  the start and nothing has changed since. Durations, estimates, wording and the
  tables of `--details` are left out.

Left out everywhere: logging, metrics, wording, collisions of FNV-64. Left out
of the evaluator: annotations that are present but empty (the Machine Config
Operator never writes one), and helpers that nothing calls. In CentralNodeState:
the informers' 10 hour resync, which would only add evaluations and, in
particular, would hide for good whatever is lost in between; and the reading of
one `sync.Map` while it changes: `WhichMCP` and `VersionFor` see one state of the
cache, and `Evaluate` reads the versions at one moment. The internal buffer of
`source.Channel` is merged into the channel. In NodeInsight, of the informer's
copies only existence and being current is kept, since Reconcile overwrites the
status whatever it was. In PoolInsight an informer that lags skips to the newest
version when it syncs, and `GetNodeStatesByPool` sees the store at one moment.

## 3. Runs

All bounds are constants in the `.cfg` files. `MaxChanges` bounds the steps of
the outside world (changes of the cluster, failed calls, restarts) and
never the system's own; as the world stops when they are used up, the system may
come to rest, and the configurations say `CHECK_DEADLOCK FALSE`.

| Run | What it shows |
|---|---|
| `node_update` | Six steps of the outside world take a node through a whole update (retarget, work, drain, cordon, reboot, finish), with evaluations anywhere between. Exactly one condition of each type; transition times kept (`TransitionTimesKept`); equal hashes show equal states (`HashDetectsChange`); an unchanged node is published at most twice (`SecondEvaluationSettles`); Completed means on target, once the node has been drained (`CompletedRunsTarget`). The node starts never drained or back from an earlier update's drain, so that second updates are met too. `MaxClock` 2 tells before from after. |
| `central` | One node that fits one or both of two pools with four shapes (wide, narrow, paused, unconvertible selector), two configs, two versions, two changes, including a restart, a failed read and a failed list. Quiet caches agree, and a quiet store has what the evaluator would say now. One node is enough, as evaluations of different nodes share only caches, which nodes do not change. |
| `central_live` | Two nodes, channels of capacity 1 so that announcements are dropped: every step is a step of StateProvider (`ImplementsProvider`), and the store becomes up to date when the world stops (`EventuallyUpToDate`). |
| `node_insight` | Two nodes and a channel of capacity 1, two publications, failures, meddlings or restarts in any mix, starting from whatever insights an earlier process left. Insights that do not mirror the store are on somebody's list (`MirroredOrPending`), and end up mirroring it: what was never announced can only make an insight miss, never be wrong (`EventuallyMirrored`). |
| `pool_insight` | Two pools that come and go, are paused and share a node; two changes of any kind. Insights that do not summarise the store are on somebody's list (`SummarisedOrPending`), and when all is quiet none is wrong (`QuietMeansSummarised`), but for pools a node left unannounced. `MaxClock` 1: time plays no part. |
| `pool_insight_times` | One pool of two nodes, so that completion is neither 0 nor 100, and a clock that may advance once anywhere. Stale reads never move a transition time (`TransitionTimesKept`), and every insight ends up right, since both pools and insights are resynced (`EventuallySummarised`). |
| `cluster_version` | Two versions and two operators, two steps of time or of the outside world, from any state of an earlier process, also in the middle of an update. `Steps` are 1 tick (within the tolerance: half a minute is 2 of the 4 ticks of `Minute`) and 1500 (past the 10 minutes and the hour the estimate distinguishes). When all is quiet the insight says of the ClusterVersion and the operators what the assessment would say now, each time to within half a minute; only the estimate is the one of the last look at the clock (`looked`), as time alone wakes nobody (`QuietMeansReported`), and the health insights are the desired ones and filled, but for those whose creation or removal nobody hears of (`QuietMeansDiffed`), which the resync mends, as it does the estimate (`EventuallyReported`). Completed goes with 100 percent and a date (`StoredMakesSense`). No stale copy moves a time (`TimesMoveWithWhatTheyDate`). |
| `cluster_operator` | Two operators with two reports, two steps. Quiet insights say what they should although a list failed elsewhere (`QuietMeansAssessed`), and the insights that say Updated are those the cluster version's completion counts (`CountsAgree`), a claim about two controllers with two predicates and two definitions of updated. |
| `update_status` | The client over two operators, two control plane nodes of which one is listed regardless (`MaxLines` 1 instead of 10: left-out lines happen), three workers. One step of the cluster or lost insight anywhere before, between or after the lists, with any number of controller writes, one insight at a time. The nodes start before or after their drain and broken after it, every other mix being a step away; operators are interchangeable and so are workers, hence `SYMMETRY`. A screen of a cluster that holds still is true of the *cluster*, through evaluator, assessment and display (`SteadyMeansTrue`), "updated" in it meaning the evaluator's Completed and completion a whole percentage next to the share of updated operators; trouble is not left out (`TroubleIsShown`); mixed moments make nothing up (`NothingMadeUp`); counts are never too high and too low by at most one per hundred nodes that the pool has or begins, so by one here (`CountsClose`: from three nodes on, hence three workers). |

A mutation that showed nothing is worth knowing: dropping the retry after a
conflict in PoolInsight violates none of this, as the write that caused the
conflict reaches the informer and puts the pool back on the work queue anyway.

Three statements of the repository's comments and tests are refuted by a run
each; `findings` in `PROJECT.json` quotes them:

| Run | Refuted |
|---|---|
| `node_update_completed` | "Default to drain process so that we don't report completed": a node that was never drained is reported Completed when its update begins. |
| `node_insight_restarted` | "might be deleted or not belong to any MCP": or the store is not filled yet, after a restart. |
| `update_status_counts` | "Calculate updated count from completion percentage": rounded down twice, one node of three is shown as "33% (0/3)". |

Other disagreements between documents and code, met while modelling and modelled as the
code has it; no run is spent on them:

- "PoolRef.Name must match an existing MachineConfigPool" (data-model.md): an update
  handled after the deletion puts a pool back in the cache for ever (`overtaken`).
- "immediately re-evaluates all nodes affected" (spec.md): a pool that is paused changes
  no selector, and no node is evaluated (`unheeded`).
- "Master pool takes precedence" (`caches.go`): over worker, and not over a custom pool
  that is visited first (`WhichMCPs` is a set).
- "downstream controllers will reconcile eventually" (`impl.go`): not if the
  dropped announcement was the node's first (`unannounced`).
- Events of health insights are let through with the label
  `clusterversionprogressinsight`, and the label that is set is `clusterversion`
  (`SyncHealth` wakes nobody). A health insight is created with a status that the API
  server drops, so that its required fields stay empty until a later reconcile
  (`unlisted`).
- `assessClusterVersion` "does not take previous status insight into account": it does,
  for the last progress and the condition. Metadata of the previous version is not
  compared (`Content`): an update that turns out partial is written with the next difference.
- Completion of an Unknown update that has all its operators is 100 too, and its
  estimate is off by centuries.
- `AssessPoolFromNodeStates` "preserves condition LastTransitionTime from previous status
  when condition content hasn't changed" and, lines 54-57, updates it "if the condition
  changed": `meta.SetStatusCondition` moves the time with the status only, so a pool whose
  Healthy goes from NoNodes to NoProblems keeps it. `TransitionTimesKept` of PoolInsight
  states what the CRD says of the field, "the last time the condition transitioned from one
  status to another", which the code does.
- `requestsForAllNodes` comes after the cache has changed and has no error to return: when
  its list fails, the event is used up and no node is evaluated (`missed`).
- `WriteNodes`: "Display nodes in undesired states regardless their count", and yet a
  degraded node is not shown when all nodes are updated (`TroubleIsShown` says so). A pool
  insight whose status is not written yet is shown as a row without a name.

The passing properties state the exceptions these make and nothing wider:
`overtaken` are objects with a deletion and another event handled side by side,
`unheeded` pools changed without a change of selector, `missed` nodes that a failed list did
not request and nothing has since, `unannounced` nodes whose
state was removed or whose announcement was dropped, `unheard` the same for pools.
`HashDetectsChange` leaves transition times aside: insights show them, the hash does
not cover them.

### Fairness

`CentralNodeState!Fairness`: listeners and workers are goroutines that run
whenever they can (WF on handling, on the worker and on the receivers). The work
queue is first in, first out, so a node in it is taken even if others keep coming:
SF on `Begin(n)`. No fairness on anything the outside world does, failures included:
there are finitely many of them. `NodeInsight!Fairness`: the same, plus an
informer that keeps up (`Sync`) and resyncs now and then (`Resync`, every
10 hours by default). `PoolInsight!Fairness`, `ClusterVersionInsight!Fairness` and
`ClusterOperatorInsight!Fairness`: likewise. The client has no fairness: nothing is
claimed of a run that does not end.

## 4. Proofs

They hold for any number of nodes, pools, operators, configs, versions, reports and
states, any capacity of the channels and any number of changes. Every invariant that a passing
run checks is a theorem, and so is every action property and the refinement.
Where an invariant is not inductive, the one that is was first checked by TLC on the
instances of section 3.

### What is assumed of the constants

Each assumption is named, stated in the module it is about, and evaluated by
TLC on the instances.

| Assumption | What it says beyond types, and why the code justifies it |
|---|---|
| all | `None` is no value: in Go nil, an empty string or a missing key is none of the values it stands beside. |
| `CentralAssumption`, `PoolInsightAssumption`, `InsightAssumption` | Sets that are counted or waited for are finite, as lists of objects are. |
| `HashAssumption` | The reasons that nodes report are none of the controller's own words (a phase, a type of condition, True and False): kubelet and daemon write sentences or other reasons. The Machine Config Operator annotates a node with its current and desired config in one update. The cluster-version operator only adds to its history. Without them two different states may leave the same bytes, because an empty field leaves none. |
| `HorizonAssumption` | An update ends long before durations wrap: 2^63 ns are 292 years, and an estimate is at most 120 times what has passed. Only the zero time is farther away, and that case stays in the model. |
| `FleetAssumption` | There is a control plane, its nodes are listed once each and are no workers. The lists come from an API server that has one object per name. |
| `UpdateStatusAssumption`, `NodeUpdateAssumption`, `CapacityAssumption`, `ShapesAssumption` | Types only. |

### The evaluator

`NodeAssessment_proofs` is about operators, for every node, pool, and version:

- `EvaluationShown`: what an evaluation shows depends on the node, its pool, the versions
  and the target, and neither on the conditions carried over nor on the time.
- `HashTells`: states with equal hashes show the same. The sequence of fields
  is read back from its end: how many fields are empty can be told from those that are not.

`NodeUpdate_proofs`, with the inductive invariant `Inv`: the node is one whose applied drain
was desired (`NodeOK`), and what is stored is one condition of each type, none dated later
than now, and can be read back from its hash (`StateOK`). From it:

- `TypeCorrect`, `OneConditionCorrect`, `HashCorrect`.
- `SettlesCorrect`: `Spec => []SecondEvaluationSettles`. Available may be taken out and
  appended; after one more evaluation the order of the three conditions is fixed.
- `CompletedCorrect`: `Spec => []CompletedRunsTarget`. An updating node whose daemon still
  says Done is draining by default if it has both drain annotations, and by `NodeOK` one that
  was ever drained has both; the finding is about the nodes this leaves out.
- `TransitionTimesCorrect`: `Spec => TransitionTimesKept`.

### The central controller

`CentralNodeState_proofs`:

- `TypeCorrect`: `Spec => []TypeOK`. Inductive as it is; its part about the
  worker says what has been read at each place.
- `CatchUpCorrect`: `Spec => []CachesCatchUp`. That quiet caches agree is not
  inductive: it says nothing of the moments before. `CachesCatchUp` says, for
  each object, that the latest waiting event carries the value it has now, or a waiting
  deletion means it is gone, or nothing waits and the cache is right. The case of
  both waiting is what `overtaken` excepts. Lemmas about `Append` and `Tail` of queues
  come first and are used for pools and configs alike.
- `CachesCorrect`: `Spec => []QuietMeansCachesAgree` follows.
- `UnchangedCorrect`: `Spec => []UnchangedMeansSame`. `StoreOK` and `StoreLegible` are
  inductive: what is stored has one condition of each type and can be read back from
  its hash; `HashTells` does the rest.
- `ProviderCorrect`: `Spec => ImplementsProvider`. Each action is a step of StateProvider
  or a stutter; the one that stores is `Publish`, and needs that what is evaluated is a state.
- `UpToDateCorrect`: `Spec => []QuietMeansUpToDate`. The inductive invariant `Settled` says
  of each node that it is `Right`, or `Pending` (queued, or an event that will queue
  all nodes is waiting or being handled), or with a worker that has read nothing that is
  stale by now (`Underway`). A waiting event of a pool counts only if it changes the
  cached selector (`PoolDue`): the last of several does, when the caches are to catch up,
  which is where `CachesCatchUp` comes in. A node that a failed list did not request is
  `missed` and excepted. The worker may end with a hash that is not new,
  which is where `HashTells` does.

### The insight controllers

`NodeInsight_proofs`:

- `TypeCorrect`, as above.
- `PendingCorrect`: `Spec => []MirroredOrPending`, inductive with `TypeOK`: an
  insight that is wrong has a notification, an event of the informer or a place on
  the work queue, or is being worked on with the state that is stored *now*; and
  the informer is right about what it is not behind on.
- `QuietCorrect`: `Spec => []QuietMeansMirrored` follows.

`ClusterOperatorInsight_proofs`; first come lemmas about
the assessment: it is a status, its content depends on the report and the target version
only, and it keeps the times of conditions whose status stays.

- `TypeCorrect`, as above.
- `AssessedCorrect`: `Spec => []QuietMeansAssessed`. The inductive invariant
  `NothingForgotten` has two parts. `Following`: what the informer has of an insight, and
  what the worker has read, is what there is now or there is word of it on its way.
  `Good`: an insight that does not say what it should is pending, with the worker, on
  the queue, with the informer, in a list still to be made, or in one that failed.
- `CountsCorrect`: `Spec => []CountsAgree` follows, through what a right insight says.
- `TimesCorrect`: `Spec => TransitionTimesKept`. While nobody has written since
  (`current`) the worker holds the stored insight (`HeldIsStored`), and its plan keeps
  the times of what it holds (`PlanKeepsTimes`); only then is an update accepted.

`PoolInsight_proofs`; first come lemmas about the assessment of any finite set of nodes:
its counts are numbers, its completion is a percentage, and but for times it depends on
the pool's spec and the states of its members only.

- `TypeCorrect`, as above.
- `PendingCorrect`: `Spec => []SummarisedOrPending`. It is not inductive, as it does not
  say what the worker holds when it finds nothing to write. `NothingForgotten` does:
  the copy it read is the insight that is stored, the pool it read is the one there is,
  and its plan is what is due, or there is word of a change (`Following`); and an
  insight that is not right is announced or worked on (`Good`).
- `QuietCorrect`: `Spec => []QuietMeansSummarised` follows.
- `TimesCorrect`: `Spec => TransitionTimesKept`. `TimesKnown` adds that every time is
  past, which makes a new one no earlier, and that a worker nobody overtook holds the
  status it replaces, or replaces an empty one.

`ClusterVersionInsight_proofs`; first come lemmas about the arithmetic: a completion is a
percentage, an estimate of an update under way is a number no earlier than its start but
for rounding, and but for times (`Said`) an assessment depends on the ClusterVersion and the
operators only.

- `TypeCorrect`, as above.
- `SenseCorrect`: `Spec => []StoredMakesSense`. The inductive invariant `Dates` says that all
  that is known is known of the past: the history, the last progress, and the worker's copies
  of both. That makes the time since then positive, and the estimate sensible.
- `TimesCorrect`: `Spec => TimesMoveWithWhatTheyDate`. `Based`: a worker whose copy is
  current holds what is stored, and its plan keeps the times of what it holds.
- `ReportCorrect`: `Spec => []QuietMeansReported`. `Followed` is about the informer and the
  ClusterVersion that was read; `Compared` says that while no event is on its way the
  insight says what it should from the comparison on. The tolerance of half a minute is
  met because what is left unwritten is compared with what is stored, so differences do not
  add up. `looked` is the clock of the last assessment; all but the estimate is the same at
  any other time (`SaysAtAnyTime`).
- `DiffCorrect`: `Spec => []QuietMeansDiffed`. `Listing`: the informer lags only on what
  it will hear of, and a run that has not failed still has every call to make about a health
  insight that is not as it should be (`Handled`).

### The client

`UpdateStatus_proofs`, about any number of nodes, lines and history entries:

- `TypeCorrect`, as above; a client that got past its first list has an insight of an update
  under way.
- `NothingMadeUpCorrect`: `Spec => []NothingMadeUp`. Inductive is `Written`: an insight is blank
  or was made by an evaluation (`Evaluated`), whatever it was made of, and so is a line
  (`Sound`).
- `SteadyCorrect`: `Spec => []SteadyMeansTrue`. Inductive is `Held`: while nothing has
  changed, insights are what the assessments say and what the client has is what they say.
  The rest is about the assessments and the display: an operator is counted as
  updated just when it is, a completion rounds to one of the percentages next to the share and
  to 100 for the whole only (`PercentageGiven`), the lists of trouble are sorted by what the operators report, a
  line reads Completed just when the evaluator says so.
- `TroubleCorrect`: `Spec => []TroubleIsShown`, and `CountsCorrect`:
  `Spec => []CountsClose`, from `Held` too. The latter is about two divisions that round
  down, for pools of any size.

An attempt at the last one found the property wrong that TLC had passed: it said that a
count is at most one too low. With three workers it is; from a hundred nodes on the
percentage is coarser than a node, and a pool of 199 with 197 updated is shown as 98%
(195/199). The bound is now one per hundred nodes that the pool has or begins.

### Only model-checked

- The liveness properties (`EventuallyUpToDate`, `EventuallyMirrored`,
  `EventuallySummarised`, `EventuallyReported`, `EventuallyAssessed`): they depend on
  fairness, and TLAPS does not reason about ENABLED. The invariants above carry their weight:
  they say that whatever is not right is on a list, and fairness that lists are worked off.
- The three refutations of section 3, which are counterexamples.
- Induction over data is not available either. Where an operator counts or
  looks up, its lemma is about cardinalities of sets or about functions on positions, and
  StatusDisplay counts lines by position for that reason. What `Timewise` computes is not
  proved: it is a constant, assumed a whole number.

## 5. Not modelled

- Legacy node reconciler: nothing but its own tests runs it.
- Manager start-up (flags, certificates, which controllers are enabled) and shutdown: a
  `Start` that closes the notification channels ends a process that is ending anyway.
  What follows, a new process that begins with nothing, is `Restart` in every module.
- Of the client: mock resources, durations, estimates, `--details`, layout.
- API types are declarations (the statuses are the records of the assessment modules);
  metrics are output.

## 6. Plan

Done: every controller that runs, from a change in the cluster to an
insight, and the client that reads them; proofs of every safety property that the
passing runs check, and of the refinement `ImplementsProvider`.

Next, in order of importance:

1. An abstract specification of an insight that mirrors an assessment, which the four
   insight modules implement: `Followed`, `Following` and `Good` of their proofs are one
   idea said four times.
2. Two assumptions that might become theorems of their own: that a finite history and
   finitely many operators keep every estimate within `MaxDuration` (`HorizonAssumption`)
   for a clock that is not bounded by `MaxChanges`; and that no sequence of the Machine
   Config Operator's steps leaves a node with one config only (`HashAssumption`).
3. What StateProvider promises to a restarted reader, composed: a node's insight after a
   change of the cluster, through both controllers, as one theorem.
