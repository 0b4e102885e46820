# marimo-inspect in TLA+

A verification development of `marimo_inspection`, the MCP server that lets an
agent co-work on live marimo notebooks: TLA+ modules translated from the Python
sources under `src/marimo_inspection/`, TLC configurations that model-check them
on small instances, and theorems about them checked by TLAPS.

    tlc -config MCCoWork_sequential.cfg MCCoWork      # a run
    tlapm CoWorkProofs.tla                            # the proofs of a module

`PROJECT.json` lists the runs, the source lines every definition translates, the
hazards the properties are for, the findings and the theorems.

## 1. The system

One MCP server process serves one client (stdio) or several (HTTP). Its tools
are `async` handlers on one event loop: between two awaits a handler is alone,
at an await anything else may run. The notebooks live in marimo server
processes, which humans use at the same time through their browsers.

| part | state | operations | what is hard |
|---|---|---|---|
| change tracker, `tools/change_tracking.py` | per session id: owner path, read baseline, snapshot; process-wide | `adopt_notebook`, `record_cells`, `commit`, `diff`, `forget_cells`, `clear_session` | two stores that must not stand in for each other; ids that change hands |
| session binding, `tools/session.py` | three keys per MCP session, one fallback per process, MCP sessions seen | `bind_active_session`, `resolve_session_id` and its siblings | binds and reads are not atomic; clients must not get each other's binding |
| target resolution, `resolve_target` | none of its own; adopts and clears tracker entries | census, mismatch refusal, rotation repair | a session id is not a notebook; the census is old when used |
| cell tools, `tools/cells.py`, `tools/mutation.py` | none of their own | map, data, create, edit, delete, run | guard, write and refresh are three requests; humans edit in between; answers get lost |
| `restart_kernel`, `tools/lifecycle.py` | none of its own; clears tracker entries | census, POST, handshake, poll, measurement | a POST with unknown outcome, a token that rotates, a session that comes back or not |
| HTTP client, `client.py` | the scraped token | requests to a server, SSE streams | timeouts; one retry |
| bind validation, listing, discovery, access, `tools/session.py`, `tools/notebooks.py`, `discovery.py`, `tools/access.py` | none; binds | survey of servers, classification of refusals | servers that come, go and change their mode between two requests; partial failure |
| `run_cell`, `tools/mutation.py`, `templates/mutation.py` | none | plan, run, report | cells that others edit, run or delete in between; batches that break off |
| `set_ui_value`, `tools/ui.py`, `templates/ui.py` | none | update, markers in stderr, read-back | marimo swallows every failure; what a read-back proves |
| read-only tools, templates, argument conversion, resources, widgets, registration | none | formatting | nothing that has several steps |

A tool call runs: binding → resolution (one census request, the tracker told
which notebook the id serves) → its scratchpad requests, each executed in the
notebook's kernel → the tracker. Calls meet only in the tracker, the binding and
the notebooks.

What makes each part correct:

- *tracker*: its entry is what its call history says; a preview is never a read;
- *binding*: a call gets one whole binding, its own or one it may share;
- *resolution and cell tools*: a checked edit passes its guard only on a source
  the agent knows from that very notebook; a map misses no change; a write lands
  in the notebook it is anchored to, unless its id was handed to another since the census; the guard's advice is no dead end;
- *restart*: it closes the right kernel, with the same exception, never misreports what it closed, never
  reports a success it did not see, and leaves no old read trusted;
- *survey*: what is bound was live, the failures of some servers hide nothing of the
  others, and the reason given is true;
- *`run_cell`*: ok is said of what this call ran, failed of what broke;
- *`set_ui_value`*: no swallowed failure is an ok, and what is said of a handler or
  of the value is so.

## 2. The modules

| module | models | state and actions |
|---|---|---|
| `ChangeTracking` | `ChangeTracker`, one entry | operators only: `Adopt`, `RecordCells`, `Commit`, `ForgetCells`, `Diff`. Every method is under the tracker's lock and touches one id's entry, so it is a function of that entry. A Python dict is a total function to `None`; a snapshot dict that exists but is empty is `observed` |
| `TrackerLog` | the tracker in any order | `entry` beside the `log` of calls, which is the reference |
| `CoWork` | resolution and the cell tools, with humans, the server's session table and restarts of the MCP process | `tracker`; `calls` (one record per call in flight, its `pc` the await it is at); `live`, the census; `doc`, the notebooks' cells. `known` is a ghost: what the agent was shown or wrote, of which notebook |
| `CoWorkContract` | what the cell tools promise | `doc`; what the agent `knows` of each notebook; `jobs`, the calls that have found their notebook. No ids, censuses, repairs or tracker, so no baselines: a checked edit needs a fact the agent knows |
| `EditRetry` | an agent following `edit_cell`'s refusals | the calls of `CoWork` in the loop those refusals prescribe; extends `CoWork` |
| `Binding` | the binding layer | `keys` per MCP session, `fallback`, `seen`; one action per await |
| `RestartKernel` | `restart_kernel` and its requests | `calls`, the server's `live`, `proc`, `checks`, the `tracker`, whose entries are reduced to the kernels they hold reads of, and `reads`, answers of other tools under way |
| `RestartContract` | what `restart_kernel` promises | `kernels`, numbered as they start, and one record per call; no ids, censuses, tokens or polls |
| `Survey` | `list_active_notebooks`, `set_active_session` and the census half of `resolve_target`, over `discovery.py`, `client.py` and `access.py` | `registry`, `server` (what listens at each URL, and its session table), `call`; one action per request. `seen`, `changed` and `troubled` are ghosts: what was live during the call, which servers changed, whose requests were lost or spoiled |
| `Kernel` | marimo's kernel, external | `doc`, `registered` (the dependency graph), `status`, `raises`, and one widget: `type`, `element`. What a human does in the browser is here |
| `RunCell` | `run_cell` and its three scratchpads | `run`, the call under way; ghosts for the cells it completed, broke, and others touched since |
| `SetUiValue` | `set_ui_value` and its scratchpad | `ui`, the call just served: what the update really did, what is found in stderr, what was read back, the answer |
| `KernelTools` | the two tools on one kernel, with a human | composition: `RunCell`'s steps with the others' in between |
| `MC...` | small instances | constants and symmetry |
| `...Proofs`, `RestartRefinement` | theorems | extend their component |

`CoWork`, `Binding`, `Survey` and `RestartKernel` meet in the arguments and results
of `resolve_target`: `Binding` says which session, server and anchor a call starts
with, `Survey` what one target resolution may answer, `CoWork` and `RestartKernel` what
is done with it. `CoWork` starts calls with any pair of id and anchor, and its census
may fail at any time, so it allows whatever the other two can produce.

Every action is one step between two awaits. A request takes effect at the server
in one action (`Exec`, `WriteEdit`, `PostCloses`, `RunAll`) and its answer is processed at the
client in the next (`Guard`, `Record`, `Poll`), so a request overtaken by the world
and an answer overtaken by other answers are both interleavings. A write whose
answer is lost is the second branch of `Written` and of `PostCloses`. Requests
that fail end the call (`Fail`, `PostFails`, `PollFails`). What the marimo
server and its browsers do (`Open`, `Close`, `Rekey`, `Relaunch`, `HumanChange`)
is modelled from what the client relies on or guards against, and marked external
in `PROJECT.json`.

Abstractions. Source text is a member of `Hashes`; a preview, whose text is not all
of the source, counts as `way |-> "preview"` in `known`. `CoWork`'s op `inspect` is
every tool of which only the resolution matters here, and the adoption a bind
begins with. `CoWork` starts calls with any session id and any path anchor;
`Binding` says which pairs the binding layer makes. Tracker entries in
`RestartKernel` have no cells. Cancellation of calls is in `Binding` and, as
`Fail`, in `CoWork`; a cancelled restart is not modelled. A server that answers
a restart POST with a failure has closed nothing: the tool takes that for
granted, and so does `PostFails`. That the state store really suspends
between a bind's writes is assumed in `Binding`; if it does not, fewer
interleavings happen. `Survey` follows one call: calls share nothing there. In
`Kernel` a value is a number of which one is out of range, what may be submitted is a scalar
or a list, and whatever the sources leave open about marimo, such as the order of a batch,
where an interrupt cuts it off, or whether a traceback keeps its frames, may go either way.
`set_ui_value` makes one request, so only what the update itself sets off (autorun, which
may make the widget anew) comes between its two reads; `run_cell` makes three.

Definitions named `Faulty...` (and `MisreadAdvice`) are variants of the definition
after them with a plausible bug. No specification uses them; putting one in place
of the original must break the property `PROJECT.json` names with it.

## 3. What is checked

`CHECK_DEADLOCK FALSE` throughout: bounded models stop when their bounds are used up.

| run | instance | shows |
|---|---|---|
| `tracker_log` | 2 keys, 2 hashes, 2 paths, logs up to 4 | `EntryIsItsHistory`, `DiffExact`: each entry and each diff is what the log defines |
| `cowork_sequential` | one call slot, 2 calls of any tool, 2 ids, 2 notebooks, a cell with a name, a human edit, 2 moves; ids re-used even during the call | `TypeOK`; `GuardTrust`, `BaselineOwned`, `MapMissesNothing` need no assumption on id re-use when calls do not overlap, with creates, deletes, names and re-used cell ids; `RequestsLand`: only an id handed to another notebook under the call leads its requests there |
| `cowork_concurrent` | 2 slots, 2 ids, maps, reads and edits, 2 moves; *assumed*: no id passes to another notebook under a call | `KeepsContract`: `CoWork` implements `CoWorkContract`; and the inductive invariant `TrustInv`, of which `GuardTrust` is a part and `BaselineOwned` a consequence |
| `edit_retry` | 2 human edits, 2 moves, a lost request | `EditLands` (liveness); `EveryStepCounts` and `DoneIsWritten`, its safety half; types |
| `binding` | 2 MCP sessions, 2 slots, 3 calls, 2 ids and URLs, a saved and an unsaved notebook, both transports | `Isolation`, `WholeBinding` |
| `restart_alone` | one restart, 2 ids, 2 saved notebooks and unsaved, 2 moves (ids may pass to another notebook under the restart), a poll of one attempt, a read that may be under way across the restart, with and without token checking | `RightKernel`, `PreservedServer`, `StartsAfresh`, `EveryRestartEnds` (liveness) and `EveryStepCounts`, its safety half |
| `restart_together` | 2 restarts, 2 ids, a saved and an unsaved notebook, a move; *assumed*: no id passes to another notebook under a restart | `Truthful`, `SuccessIsReal`, and `KeepsContract`: `RestartKernel` implements `RestartContract` |
| `survey` | 2 servers of any kind, 2 ids, a saved and an unsaved notebook; registries that name no server, both, or one twice, with files that are skipped or malformed; a move, any request lost or spoiled | `BoundWasLive`, `StaysAnchored`, `FoundIfThere`, `AmbiguousIsReal`, `ReasonRight` |
| `kernel_tools` | the widget's cell and a dependent, one `run_cell`, two `set_ui_value`, a human step | `OkMeansRan`, `OutcomeRight`; `NoFalseOk`, `HandlerTruth`, `SiteRight`, `NoChangeIsTrue`, `KeepsOption` |
| `cowork_stomp`, `cowork_deleted`, `restart_uncleared` | | violated: section 5 |

Why the bounds are enough. The data is compared for equality only, so two hashes, two
notebooks and two ids show every mix-up there is between "the same" and "another". A
wrong baseline takes one call that records it and one that trusts it, hence two calls.
With overlapping calls no human writes: the other call's edit plays that part, and the
cells' first sources are unknown to the agent; human edits are in `cowork_sequential`,
and both together in the theorems. Further, taking an id from one notebook to another
takes two moves (close and open, or re-key and open), a rotation one. A torn binding
takes two binds and one resolution. What fools a restart is one move, or two, between
its census and its POST or its poll. A survey goes wrong when one server differs from
the other, which takes two servers, or from itself earlier, which takes one move; a
registry that repeats a server is one of the three. In the kernel a batch of two cells
already breaks off in the middle, and a second `set_ui_value` starts from what the
first left. The theorems of section 4 have none of these bounds.

The assumption `ReuseInFlight = FALSE`, in `cowork_concurrent` and `restart_together`: while a
call is in flight on an id, the server does not give it to another notebook. The code does not
ensure this. `session.py:85` says so of every bound tool ("not atomic prevention": the
census and the request are separate), and with it false, a write may reach, and a restart
may close, the wrong notebook. What holds all the same is in `RequestsLand` and
`RightKernel`, checked in runs without the assumption and proved without it: such a
hand-over is the only way.

Fairness. `EditRetry` and `RestartKernel!FairSpec` assume weak fairness of the
steps of the tool calls and of nothing else: every request has a timeout
in `client.py` and the event loop resumes each handler. Nothing is assumed of humans
or of the server; `EditLands` asks only that the notebook is open, with the cell in
it, from some time on, and `EditRetry` bounds the requests lost.

## 4. What is proved

For every value of the constants, under the named `ASSUME`s only (which say that
`None` is none of the data, that the parameters have their types, and that keys
are ids and names).

`CoWorkProofs`
- `TypeCorrect`: types; among them that no step of a call uses a session, path,
  cell or source the call was not given.
- `GuardIsTrustworthy`, `BaselinesAreOwned`, `MapsMissNothing`: for any number of concurrent
  calls, if `~ReuseInFlight`: the server hands no id to another notebook while
  a call is in flight on it. None of them is inductive: the guard trusts an entry
  other calls write to. `TrustInv` adds what makes it so. *Bindings*: an id
  some call resolved serves that notebook or none, and calls that resolved one id agree.
  *Entries*: the owner of an entry a call works with is that call's notebook, or none
  since another call's repair cleared it, and all it records is known of the owner
  and of each call at work. *Answers*: a refresh carries one cell, and what passed the guard is known.
  `TrustIsKept` is that invariant itself. Without the assumption it is false, see section 5.
- `AgreementSuffices`: the first three of them from less, that calls which overlap on one id
  found the same notebook under it. `SequentialCallsAreSafe`: with one call at a time
  that is so whatever the server does. "Known of a notebook" is then what the agent was
  shown as that notebook's; that it also came from there, if no hand-over came in between, is
  `RequestsLand`.
- `OnlyHandOversLeadAstray`: `RequestsLand`, with no assumption. A call is astray when its id
  serves another notebook than the call found under it. A census aims the call at the
  notebook it shows, at the anchor if there is one (`ResolvedAims`); no step of a call changes
  an aim (`StepAims`, `AimsKeep`), so only the server's table can lead it astray
  (`NeverAstray`), and a request of a call that is not astray lands at home.
- `ImplementsContract`: `KeepsContract` if `~ReuseInFlight`. `Jobs` makes a job of every call
  that has resolved, whatever id it goes by; resolutions, repairs and the server's moves are
  stutters, every other action is the contract's action of the same meaning. What makes
  it true is in `TrustInv`: *Bindings* place each request in the job's notebook, `GuardTrust`
  turns a baseline that matches into a fact the agent knows, and a refresh shows one cell. The contract
  does not promise that nobody writes between the look and the write (section 5).

`EditRetryProofs`
- `RetryTypesCorrect`; `RetriesAreGuarded`: `GuardTrust` and `BaselineOwned` for the whole
  loop with no assumption on ids, since its calls are made one after the other
  (`OnlyAgent`) and so agree: `RetryInv` is `TrustInv` without *Bindings*, with what the
  loop says of its own call (`OwnCall`).
- `DoneMeansWritten`: `DoneIsWritten`. `DoneMeansWrittenAtHome`: what was written is in the
  agent's own notebook, if `~ReuseInFlight`.
- `EveryStepIsProgress`: `EveryStepCounts`, for any bounds on interference, with
  `OneNotebook`, that no second notebook has the agent's path. The measure is 48 times
  what humans, server and network may still do, plus `Rank`: the steps the call under way
  has left, and what the agent will have to do after it, which `Outlook` reads off the
  tracker, the notebook and the answer in flight. An interference spoils at most the rank, which stays
  below 48; each step of the agent's lowers it. The lemmas go action by action
  (`...Counts`); `MeasureInv` says that a notebook has one session and that the counters keep their bounds.

`TrackerProofs`
- `TypeCorrect`, `DiffsAreExact`.
- `EntriesAreTheirHistory`: the reference semantics, for logs of any length. The log
  grows at its end, so every set of times the reference is read off is either the
  old one or the old one with the newest call added (`SinceNext`, `KeyTimesNext`),
  or empty after a handover (`HandoverNext`); `Maxed`, that the sets of times have a latest
  member, is carried along since it cannot be had by induction here.

`BindingProofs`
- `TypeCorrect`: types; a bind in progress and a resolution not refused are complete.
- `ClientsAreIsolated`: `Isolation`, by way of `Observed`: the fallback's writer
  and whoever is resolving have been seen, so two of them withhold it.
- `BindingsAreWhole`: `WholeBinding`, by `WholeInv`. *Keys*: those of an MCP session are
  its last bind's, unless known to be a mixture. *Fallback*: what was last stored.
  *Binds* and *reads*: what an undisturbed bind has written is there, and what a
  resolution has read so far is of the binding it will be judged by.

`RestartProofs`
- `TypeCorrect`; `NeverLies`: `Truthful`, with no assumption on ids, since the
  phases determine whether the POST closed something.
- `OnlyHandOversMislead`: `RightKernel`, with no assumption. The server and the restarts in
  flight agree about an id (`Agreed`) until a browser or the server hands it to another
  notebook (`HandedOver`): no census, repair, POST or handshake of any restart ends the
  agreement (`StepAgrees`), and under it the POST closes the right kernel. `RightInv`, which the
  next module uses, is that agreement about every id if `~ReuseInFlight`, with
  `ClosedRight`: what was closed is what was asked for.
- `RestartsAreBounded`: `EveryStepCounts`. A restart is answered after `Attempts + 9` of its own
  steps at most, whatever browsers, other calls and relaunches of the server do in between.

`RestartRefinement`
- `SuccessIsVerified`: `SuccessIsReal` if `~ReuseInFlight`. `TableOK` says that kernels are
  numbered as they start and a notebook has one session, `SuccessInv` that what is live
  under an id after a close is younger than what was closed.
- `PreservedIsTrue`: `PreservedServer`, with no assumption (`ClockInv`: the close comes
  before the measurement, and server processes only grow).
- `RestartsStartAfresh`: `StartsAfresh`, with no assumption, from `YoungInv`; for any number of
  overlapping reads, whose late answers it excepts.
- `ImplementsContract`: `KeepsContract` if `~ReuseInFlight`. The initial states map
  to initial states, and each action to the contract's action of the same meaning or to a
  stutter: censuses, token scrapes, polls, clearings and re-keyings are stutters.

`KernelToolsProofs`, from `RunInv` (nothing has run before the batch, and what the batch
left is still there except where somebody touched it), `UiInv` and `ElementSane`
- `TypeCorrect`, `OkIsEarned` (`OkMeansRan`), `OutcomesAreRight` (`OutcomeRight`), for any
  dependencies between any number of cells;
- `OkIsNoSwallowedFailure` (`NoFalseOk`), `HandlersAreReported` (`HandlerTruth`),
  `SitesAreRight` (`SiteRight`), `ReadBackIsTrue` (`NoChangeIsTrue`),
  `DropdownsKeepAnOption` (`KeepsOption`).

`SurveyProofs`, for any number of servers, ids, registry files and moves
- `TypeCorrect`, `BindsAreOfLiveSessions` (`BoundWasLive`), `TargetsStayAnchored`
  (`StaysAnchored`), `FailuresHideNothing` (`FoundIfThere`), `NothingIsGuessed`
  (`AmbiguousIsReal`), `ReasonsAreTrue` (`ReasonRight`). The invariant says that answers on
  hand were true when given (`SeenInv`) and come from servers the call is to cover
  (`CoverInv`), that a steady session is found or its server still to be asked (`FindInv`), that
  a lookup asks no server twice (`OnceInv`), that only a server which denied its census is
  asked why (`DenialInv`), and that only an id which is not there is looked for again
  (`AgainInv`).

Model-checked only: the two liveness properties, `EditLands` and `EveryRestartEnds`. Their
safety halves are proved, that no step of anybody's undoes progress
(`EveryStepIsProgress`, `RestartsAreBounded`); what is left to TLC is that under the
fairness assumed the next step is taken, which needs `ENABLED`, out of this prover's reach.

## 5. Where the sources promise more

Each of these is a run TLC refutes:

- `cowork_stomp`: "impossible silent stomps" (`mutation.py:11-12`), yet nothing is
  checked between the guard's read and the write.
- `cowork_deleted`: deleting by name forgets the name, not the id (`mutation.py:991`).
- `restart_uncleared`: after a restart that closed the kernel and got no session
  back, the tracker keeps the reads of the closed kernel (`lifecycle.py:588-632`).

The models contain more, described under "hazards" and not claimed by any property:

- A human edit between a tool's own write and its refresh is recorded as read
  (`mutation.py:147`); `GuardTrust` therefore counts a refresh as knowledge.
- An answer in flight when another call adopts its id for another notebook is filed
  there (`change_tracking.py:158`): why the theorems need `~ReuseInFlight`.
- A read by name puts the name into the snapshot, and the next map reports it removed
  (`cell_data.py:73`).
- A malformed census after the POST escapes as an exception (`lifecycle.py:232`,
  action `PollEscapes`); a failed one counts as an empty one (`lifecycle.py:610`).
- A read answered after a restart's clearing is recorded (`lifecycle.py:641`):
  `StartsAfresh` excepts exactly these.
- Two unsaved notebooks using one id share a path, and the tracker's owner (the
  sources say so, `session.py:82`); the properties speak of paths as the tracker does.
- After a first census that is unreadable and a second one that is not, `resolve_target`
  takes the id for gone: it answers `session_not_found` with that very id among the
  `available_sessions` (`session.py:1366`).
- The listing binds nothing when its first row is the sentinel of a server that went
  down, though later rows have sessions (`notebooks.py:134`); it asks an endpoint that two
  registry files name twice, and lists its sessions twice (`notebooks.py:135`); and a census
  that is no object ends it with an `AttributeError` (`notebooks.py:183`).
- A registry file whose JSON is no object, or whose url is no string, raises an
  `AttributeError` (`discovery.py:108`, `118`) that `discover_servers` does not catch
  (`discovery.py:77`): `set_active_session` and `list_active_notebooks` then fail with it though
  every server is up. `BreakOff` is that step; `FoundIfThere` excepts the calls it ends.
- With a dependency graph in which only some cells are registered, `run_cell` in mode
  `descendants` runs the dependents it knows of (`mutation.py:732`).
- A batch that marimo threw away is reported partial, with the cells that were idle
  before it under `succeeded` (`mutation.py:694`); ok it is not.
- `set_ui_value` compares two widgets when the update made the widget anew:
  `no_change`, `applied` and the reason then say nothing of the first (`ui.py:390`).
- Submitting 0 to a button that was clicked moves its value back: `applied` is true,
  `handler_invoked` false. A button whose handler prints marimo's own error text is
  reported `on_click_failed`. An `on_change` failure whose traceback lost its
  frames is reported as `value_not_applied`.

## 6. Not modelled

- Argument conversion, formatting and prose, resources, the registration of
  tools and the choice of transport, widgets and the benchmark harness: they keep
  no state, or none that other parts see.
- What the read-only tools compute inside a kernel: text for the agent. Their resolution
  is `CoWork`'s `inspect`.
- In the client: `resolve_session` without an id and `instantiate`, which no handler
  reaches, and the parsing of an event stream line by line, of which the outcomes
  are kept. In discovery: the Windows check of a process id and discovery with a
  base URL.
- A restart that is cancelled, and marimo's own failures behind a POST it answered.
- A client whose MCP session id cannot be read (`session.py:195`): whether FastMCP ever
  withholds it cannot be told from this code.
- Several notebooks per kernel tool: `KernelTools` has one kernel. Which kernel a request
  reaches is the subject of `CoWork`.
