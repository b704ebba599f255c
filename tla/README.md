# BattleBelief: TLA+ models, checks and proofs

BattleBelief plays Gen 9 OU battles on a Pokémon Showdown server. The runtime
reads a room line by line, keeps the public battle state, answers each
`|request|` with a locally authorized choice and writes one decision record per
request; the lab package runs measurements and a local Showdown oracle around
it. This project models the code in `src/packages`, checks the models with TLC
and proves the central results with TLAPS.

## The system's parts

| Part | State it keeps | Operations | Talks to |
|---|---|---|---|
| Battle session (`composition/battle_session.py`) | observed state, pending / latest / submitted request, open trace, next index, primary error, done flag, counters | one handler per kind of room line; `_retry_pending`, `_submit`, `_abort` | connection (lines in, `send_room` out), policy, trace sink |
| Observation reducer (`application/observation/reducer.py`) | none (folds events into `ObservedState`) | `reduce` | called by the session |
| Request reader (`request_reader.py`) | none | `read_request` | called by the session |
| Reconciler, gate, policy, encoder | none | `reconcile`, `authorize`, `select`, `encode_submission` | called by the session |
| Decision records (`domain/records`) | immutable records | `DecisionRecord.create` with its consistency rules | created by the session, written by the sink |
| Battle coordinator (`battle_coordinator.py`) | candidate rooms, challenge status, buffered lines | discovery under a setup timeout, handoff to a session, close | connection, session |
| Showdown connection (`showdown_client`) | socket, login state, queued lines | connect, authenticate, lines, send, close | websocket, login server |
| Measurement runner (`evaluation/measurement_runner.py`) | sink and run status | run one session, flush, close, classify | session, trace sink |
| Oracle process runner (`oracle/showdown/process.py`) | child process, output drains, barriers, pending error | launch (on Windows into a job), interact, shut down with escalation | child process |
| Loopback server smoke (`oracle/showdown/server.py`) | config file, server process, drains, readiness | start, wait for readiness, shut down, verify, clean up | server process, checkout |
| Oracle session (`oracle/showdown/session.py`) | none | steps of a fixture, result of its run | process runner |
| Oracle installation (`oracle/showdown/installation.py`, `tools/build_showdown_oracle.py`, `tools/smoke_lab_oracle.py`) | checkout, dependencies, dist, build manifest on disk | acquire, build, verify, smoke | git, npm, server, simulator |
| Poke-engine adapter (`adapters/poke_engine`) | health, prepared worlds | verify the installation, initialize, prepare a root, legal actions, views, transition | native engine, installed files |
| Engine release (`tools/build_poke_engine_wheel.py` and the index, sentinel and release tools) | checkout, wheelhouse, manifests, index, release | acquire, source, build, try, index, publish, verify | git, maturin, repository, uploads |
| Schedules, seeds, budgets, pools (`evaluation`), registration validation | none | pure functions of documents | lab CLI |

What is hard here: a request may arrive before the public lines that make it
answerable, in any order; the server may repeat, change or delay requests; a
send may fail or be cancelled after the command has left; writing a record may
fail while another error is being handled; start-up races a timeout; shutdown
escalates through several failing steps; evidence about a pokémon has to follow
it through switches, disguises and shared nicknames; a search must neither use
what the opponent hides nor an action of another request; a build may be stopped
anywhere and repeated on what is left, and cells of a release are built at
different times. The single-threaded event loop means
that a handler is atomic between awaits, and the only await inside a decision is
`send_room`. `PROJECT.json` lists the hazards line by line.

What makes the parts correct:

* session: at most one answer per request, only to the newest one and only in a
  state that agrees with it; no answerable request left waiting; every command
  recorded; errors never lost or masked; a silent end means the battle is over;
* reader, reconciler, encoder: what the reader offers the reconciler allows, and
  the wire form tells the offered submissions apart;
* records: gap-free indexes, increasing request ids, the state digest of the
  decision;
* coordinator: it takes the battle its own challenge opened and no other, hands
  over every line of it, ends its setup by the deadline and reports the first
  failure;
* connection: each line delivered once and in order, nobody let in before the
  login is confirmed, every socket closed;
* measurement runner: a result never hides what happened, and no run is lost;
* reducer: one view per pokémon, with its own evidence, whose intervals never
  overlap; nothing of the field on the bench;
* adapter: only the released wheel is used, the root offers exactly the request's
  submissions, actions stay with their root, chances are exact, the work
  reported is the work done, views hide what the player cannot know;
* oracle and release tools: a manifest describes one build, a result rests on
  exactly the build it names, a server that passed leaves nothing behind;
* process runner: no wake-up is lost between output, exit and barrier, the first
  error is kept, `run` ends, and no process outlives it unnoticed.

## Modules

| Module | Models | How it corresponds |
|---|---|---|
| `ObservedState` | `ObservedState`, part of the reducer | the facts the reconciler reads: own side, generation / game type / tier (`"ok"`, `"bad"`, unknown), team sizes, the active pokémon of each side, started, over. `Reduce` is `ObservationReducer.reduce` restricted to them, `Refused` its `ReducerInvariantError`s about a pokémon that is not active |
| `RequestReader` | `read_request` | `Payload` is the part of the JSON that decides anything; `RequestKind`, `SafeSubmissions`, `ReadError` keep the detection order, the offered submissions and the order of the errors |
| `RequestReconciler` | `RequestReconciler`, `ActionSafetyGate`, `HeuristicPolicy`, `encode_submission` | `Reconcile` lists the checks in the code's order, the first that does not accept decides; `"pending_active"` is `PENDING_PUBLIC_STATE` with the reason the session compares for |
| `DecisionTrace` | `_open_trace`, `_refresh_pending_trace_state`, `_finalize_pending`, `_record_error_code`, the status rules of `DecisionRecord` | pure operators on a log record (open trace, next index, failure, accepted records) |
| `BattleSession` | `BattleSession` | one variable per attribute; a line is one action, and a decision that reaches the wire is two (up to `await send_room`, and the way the send ends) |
| `DecisionExchange` | abstract specification | what the server may observe: announce, answer, withdraw, stop |
| `RequestDecision` | reader, heuristic and encoder for one request | enumerates payloads |
| `BattleLineParser` | `classify_room_payload`, `parse_battle_line`, `parse_inactive_line`, the wire types | a line is its type and its split arguments; `ParseError` is what `parse_battle_line` refuses, `Parse` the event it returns |
| `ObservationReducer` | `ObservationReducer.reduce`, `PokemonView`, `HpObservation` | `Reduced` folds one event; a helper of the reducer is an operator of the same purpose (`Activate`, `OpenInterval`, `FindForSwitchIn`, ...), `RefusalOf` its invariant errors |
| `ObservedBattle` | `_process_line`, `_process_battle_event`, `_process_timer` | a line is read and reduced, or ends the battle with its error; `ImplementsObservedState` maps the state to `ObservedState` |
| `CheckOrder` | the `_fail` idiom | a chain of checks, the first that fails decides |
| `ChallengeLines` | `ChallengeStateReader`, `_read_popup`, the room candidate and its metadata rules | a global line is a record with the fields that decide anything; a metadata field is unknown, `"ok"`, `"bad"` or a user |
| `BattleCoordinator` | `BattleCoordinator`, `_SessionConnection` | `_discover`'s locals and `run`'s; an action per kind of line, await and failure. The session is its outcome |
| `ChallengeSetup` | composition | the coordinator and an external server joined by a FIFO stream |
| `ShowdownConnection` | `ShowdownConnection`, the assertion provider | socket, login, queue; a frame is a sequence of numbered lines, read line by line |
| `LineChannel` | abstract specification | lines become due behind each other and are yielded once, in order, while the channel is open |
| `MeasurementRun` | `MeasurementRunner`, `validate_measurement_run_result` | extends `BattleSession`: when the session has ended, one step flushes, closes, classifies and validates |
| `ShowdownProcessRunner` | `ShowdownProcessRunner`, the order rules of `ShowdownProtocolDecoder`, the Windows launch | `phase` is the await at which `run` is suspended; the exit watcher and the two drains are actions of their own, the child and its descendants are external |
| `OracleCheckout` | `installation.py`, the build manifest | a checkout is a record of what git, node_modules, dist and config are; verification and clearing are chains of checks |
| `LoopbackServer` | `LoopbackServerSmoke` | as the process runner: `phase`, watcher and drains; the server may write into the checkout |
| `OracleSession` | `ShowdownOracleSession.run_fixture`, the comparison runs | pure operators from a fixture and the runner's outcome to a result or a failure class |
| `OracleLab` | `build_showdown_oracle.py`, `smoke_lab_oracle.py` | composes the three: the tools run one after the other on one checkout, and may crash between any two steps |
| `EngineArtifact` | `verify_installed_artifact`, the import, the probes, `_initialize` | an installation is a record of files and documents; every check of the closure in its order |
| `PokeEngineWorld` | the state mapper; the engine (external) | native states, views and their deltas; `LegalChoices` and `AfterJoint` are the engine as the adapter uses it |
| `PokeEngineSearch` | the action mapper, `PokeEngineTransitionModel` | extends `RequestDecision`: initialization, two worlds, `prepare_battle_root`, `prepare_root`, `legal_actions`, `transition`, each with the engine failing anywhere; a call ends in a `Report` of its failure class, its `work_units` and whether its handler marks the backend; `last` is what the call in progress returns, `spent` what all of them reported |
| `EngineRelease` | the subcommands of `build_poke_engine_wheel.py`, staging, sentinel, index, `verify_published_release_v2` | `step` is the point a subcommand has reached; a digest is what it is a digest of |
| `EngineSupply` | composition | a behaviour makes a release or uses an installed wheel |
| `MCBattleSession`, `MCBattleCoordinator`, `MCChallengeSetup`, `MCShowdownConnection`, `MCMeasurementRun`, `MCShowdownProcessRunner`, `MCObservedBattle`, `MCEngineSupply`, `MCOracleLab` | model-checking instances | vocabularies of payloads, events, lines, files and worlds |
| `BattleSessionProofs`, `SessionRecordsProofs`, `ConnectionProofs`, `CoordinatorProofs`, `ProcessRunnerProofs`, `OracleProofs`, `EngineProofs`, `ObservedBattleProofs` | theorems | see below |

Definitions whose comment begins with "Mutant:" are deliberate errors. Each one
replaces the definition it stands before, to show that a property notices.

### Decisions of the model

* A handler that raises: every error path first notes its error, finalizes its
  own record and raises; `run` then calls `_abort`, whose finalization finds no
  open trace. `Raise` and `RaiseWith` are these steps together.
* The policy is arbitrary when `PolicyAnswers` is given: any error, or any
  submission, safe or not. With `PolicyAnswers = {}` it is the heuristic.
* `send_room` may return, raise any error or be cancelled; in the last two cases
  the command may or may not have left (`MayHaveLeft`). `CancelledError` is no
  `Exception`, so no handler of the session runs.
  It may also return nothing; the gate rejects `None` like any other answer that is
  not in the safe set, and the record of that rejection has no selection, so it
  cannot be built.
* The sink may fail on any record. `MaxSafeInteger` is a parameter, so that a
  run can contain a request id no record can carry: `_open_trace` then raises
  (`battle_session.py:444`, `public_projection.py:37`), and the session ends before
  it selects anything. Numbers of the public state beyond that limit, for which
  `observed_state_digest` would raise too, are left out.
* A state digest is the state, a request digest the payload.
* Left out, because they cannot happen or change nothing modelled: the
  reconciler's room and safe-set identity comparisons (the session passes the
  request's own), `_submit`'s early return for an already submitted identity
  (a fresh request is always newer), `command_encoding_failed` (every kind has an
  encoding), lines of other rooms, chat counters, display events, `|inactive|`
  lines without consequence.
* Coordinator: a line that raises leaves the locals of `_discover` as they were,
  because nobody reads them again. A second userdetails response is an unknown
  event. Malformed JSON of any kind is a `"garbled"` line, an unexpected type or
  an uncorrelated response a `"foreign"` one. A cancellation of `close` counts as
  a failure of it: as in the code, it is swallowed when there is another error.
* Server in `ChallengeSetup`: it announces every change of a search before the
  rooms that follow from it or together with them, answers userdetails with all
  rooms of the account, and speaks in the order of its actions. A fresh account
  may get no snapshot of its own after the login; an existing one does. These are
  the premises of the comment at `battle_coordinator.py:265`.
* Connection: error codes are not told apart, a failed `connect` releases the
  socket in the same step (what its close raises is suppressed), `connect` on an
  open connection raises without a change, sends change no attribute. Login lines
  in frames after the login reach the reader, as in the code: the coordinator
  then refuses them.
* Measurement: `MeasurementSession.failure_result` is unreachable, since
  `BattleSession.run` catches every `Exception`; the run context is resolved, so
  every request opens a record.
* Process runner: a chunk of stdout is one complete frame or the end of the
  stream; stderr matters by the network guard's marker only. Launch errors, and
  failures of a stream that do not depend on the decoder's state, are classes from
  a constant. A signal may or may not reach the child, `wait` may raise, the
  verifier and the close of a job handle may fail, a descendant may survive. The
  history variables `first`, `shutdownError`, `signalled` and `interrupted` are
  read by the properties only.
* As in the code: a network marker outranks a failed shutdown; a drain
  failure after the last barrier is raised before the marker and the exit code are
  looked at (so a crash there is reported as incomplete output), and replaces a cancellation under way; a cancellation during the cleanup abandons
  it (`interrupted`, the exception in `NothingLeftSilently`). A start timeout that
  fires during the Windows clean-up is reported as such although the child may be
  left; it counts as `interrupted` too.
* A team size or a replaced identity does not retry the pending request; a
  contradiction is noticed at the next retry. The model keeps this.
* Observation: a line is taken after splitting; an argument that would not parse
  is `None`. Details are a name with or without the tera suffix. The Illusion
  correction `replace` merges the evidence of the disguise into the corrected
  view, so `RevealedMovesAreOwn` speaks about battles without one. A battle begins
  in the initial state and reads its opening line by line like any other line
  (`NextLines`). `EntersAlive` is a rule of the game: no pokémon enters the field
  with a condition that says fainted. The reducer does not check it;
  `_activate_pokemon` marks the pokémon as not fainted whatever its HP says
  (`reducer.py:281`), so without the rule `ViewsAreCoherent` would be false.
* Search: the engine is what the adapter needs of it: legal choices by the rules
  of switches, trapping and terastallization, instructions with arbitrary weights
  and damages. The HP precision of a view is taken from the first revealed pokémon
  of the opponent, whoever is active (`state_mapper.py:74`). The index of the
  opponent's active pokémon is part of a view (`_public_active`, `state_mapper.py:484`),
  although the player never sees it and every world may list the opponent's team in
  its own order; `ViewsHideTheWorld` therefore compares worlds that list it alike. Two
  worlds that differ in that order alone have different views once the opponent has
  switched. Equal views may have different legal actions.
  A request whose only safe submission is the server's default has no root.
  Nothing compares a world's order of our team with the request's
  (`action_mapper.py:123-128` takes the slot as an index into the world's team), so
  a switch at the root plays the pokémon that the world lists in the slot; no document
  promises more, and no property here does. As in the code, an exception of a
  native constructor or of `to_string` (`state_mapper.py:243`, `275`, `317`, `408`)
  is reported as a mapping error and leaves the backend healthy.
* Oracle: nothing but the tools and their processes touches the checkout while a
  tool runs, and no server of an earlier run is alive when a tool begins; so nothing
  changes between the verification in `run_fixture` and the start of the simulator,
  which are two steps. The
  server makes at most one abnormal write. As in the code: the exit watcher sets
  no activity (`server.py:463`), so an exit after the last line of log is noticed
  by the start timeout; a `process.wait` that fails leaves `_shutdown` without a
  class and skips the clean-up; a cancellation during the shutdown leaves the
  config file and perhaps the server; the network marker is not read when the
  drains are cancelled; comparison fixtures are not verified again between runs;
  every failure of the Windows job is a `process_crash`.
* Release: the text of the tree is the committed bytes, the same with other line
  ends, edited, or edited where git does not look. `build` compiles what git calls
  clean, so `ManifestNamesItsSource` claims less for it. After maturin `build-v2`
  compares the names of the changed files only; that maturin does not rewrite a
  file of the patch is an assumption of the model. `verify-source-v2` leaves the tree patched, so
  that `build-v2` needs a new checkout. The sentinel does not check that what it
  imports is the wheel of its manifest; the model takes the workflow's word that
  it installed the staged one.

## Runs

| Run | Question | Bounds |
|---|---|---|
| `session_wakeup` | Starting from nothing, can any order of player, metadata, switch, start and turn lines leave an answerable request waiting, keep one waiting for metadata after the start, or send a command that does not fit the state? | four payloads (a move, the same from the other side, a wait, a team preview) with two request ids; every metadata value that matters; a team size that contradicts the request; heuristic policy |
| `session_records` | Answered once, recorded, counted, errors reported truthfully, abstract exchange implemented; and does the measurement around it tell the truth? | eight payloads over request ids 1-4: 4 is above `MaxSafeInteger` = 3, 2 comes in two versions, one has no id, one has an illegal move id; arbitrary policy, which may return nothing; the failing sends, lines and sinks of every class; a working or failing flush and close |
| `session_contract` | Does every fresh request get a terminal disposition, as the contract says? Violated: see below | as `session_records`, without failing ids |
| `coordinator_run` | From any server: does the session read only the battle it should, is every line handed over, is the end reported truthfully? | one room of at most five lines, eight kinds of room lines (players, one other player, an unreadable one, a good and a bad fact), every kind of global line; the fact stands for game type, generation and tier, which the code treats alike |
| `challenge_setup` | From a server that behaves: is the battle found, and only it; does the setup end? | two rooms (old, ladder or challenge), at most nine lines on the way: a header of six, the announcement, and two more; all three facts |
| `connection_run` | Is the connection a channel? | five lines per connection of every kind, up to three per frame, two connections; the login needs two lines, so lines before, between and after them fit, also in one frame |
| `process_run` | Is a wake-up lost, a process left unnoticed, a result returned for an unclean child, the first error replaced? Does `run` end? | two steps (a request, then the end), one side, three messages before the limit; one launch error, one failure each of stdout and stderr; Windows or not; every exit code, a descendant that comes and goes, cancellation anywhere |
| `process_induced` | Is an exit the runner caused never raised in place of a protocol failure? Violated: see below | as `process_run`, one failure of stdout |
| `observed_battle` | Does evidence stay with its pokémon, and does the reducer move as the session's smaller model says? | three lines of any kind, malformed and refused ones included, after each of two openings (of up to 16 lines, read from the initial state) that put pokémon with a shared nickname, a form, boosts and intervals on the field |
| `spikes_layers` | Do spikes stack, as the plan says? Violated: see below | as `observed_battle` |
| `engine_supply` | Do reader, reconciler, heuristic and encoder agree? Is only a released wheel used, and does a search keep actions, work, chances and hidden information straight? Does a release consist of one build? | requests of up to two pokémon and two moves, team previews of three; installations that differ in one or two places, a faulty file tree in RECORD and on disk; two worlds of nine kinds, two requests with equal safe sets, two lists of instructions asked of the engine, hence at most two plies; three requests with two on the bench (free, trapped, forced to switch) over worlds whose bench is reordered and fits, has one twice, is short, fainted or out; weights that are exact, within the tolerance, short, zero and missing. Release: two cells, two patches that apply and one that does not, three commands on a checkout besides acquiring it (two cells and one built again), one mishap; cells and patches are symmetric |
| `oracle_lab` | Do manifest, smoke and summary describe one build, does a server leave anything, does a smoke end? | three runs of a tool, one crash or change from outside, four hosts, fixtures that terastallize, are not valid or are missing |

The vocabularies are sets from which the server may send any line at any time,
so all orders, repetitions and omissions are explored. Two request ids are
enough to supersede, repeat or outdate a request; the third and fourth add a
decision after an answered one, and the id no record can carry. Sessions run
over finitely many increasing ids, so the state space is finite without a state
constraint. Deadlock is an error in `oracle_lab`; elsewhere the system may stop: a session that has
returned takes no step. Three lines reach what the reducer's properties are about
because the openings prepare it: a switch, an identity or evidence line and one
that looks at the result. Two lists of instructions let two worlds be at the same ply, and one of
them be played with the other's actions. In `EngineRelease` the release jobs run
only while there is no build machine, since they share nothing with it but the
repository and the uploads; a second mishap would only add a second independent
cause to each state the first one leads to.

What the properties say is written where they are defined. By run:

* `session_wakeup`: `WaitsOnlyWhileItMust`, `CommandAgreesWithState`;
* `session_records`: `TypeOK`, `OneCommandPerRequest`, `RecordsTellTheWire` (no
  gap, commands recorded, counters), `ErrorsAreReportedTruthfully`,
  `RecordsDescribeDecisionState`, `ImplementsExchange`, and `ResultTellsTheTruth`
  of the measurement;
* `coordinator_run`: `SessionReadsOnlyOurBattle`, `HandoffKeepsLines`,
  `EndIsReportedTruthfully`;
* `challenge_setup`: `OnlyOurChallenge`, `FateOfTheChallengeIsKnown`, `SetupEnds`;
* `connection_run`: `EveryLineOnceInOrder`, `OpenMeansNamed`, `NoSocketLeft`,
  `ImplementsChannel`;
* `process_run`: `NoLostWakeup`, `EndIsKnown`, `EarlierErrorKept`, `RunEnds`;
* `observed_battle`: `ViewsAreCoherent`, `EvidenceIsATimeline`,
  `RevealedMovesAreOwn`, `ImplementsObservedState`;
* `engine_supply`: `ReaderAndEncoderAgree`; `VerifiedMeansReleased`,
  `RootActionsAreTheSafeSet`, `ActionsStayWithTheirRoot`, `WorkIsWhatTheEngineDid`,
  `ChanceIsExact`, `ViewsHideTheWorld`; `ManifestNamesItsSource`,
  `ReleaseIsOneBuild`;
* `oracle_lab`: `ManifestDescribesTheBuild`, `EvidenceIsSound`,
  `ServerLeavesNothing`, `SmokeEnds`.

Fairness: in the coordinator only `SetupTimeout` is weakly fair. `asyncio.timeout` schedules one
timer for all of `_discover`, and the event loop runs timers that are due; the
coordinator never blocks the loop. No fairness of the server is assumed: the setup
ends even if it is silent. A session depends on a server that may stop
sending at any time, so "answered eventually" is no property of this code; its
safety counterpart, that an answerable request never waits for another line, is
`NoForgottenRequest`. In the process runner the steps of `run` together are
weakly fair: in every phase a timer is set, and the loop runs it when it is
due. Nothing is assumed of the child, its descendants or the drains. In
`OracleLab` the smoke tool's own steps, the steps of the server run's coroutine
and the readiness timeout are weakly fair, for the same reason; the server, its
descendants and the drains are not.

### What the checks found

`docs/contracts/decision-records.md:112` promises that every fresh request gets
exactly one terminal disposition. `session_contract` finds a session that returns
with the record still open, although nothing failed in the trace. The model has
two kinds of such sessions: the stream ends, or an error outside the abort classes is raised
(`server_invalid_choice`, `server_unavailable_choice` or an exception without a
code), for which `_abort` finalizes nothing.

`test_process.py:733` states that an exit induced by the runner does not override
a pending protocol failure. `process_induced` finds that it may: `forced_shutdown`
is assigned only if `_shutdown` returns (`process.py:825`). When a descendant
survives the containment, `_shutdown` raises, the protocol failure stays pending,
`forced_shutdown` stays false, and the signalled child's exit is raised instead.

The M1 plan (`2026-07-29-battlebelief-m1-protocol-safe-prototype.md:750`) and the
reducer's tests let spikes go up to three layers and toxic spikes up to two.
`spikes_layers` finds that two `-sidestart` lines with Spikes leave one:
`_LAYER_CAPS` (`reducer.py:76`) is keyed by id, while the parser passes the name the server
writes.

One more disagreement is the exception in a property that holds. The contract also
says (`docs/contracts/decision-records.md:129`) that the result of a measurement
preserves technical aborts and trace failures; but there is a session whose result the
runner that built it refuses: one record was written, so the trace counts as emitted;
the next could not be built, because the policy returned nothing and a rejected
selection must name the submission; and `validate_measurement_run_result`
(`measurement_runner.py:261`) does not accept both, so `run` raises.
`ResultTellsTheTruth` names that case and shows that nothing else is refused.

## Proofs

`tlapm` proves the following for every value of the constants, that is for every
vocabulary of lines, requests, files and errors, and every bound. A property of a
run is seldom inductive; each entry says what has to be added and why.

`BattleSessionProofs`, `SessionRecordsProofs`:

* `TypeCorrect`: `TypeOK` is inductive. It says that a request is in flight while
  a send is awaited and that a running session has no error, which every handler
  relies on. One lemma per helper (`Settle`, `Raise`, `Submit`, `RetryPending`),
  then one per action.
* `AnsweredAtMostOnce`: the order of the commands alone is not inductive.
  `AnswersFollowRequests` adds why it holds: the pending request is the latest, no
  command is newer than the latest request, and while the session runs every
  command is older than the pending request. `StepShape` reduces an action to what
  matters here: keep or withdraw, take up a newer request, or end a send.
* `SessionImplementsExchange`: the refinement of `DecisionExchange` under the
  mapping in `BattleSession` (`newest`, `open`, `answered`, `stopped`), from
  `StepShape` and `TypeCorrect`.
* `RequestsWaitOnlyWhileTheyMust`: `WaitsForPublicState` says which fact a pending
  request lacks: before the start some metadata, afterwards the active pokémon
  only. That the request is acceptable as soon as the fact arrives follows from
  the order of the reconciler's checks (`FirstOther`).
* `CommandsAgree`, `RecordsCarryTheDecisionState`: about the step that sends; while
  a send is awaited nothing changes what was authorized (`InFlightAgrees`).
* `ErrorsReportedTruthfully`: `ErrorsInv` adds that a failure of the trace is
  always reported, which the two halves of the property need of each other.
* `RecordsMatchTheWire`: `RecordsInv` ties the log to the wire. The written records
  are numbered from 0 with increasing request ids, the open trace bears the next
  number and the latest request, a pending request has its trace (`PendingIsTraced`),
  every command has its record unless that very record was lost (`WireIsNamed`), and
  the counters count submissions by provenance (`CountersFollow`). The property is
  about a session with a run context; without one there are no records.
* `MeasuredResultsAreTrue`, for a resolved run context, which is what the runner
  gives its session: what a session leaves behind (`LeftBehind`: counters that agree with the
  records, or a reported loss) is what the runner's classification and validation
  look at. A record that cannot be built is always that of a rejected selection, for
  an open trace already has a recordable request id (`DecisionTrace`).

`ReadsShape` and `SubmitShape` carry all of these: a handler closes the open trace
with one status, raises with one status, or decides.

`ConnectionProofs`:

* `EverySocketClosed`: `SocketsInOrder` adds that the socket held is the newest, and
  that an idle, opening or closing connection holds none.
* `LinesReachTheReader`, `ReadersAreNamed`: `ConnectionInv` says for every phase what
  has been received, taken and queued, and that all of it together is a prefix of
  the stream. The heart is `NonLogin`, a recursive function on sequences: that it
  distributes over concatenation is proved by taking the least index at which it
  would not (`WellFoundedInduction`).
* `ConnectionIsAChannel`: the refinement of `LineChannel`, frame by frame.

`CoordinatorProofs`:

* `SessionsReadOurBattle`, if our user and the opponent are different: a room that has
  not met an error knows exactly what its lines said (`Follows`), and what is handed
  over still fits it (`RoomInv`). The code never compares the two ids, so that they
  differ is a hypothesis.
* `TheHandoffKeepsLines`: the same invariant (`RoomInv`), with what is buffered.
* `TheEndIsReported`: `EndInv` says for every phase which failures have happened and
  which of them `run` holds.
* `OurChallengeIsPlayed`: the argument of the comment in `_discover`, about the queue
  of lines on their way. `Barrier` says of every line of a room that is not our
  challenge's, read after the bootstrap, that its room is excluded by then or that
  an earlier line is refused; for a game of the ladder that is so because the search
  itself is announced: before the bootstrap the last snapshot reports it, so that
  the userdetails response is refused (`Searches`), after it the updatesearch is.
  That `Barrier` is kept is one lemma for lines the server adds (`MoreLines`,
  `DetailsLine`) and one for the line the coordinator reads (`LineRead`). Nothing
  bounds the queue, the rooms or the number of searches.
* `TheFateIsKnown`: `FateInv` says that no news of a lost challenge follows, in the
  queue or in what was read, the news that it is pending, as long as the server has
  not closed it (`Stands`); an earlier challenge of the opponent's may be withdrawn
  before. `BattleInv` says that what a candidate of our challenge knows, with what is
  still to be read, is the whole header (`Begins`), hence a room that has been read
  to the end has been handed over. `Reads` describes every line read in both.

`ProcessRunnerProofs`: `NoWakeupIsLost`, `TheEndIsKnown` and `FirstErrorIsReported`
share `RunnerInv`: what is known of the child in each phase (`ChildKnown`), that an
error of the interaction is pending until the end (`FirstPending`), how the
interaction and the steps of the shutdown end (`InteractionEnds`, `ShutdownKnows`),
and what each verdict means (`Verdicts`).

`OracleProofs`:

* `NothingIsLeft`: `ServerInv`, the same for the loopback server, with the config
  file and the checkout it may write into.
* `SummariesAreSound`: `SmokeInv` adds that checkout, host and manifest match as long
  as a smoke is past its server, that what a session verified still holds when its
  simulator starts, that nothing is alive to change them, and what the results so far
  are (`Progress`).
* `ManifestsDescribeTheBuild`, for at most one crash or change from outside: the
  manifest on disk is missing, half written, what a build sealed (`Sealed`) or that
  with one field edited (`ManifestOnDisk`), and every edit acceptance lets pass says
  nothing false. Two edits may change the records and their digest together, which no
  check of the code could see.

`EngineProofs`:

* `ManifestsNameTheirSource`: `BenchInv` says what the running command may rely on
  at each step, because it checked it at its beginning (`CommandInv`).
* `ReleasesAreOneBuild`: `ShelfInv` (what is staged and tried) and `PublishedInv`
  (what is committed and released).
* `VerifiedEnginesAreReleased`: from the order of the checks of
  `verify_installed_artifact`, with no invariant beyond the call itself. Chains of
  two to five checks are reduced to their conjunction once (`TwoChecks`, ...).
* `WorkIsCharged`: the sum over all calls needs that each kind of report carries the
  right unit, one for every way in which the engine's answer to a pair can end
  (`AnswerChecks`) and none for every way to fail before it was asked
  (`BindingReport`); a ply is paid for since worlds move on with a report of success.
* `ActionsAreAtHome`, `ViewsTellNoMore`: `SearchInv` says of every
  prepared world that its bindings belong to its root (`Rooted`) and that its views
  are those of its path (`Walked`); equal views of two worlds then follow along
  the path by induction on its length. `ActionsAreAtHome` supposes that `None` is no
  binding.
* `RootsOfferTheSafeSet`: `RootsInv` says it of every prepared world, whatever is
  played later, for the path keeps its first state. What `map_root_actions` and the
  comparison with the engine's choices accept is shown to be the safe set, every
  submission bound to the choice of its own move or team slot; `None \notin bound` is
  the `safe_submission_mismatch` of a submission that has no choice. The theorem
  supposes nothing of the order in which a world lists our team, and claims no more of
  a switch than the world's slot.
* `ChancesAreExact`: for every list of weighted states. The recursion of `gcd` has a
  solution, because the greatest common divisor satisfies it (`EuclidExists`), and its
  value divides both numbers (`GcdDivides`, by the least second number for which it
  would not). `LeastCommon` is then a multiple of every denominator
  (`LeastCommonDivided`), the sum of the weights is positive (`SumBounds`), and a share
  over such a multiple is a whole number (`ExactShare`). What holds at every index holds
  because there is no least one at which it fails (`Induction`, for sets).
* `ReaderAndEncoderFit`: whatever the server asks, what the reader offers passes the
  reconciler's checks, and no two submissions read alike. A team order is an
  injection of a finite set into itself, hence names every slot.

`SupplyPlays` carries the theorems about release and search to the composition.

`ObservedBattleProofs`, for every set of lines and openings, however long:

* `BattleInOrder`: `ObservedInv` is the inductive invariant of the reducer. Of a
  roster it says that at most one view is active (`OneActive`), of a view that
  fainting and HP agree, that one on the bench has been reset and ends in no open
  suppression of its ability (`Benched`), and that its evidence is `Dated`: timelines
  whose intervals begin and end no later than the current event, without which
  nothing would keep the next interval behind them. The argument goes by the kind of a
  step (`Steps`): no roster changes, views become others of the same pokémon
  (`Becomes`), or a pokémon enters (`Entered`); each kind keeps the invariant once, and
  every event of the reducer is shown to be of one kind (`LineReads`).
* `CoherentViews` and `EvidenceInOrder` follow from it.
* `ReducerImplementsObservedState`: the initial state is projected to
  `ObservedState`'s, and every line read reduces the projection (`ReducesTo`, one
  lemma per group of events). That the active pokémon is unique is what lets
  `ActiveAt` name the same pokémon before and after a change of the roster.
* `OwnMoves`: `OwnMovesInv` adds to it that the pokémon on the field is the one
  that the last entry of its side shows (`OnFieldAsShown`), that every move read was
  used by a pokémon that is in the roster (`MoversShown`), and that no two views share
  nickname and identity (`OneViewEach`), so that `_find_for_switch_in` finds the
  right one of two teammates.

Assumptions. Every module names what it supposes of its constants: they have
their types, errors of lines, policy and send are no trace failures, codes are told
apart, bounds are numbers, payloads are payloads, `None` is none of the values it stands
beside, and the weights of an answer are whole multiples of one unit (`WeightsAssumption`,
which any list of fractions satisfies).
TLC evaluates them in the runs. What a theorem supposes beyond them is in its
statement and named above.

Only model-checked:

* `SetupEnds`, `RunEnds`, `SmokeEnds`: liveness under fairness, out of the prover's
  reach.

## Plan

Done: all components that are modelled, see the table of modules; the theorems
above, which state every property of a passing run but the three liveness
properties.

## Not modelled

* Schedules, seed families, budgets, pools and matchups: pure functions over
  digests and documents that no run of the repository calls; no state, no
  concurrency.
* Registration and schema validation, the architecture and documentation checks:
  one pass over files that reports the first broken rule; a model would be the
  list of rules again.
* The capability catalog's preflight and the conformance smoke of the adapter:
  look-ups in tables of data.
* The release tools of version 1: the same steps without the patch, sentinel and
  index of version 2.
* The characters of lines, JSON shapes and canonical encodings (string
  processing, one error class each); command line and configuration; the native
  engine, npm, git and maturin, which are external.
