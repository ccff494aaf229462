# QST: a verification project

QST runs tests for embedded devices. Test cases are written as QML documents; the
host program `qst` (`src/src/qst`) loads them, expands them into jobs, orders the
jobs by their dependencies and executes them one by one. A test case may drive a
LaunchPad board as a probe; its firmware (`src/src/launchpad-probe`) talks to the
host over a serial line with the protocols STP (frames) and ROC (remote objects),
declared in `src/src/shared-types/protocols`. The TLA+ modules of this directory
model the host program from the command line to the verdict, and the probe from the
bytes on the line to the objects of the firmware. TLC checks them on small instances
and TLAPS proves their safety properties for all.

## 1. Inventory

### The way of a test run

    CommandlineParser, ProfileLoader                     ProjectLoading
      -> documents -> ProjectResolver::beginLoad()       ProjectLoading
           with HierarchyValidator, custom parsers
      -> DependencyResolver::beginResolve()              CycleCheck
      -> ProjectResolver::completeLoad()                 ProjectLoading
      -> JobMultiplier                                   JobResolution
      -> DependencyResolver::completeResolve()           JobResolution
      -> SerialJobScheduler <-> JobDispatcher            JobScheduler, ProjectLoading
      -> Testcase::exec(), once for each job             TestcaseExec
           |- ProcessProbe, TextFile, constraints
           `- PinProbe -> RocHostController              RocLink
                -> StpSocket ~ serial line               StpFrames
                     ~ SerialInterface of the target     StpFrames, Firmware
                -> main task -> RocTargetController      Firmware, RocLink
                -> PinTargetObject                       RocLink

### Host program

| Component | State | Operations | Properties that make it correct |
|---|---|---|---|
| Command line, profiles | options | `parse`, `loadProfile` | the project file and profile that are meant are found, or the program says so |
| Project resolver, hierarchy validator, item parsers | worklist of project files, definitions, references, errors | `beginLoad`, `completeLoad`, `resolveProjectReference`, `beginCreate`, `completeCreate`; nesting rules | every path is loaded once, circular references end, everything that is referred to is loaded, what is refused has a fault |
| Dimensions and matrices | lists of tag sets, scope | `DimensionParser`, `applyBindings` | lengths agree, each entry used once |
| Dependency resolver, test cases | graph of test cases and Depends items, errors, visited and marked nodes | `beginResolve` | every cycle refused, no false alarm, something to start with |
| Job multiplier and job table | jobs with tags | `expand`, `combine` | one job for each combination of tags |
| Dependency resolver, jobs | job graph, tagged properties of test cases | `completeResolve`, `Depends::evaluateTags` | exactly the edges the Depends items call for; faulty tags are refused |
| Scheduler | todo, ready list, counts, done, results, export data | `start`, `onJobFinished` | topological order, one job at a time, every run ends, true exit code |
| Dispatcher | nothing of its own | `dispatch`, `parseExports` | each job gets a fresh engine and its own test case; result and exports are stored |
| Event loop of `execRunCommand()` | posted calls, exit flag | `exec`, `quit` | no call lost |
| Test case execution | state, result, current test case, calls in progress | `exec` and its state functions, `finishAndExit`, both waits, `onQmlEngineWarnings` | a failure aborts what is in progress, verdicts stand and are logged, execution ends |
| Process probe | child process | `start`, `terminate`, `waitForStarted`, `waitForFinished` | a wait returns what its name says; a process belongs to its test case |
| Pin probe | cached value, active flag | `setIoid`, `setValue`, `processFromTarget`, init and cleanup | the cache follows the target |
| ROC host controller | connection state, objects, unanswered pings, one nested event loop | `registerObject`, `unregisterObject`, blocking and non-blocking messages, ping timer | an answer ends the wait of its own request, a lost target is noticed |
| STP socket | receive state, receive queue | `connectToTarget`, `onUartReadyRead`, `sendMessage` | messages arrive whole and in order; damage does not become a message |
| Constraints in QML | intervals, measured times | evaluation of events | verdicts agree with the declared interval |
| Console, loggers, file items | none others depend on | | |

### Firmware

| Component | State | Operations | Properties that make it correct |
|---|---|---|---|
| Main task | mailbox, event flags, watchdog, clocks | `mainTaskFunction`, clock callbacks | a chip that hangs is reset, one that works is not |
| Serial interface | receive state, transmit queue | UART callbacks, `write` | no message lost or freed too early between interrupt and task |
| ROC target controller | list of objects, connected flag | `processMessage`, `checkConnectionCallback` | requests answered, no message for a dead object |
| Pin object | value, enabled flag | `parseMessage`, edge interrupt | host and target agree on the pin |
| Shared pointer, message buffer, array list, mailbox | reference counts, offsets | | counts exact under interrupts |

### What is hard

* *Event loops.* There is one thread, but every wait of a test case, every process
  start and every request to a target opens a nested event loop that delivers
  whatever has been posted: other handlers of the test case, the end of a process,
  a call of the scheduler, a message of the probe.
* *Exceptions across C++ frames.* A failure is an exception of the JavaScript engine.
  When an event handler fails inside a wait, the C++ frames of the wait are between
  the handler and the function to abort, and the exception must be raised again.
* *Order.* Names are hashed, lists are filled newest first, and multigraph
  functions return one of several parallel edges: results depend on orders that
  nobody wrote down.
* *Reuse.* One test case object serves all its jobs while edges are computed, so its
  properties hold values of earlier jobs; documents are loaded twice, once for the
  job table and once for each job, and must give the same names.
* *The serial line.* Loss, resynchronisation, late answers after a timeout, pings and
  clocks on both sides, hosts that go away without a word.
* *Interrupts.* Callbacks of the firmware share buffers, a queue and reference counts
  with the main task, some of them updated without a lock.

`PROJECT.json` lists the hazards one by one, each at its line, with the properties
that would catch it going wrong.

## 2. Plan

Done, in this order, because what decides the verdict of a run comes first:

1. `JobScheduler`, which refines `TopologicalRun`, and its proof;
2. `CycleCheck` and `JobResolution`, which establish what the scheduler relies on;
3. `TestcaseExec`, the execution the scheduler sees as one step;
4. `RocLink`: ROC host controller, pin probe, ROC target controller and pin objects over
   two channels, with timeouts, retries, re-entrant calls, resets and restarts, and its proof;
5. `StpFrames`: connection and both receive state machines over bytes, with damage, and
   the proof of what an undamaged line does;
6. `Firmware`: transmit queue, mailbox and reference counts under interrupts, main task
   and watchdog, and its proof;
7. `ProjectLoading`: command line, profiles, worklist, nesting rules, dimensions, names
   and their lookup, and the proof that each path is loaded once, that what is
   executed is well-formed as far as it is looked at, and what refusals are due to;
8. the proofs of `JobResolution` about the multiplier, the properties of test cases, the
   edges of jobs and the errors;
9. measures for the search of cycles and for the scheduler: both end, as far as safety can say so;
10. what is true of a damaged line for all payloads and any number of damages.

Left:

11. a composition of `CycleCheck`, `JobResolution` and `JobScheduler` in one
    specification, with the chain of section 6 as a theorem about it;
12. return values of the waits of `ProcessProbe`, working directories and `parseExports()`;
13. how the target finds the frames again after one damage (`TargetResynchronises`), for
    payloads in which no delimiter is hidden: `InStepUntilDamage` begins where it has found them.

## 3. Modules

| Module | Models | Notes |
|---|---|---|
| `DirectedGraph` | `directedgraph.h` | a graph is `[nodes, edges]`; edges are a sequence in the order of `insertEdge()`, because `edge()` returns the latest and `predecessors()` lists the newest first |
| `TopologicalRun` | abstract | a set `current` of at most one job, begun after all its predecessors, finished with an outcome |
| `JobScheduler` | `serialjobscheduler.cpp`, `jobdispatcher.cpp` (entry and exit of `dispatch`), `main.cpp` (event loop) | refines `TopologicalRun` with `current <- Range(running)` |
| `CycleCheck` | `DependencyResolver::beginResolve` | the recursion of `cyclicDependency()` is the stack `path` |
| `JobResolution` | `jobmultiplier.cpp`, `job.cpp`, `depends.cpp`, `DependencyResolver::completeResolve`, `Testcase::setTags` | |
| `TestcaseExec` | `testcase.cpp`, effects of `qst.cpp` and `processprobe.cpp` on it | the code of a document is left open |
| `ProjectLoading` | `commandlineparser.cpp`, `profileloader.cpp`, `projectresolver.cpp`, `hierarchyvalidator.cpp`, `component.cpp`, `dimension.cpp`, `matrix.cpp`, lookup in `jobdispatcher.cpp` | a document is a tree of items |
| `RocLink` | `rochostcontroller.cpp`, `pinprobe.cpp`, `roctargetcontroller.cpp`, `pintargetobject.cpp`, `arraylist.h`, `roc.h`, `pin.h` | messages are records in two channels |
| `StpFrames` | `stpsocket.cpp`, receiver of `serialinterface.cpp`, `stp.h` | frames are bytes on a line |
| `Firmware` | `launchpad-probe/main.cpp`, transmitter of `serialinterface.cpp`, `messagebuffer.cpp`, `sharedpointer.h`, `mailbox.h` | every step of the task between two interrupts is an action |
| `MC...` | instances for TLC | graphs, projects, inputs and bounds |
| `..._proof` | theorems | one for each of the eight state machines above |

How state and actions correspond to the code, beyond the comments in the modules:

* **JobScheduler.** `todo`, `ready`, `counts`, `done`, `results` and `data` are the fields
  of `SerialJobScheduler`; `posted` is the Qt event queue with the two queued
  connections of `main.cpp:188-194`, `running` the stack of test cases inside
  `dispatch()`: a stack and not one test case, because a nested event loop would
  deliver a second posted `dispatch()`; `OneByOne` states that this never
  happens. `Start` and `OnJobFinished` are the two slots as a whole, with the emission
  at their end. `data` maps a job and an alias to the positions of the edges whose
  predecessors' exports are listed there: a set, because `predecessors()` always lists the
  newest edge first. `EnterEventLoop` resets the exit flag as `QEventLoop::exec()` does.
  Loading a document may fail and ends the program with code 1 (`DispatchJob`), and so does a test case that
  calls `Qst.error()` or whose target does not answer (`TestcaseExits`).
* **CycleCheck.** `SanityCheck` is the first loop; `TryNode` the loop over `nodes()` in
  hash order; a call of the lambda is one of `CloseCycle`, `MeetVisited` and `Descend`,
  in the order of its conditions. `Descend` follows the newest Depends item only: the
  loop over predecessors returns in its first iteration. `EndSearch` ends with the
  preliminary exports or with the rejection.
* **JobResolution.** `StartMatrix`, `RefuseName`, `CombineName`, `NextName` and `AddUntagged`
  are the constructor of `JobMultiplier`; `VisitJob`, `VisitClass`, `ResolveItem`,
  `LeaveJob` and `FinishResolve` the three nested loops of `completeResolve()`.
  The lists of hash sets are taken in any order, those of maps in their order. A tag expression is told by
  what it evaluates to: a single value, an array, nothing (`undefined`, which exits) or something else (`other`, for
  which an assertion fails).
* **TestcaseExec.** The state functions of `exec()` are actions in the order of the code;
  `frames` is the stack of JavaScript functions and waiting C++ functions,
  `exception` the pending exception of the engine. A frame is `struck` by a failure
  raised while it is in progress. Events are delivered where the code runs an event
  loop. When `exec()` is not called (`stage = "idle"`) there is no current test case:
  a failing verification ends the program through `error()`, and the report of a
  crashed process through a null pointer (`"crashed"`). `ReportError` is `Qst.error()` and `ProbeLost` a controller
  that gives up its target: both call `::exit()`, whatever is in progress.
* **ProjectLoading.** `stage` is the place in `execRunCommand()` and its callees, or the
  way the program ended: `error` (printed, exit code), `exit` (`::exit()` inside a
  callback of the QML engine), `crash` (undefined behaviour or an assertion), `lost`
  (test case not found), `failed` (the document of a job cannot be loaded or completed again).
  A path is a directory, a detour (the part from the first `.` or `..` on, which the file system resolves) and
  a name: `makeAbsolute()` keeps the detours of relative references, so that one file has several paths, and
  `FileOf` is `QDir::cleanPath()`. `BeginRoot` is the first part of `beginLoad()`, with everything
  `beginCreate()` does to the first document; `ResolveReference` is one iteration of
  the loop over `m_unresolvedReferences`. `current` says whether the weak pointer
  `m_currentDocument` still has a document. `Begun` gives test cases without a name the
  next number, `CompleteDocument` is one iteration of `completeLoad()`. A document whose root is
  an object that is not one of QST is begun and then fails the assertion in line 242
  (`CreationAsserts`). `Dispatch` loads
  the document of a job again, with the counter reset, and seeks the name. A name is a text and
  a number behind it, so that a given name may be one that is made (`DefaultName`).
* **RocLink.** `wait` is the one `QEventLoop` of `sendMessageBlocking()`: what it waits for,
  and by which answer `m_loop.exit()` has been called. Requests are numbered
  (`sent`), and answers carry the number of the request they answer: the protocol has no
  such number, the host does not look at it, and `OwnAnswer` is about it. `toTarget`
  and `toHost` are the channels with all buffers on the way. `Receive...` are the cases of
  `onReadyRead()`, `...Returns` what the callers of the wait do next; a handler that writes
  a pin during a wait (`nested`) returns at once. `Killed` and `Restart` are a user
  who stops `qst` and starts it again; `CheckConnection` is the 600 ms clock of the
  target, `Watchdog` the reset of `Firmware`.
* **StpFrames.** `rxState`, `rxBuffer`, `needed` and `queue` are the fields of `StpSocket`; one
  action is one round of the loop in `onUartReadyRead()`. `storage` tells what the pointer
  `header` (taken before `append()`) sees: undefined behaviour is the choice in `Seen`, and in `Lengths`:
  the length of a message is read through `header` after `append()` has outgrown what was reserved, so that it may be
  any of `Garbage`. `framed` and `misread` are histories: the payloads of the frames that were read, and whether
  one was handed over with a wrong length.
  `rx` is the receiver of the target, one action for one callback of the UART driver.
* **Firmware.** `pc` is the place of the main task between two accesses to shared state.
  Callbacks (`Swi`) are atomic, because software interrupts of one priority do not
  interrupt each other; they interleave with the task except while it holds the `GateSwi`.
  `LoadCount` and `StoreCount` are the two halves of the increment without a lock,
  `DropOut` and `Release` each drop two references one after the other. `hung` is an
  endless loop of a failed assertion or of the default branch of `processMessage()`.

## 4. Runs

| Run | States | Shows |
|---|---|---|
| `job_scheduler` | 63 916 | order, exclusion, counters, exports, exit code, termination and the refinement |
| `cycle_check` | 92 789 | what the search accepts and reports |
| `job_resolution` | 19 798 | one job for each combination, edges as documented where code and documentation mean the same, roots and acyclicity inherited |
| `testcase_exec` | 21 761 | failures abort, verdicts stand, one log line each, execution ends |
| `project_loading` | 81 667 | every path once, nothing missing, nesting and dimensions as documented as far as they are looked at, refused for a reason or for one of four documented uses |
| `roc_link` | 747 928 | host and target agree, memory of the target, own answers, honest loss, requests end, also when answers come late |
| `stp_frames` | 980 014 | messages complete and in order, a host that has lost the frames stays deaf, the target resynchronises, connecting ends |
| `firmware` | 344 267 | exact counts, no lost message, justified resets, the queue drains, a hang ends |
| `hidden_cycle` | violation | a cycle that is accepted |
| `two_aliases` | violation | an alias without its values |
| `failure_is_final` | violation | `run()` of a test case that has failed |
| `unnamed_testcases` | violation | a test case that is not found when its job is executed |

Bounds and why they are enough:

* `job_scheduler`: every multigraph of three jobs and up to three edges, thus chains, forks,
  joins, parallel edges, self-dependencies and cycles in every combination; two diamonds
  of four jobs for joins of joins; and the empty graph. Graphs without a root are left out:
  `start()` asserts that there is one, and `AcceptedHasRoot` with `RootedJobs` says why.
  A release is decided by one count per job, so longer chains repeat what three
  jobs show; the proofs remove the bound altogether.
* `cycle_check`: every project of three test cases and up to four Depends items, in every
  order of the items, and every project of four test cases with at most one item in each,
  so that a search can join the trail of an earlier one behind a tail. One alias that is an
  identifier and one that is not.
* `job_resolution`: ten lists of matrices (none, one or two dimensions, a radix of three,
  matrices that share a test case or not, one job in a matrix, all the errors), times
  lists of Depends items over three test cases (single, chain, fork, join, parallel, hidden
  cycle), times five forms of tag expressions (none, a value, the own value, arrays of equal and of different lengths),
  a chain with four faulty ones (an empty array, undefined, of another type, both), times two sets of declared
  properties. One of the dimensions has two equal rows, so that two jobs have the same tags.
* `testcase_exec`: `MaxCalls = 3` calls from signals and events for each of `LastTest = 2`
  test cases and `MaxDepth = 4` calls in progress: `run()` that waits, a handler called by
  the wait, and a wait inside it, with a function on top; two test cases for a process
  that outlives its own.
* `project_loading`: four families of inputs. Command lines: every command, form of
  `--file` (a file, a directory with and without slash, none), number of profiles and search path, over directories with
  one, two or no files and profiles that are absent, broken, or in the directory of the configuration only.
  Trees: a project of two references at most, whose targets are test cases, projects that
  refer on (also back, to a fourth file in another directory, and to a file by a second spelling of its path), files that are absent and
  files with each kind of fault, one whose root is no item of QST among them, in every pair.
  Nestings: every item type at every place of a document of three items, so that each pair of parent and child occurs with a
  grandparent. Dimensions: up to two bindings of each kind, undefined values and values of other types among them, in both scopes of a matrix. Faults of
  one family do not meet those of another; each is reported where it is met, by code that
  does not know of the others.
* `roc_link`: an input and an output, on pins of their own or (an error) on one; a third pin
  to move to; as many heap addresses as probes, so that an address is used again by the next
  registration; two test cases with one disturbance, one with two, or one with a disturbance and a late answer, a disturbance being
  a property written by `run()`, an edge, a host that is late or killed. `Slots = 2` is the number of probes,
  so a slot that is not given back would be missed by the second test case. A timer
  of the host expires when its answer is not on its way, and once when it is.
* `stp_frames`: a payload of one byte and one that begins with a delimiter; each direction with one
  damage and up to three messages (one that is damaged, one to resynchronise, one to receive),
  and both directions with two connections. Longer messages and a second damage repeat
  the states of the receivers: each keeps what it needs in four fields. `Garbage = {0, 1, 3}`: freed storage may show a
  message that is empty, cut or too long.
* `firmware`: five buffers, which is more than can be referenced with two messages in each direction and
  two notifications; a mailbox of one slot, so that it overflows (`project.cfg:98` has four, which would
  take five unread messages to overflow). `Expiry = 2`: the clock kicks every 517 ms
  (`project.cfg:102`), and the chip is reset after twice 527 ms (`main.cpp:57`).

`TargetResynchronises` is true within these bounds and not in general, since a payload may hide a header of its
own. What is true for all payloads and budgets is proved: of an undamaged line `HostGetsMessages` and
`TargetGetsMessages`, of a damaged one `InStepUntilDamage` (the target) and `SearchesAreLost` (the host, with
`DeafForGood`). How many wrong messages the host delivers after a damage has no bound: with a length it reads from a
payload it may come to stand at a frame again, behind a message that nobody sent.

Deadlock is not checked, because each of these programs stops: when it has exited, when
the search has decided, when resolution is done, when all test cases have been executed, or
when the budget for messages and disturbances is spent and all have been handled.

## 5. Fairness

* `JobScheduler!FairSpec` is weak fairness of `Next`: Qt's event loop delivers a posted call,
  and a test case ends. The latter is what `EveryExecutionEnds` says of `TestcaseExec`.
* `TestcaseExec!FairSpec` is weak fairness of `Next` (the engine goes on executing, and events
  that are due are delivered), and strong fairness of each timer: a timer is noticed only while its
  or an inner event loop is on top of the stack, which is so again and again but not all
  the time. `waitUntilExpression()` processes events in each iteration, so this is what Qt does.
  The bound on calls stands for the assumption that a document does not create events for
  itself without end: such a document would never end and the code has no defence. A
  function that never returns is not excluded by the code either, and not modelled.
* `RocLink!Fairness`: the event loop of the host returns after `exit()`, delivers what has
  arrived and serves its timers; the scheduler of the target runs its task and its clocks. Nothing is
  assumed of the test function, of edges or of the user.
* `StpFrames!Fairness`: bytes that are on the line are read, and the timer of
  `connectToTarget()` runs. Nobody has to send.
* `Firmware!Fairness`: the task is scheduled, the UART ends each transmission, the clock
  and the watchdog run. `WatchdogClockCallback` carries a timing assumption besides: a task
  that does not hang takes its events before the next period ends, because a period is half a second and
  what the task does takes milliseconds. Without it no property about the watchdog holds.
* The other specifications have no liveness property: their loops are over finite lists,
  except the worklist of `ProjectLoading`, which takes each path once.

## 6. Proofs

Assumptions: those on the constants, stated and named in the modules, and nothing else. They
say what the inputs are: finite sets of ids and probes; edges between nodes of the graph;
matrices with at least one dimension, whose dimensions have rows with a value for each of their
tags (`MatricesAssumption`; `DimensionParser` and `HasEmptyDimension` see to it, and
`ExecutedIsWellFormed` says so); documents that are trees (`DocumentsAssumption`), in a file system of
finitely many files (`InputsAssumption`); pins with
configurations, addresses that are not null (`LinkAssumption`); payloads of 1 to 32 bytes
(`FramesAssumption`: a ROC message has a header, and the firmware refuses longer ones, line 137 of
`serialinterface.cpp`). They do not bound the number of jobs, items, frames, probes, slots or
budgets. TLC evaluates them on every run. None of the theorems uses fairness.

The induction theorems of the library take an operator as a parameter and cannot be used here.
Where a proof is by induction over the length of a list, it uses the same principle for a set
(`SetInduction`, `InductionForSets`): a set of numbers that contains 0 and with n also n + 1
contains all, since the numbers it misses would have a least one. This is enough for the
recursive functions of the models (`Delivered`, the place values of `Divider`); it does not help with
recursive operators.

* **`JobScheduler_proof`.** The properties are not inductive: that a released job has only
  finished predecessors needs to be known of the ready list, and exclusion needs the
  shape of the event queue. The inductive invariant adds the shape of the event queue (at most one call, at
  most one test case, nothing after the exit flag is set), the phases of the run, the
  domain of the counts, and that results and done go together. Released jobs are
  characterised by counting edges: an edge set splits into those from finished jobs and
  the rest, so subtracting multiplicities keeps counts exact. The refinement follows:
  `DispatchJob` is `Begin` or ends the program, `TestcaseEnds` is `End`, `TestcaseExits` is `Abort`, `LeaveEventLoop`
  is `Close`, and the rest stutters. `JobsRunOneByOne` and `ScheduleIsTopological` are consequences;
  the run checks them through the refinement.
  `AcyclicRunsAreComplete`: over an acyclic graph, a run with a verdict has executed all jobs.
  `ExportInv` says of each job on its way from the ready list to its end what `ExportsArrive` says of
  executed ones: `onJobFinished()` stores the data of the job it announces, all predecessors of
  that job have ended, so what they export is final, and no other job is announced before it has
  ended, so nobody stores anything else.
  `RunsShrink` and `RunsNeverStick` are the safety half of `EveryRunEnds`: each step diminishes the
  number `Remaining`, three steps for each job that has not ended and the phases the program
  has still to go through; and until it has exited `ToBeDone` names a step and what its guard needs: the
  lists `Start` and `OnJobFinished` choose from exist (`ListingsExist`). What is left to TLC is that a
  step that can be taken is taken, which is fairness.
* **`CycleCheck_proof`.** The key is `SearchInv`, about sets in which each test case has a
  last Depends item and that item names a member of the set (`FollowClosed`): as long as
  nothing is reported, such a set contains no node whose search has ended.
  At acceptance no such set is left but the empty one, so the function "last predecessor"
  has no cycle and there is a root (`RootGuaranteed`); where each test case has one item at most
  this is acyclicity itself (`SimpleCyclesFound`). `NoFalseAlarm` takes the part of
  the path from the closing node on as the cyclic core; `NoDoubleReport` uses that a reported
  node is visited and off the path. `VerdictsHaveReasons` says what a rejection and an acceptance mean.
  `SearchesEnd`: the nodes not tried, those not visited and the call in progress make a number that
  each step diminishes (`Left`), and before the verdict a step is possible (`CanGoOn`), which needs that
  the list of predecessors of the last node is empty or has a newest edge.
* **`JobResolution_proof`.** Every job edge is justified by a Depends item between the test
  cases of its jobs; so jobs on a cycle have test cases on a cycle (`JobsAreAcyclic`), and a job
  of a root test case has no edge into it (`JobsAreRooted`; it needs that every test case
  has a job when the resolution begins, which is `CoverInv`).
  `JobsAreCombinations` is about numbers: `expand()` takes digit d of index k as
  `(k \div Divider(dims)[d]) % Len(dims[d])`, counted from 0, and the choices of one row per dimension are the lists of digits. By
  induction over the dimensions, each list of digits belongs to exactly one index below the product
  of the sizes. `MInv` adds what the loops of `combine()` have done so far: the tagged jobs are,
  one to one, the triples of a matrix, one of its test cases and one of its columns that
  have been passed. Equal rows make jobs of equal tags, so jobs correspond to choices
  of rows and not to sets of tags. `TagsAreFresh` (`PropsInv`) needs that a test case
  is in one matrix at most: then all its jobs have tags for the same labels, and each job
  overwrites what the one before has left. `EdgesAreRelations` (`TreatedInv`) counts what the code asks for (`Asked`), which is what `Related` translates from
  `doc/depends-item.rst` for the dependencies that are `Unequivocal`: when the
  dependency p of the current job has been treated, there are as many edges from p as
  relations named by the Depends items, those on other dependencies have added none,
  and jobs to be visited have none yet. These relations are still told in terms of the shared object;
  `JobsAreDocumented` puts the two together: what the object shows of the visited job is what the job has
  been given or the test case declares (`OwnOrGiven`), so at the end the graph is one that can be computed
  from the documents alone. `FaultsAreRefused` is about the errors (`FaultInv`): the program exits in `StartMatrix`, in
  `RefuseName` or at an item with an undefined value, with arrays of different lengths or without partner only if
  there is such a matrix, name or item, an assertion fails only at an item with a value of another type, and what is
  finished has none of these. A partner is one in the sense of the code, which asks for equal tags. `JobsCanBeScheduled`: what is handed over satisfies the assumptions of `JobScheduler`.
* **`TestcaseExec_proof`.** The inductive invariant relates the stack, the exception and the
  stage: a struck frame implies a pending exception, an expression has its wait below it,
  nothing but one slot is called between two test cases, and nothing is called after the log line
  until components are cleaned up. From it each step of a document has one effect on
  results at most: it fails the current test case, while that is executed and not being
  logged (`DocumentEffect`). `ResultsStand` and `LogIsComplete` follow from that.
* **`ProjectLoading_proof`.** `PathLoadedOnce` speaks of accepted projects; while the loop runs, `Tracked`
  holds instead: everything a loaded document refers to is resolved or in the worklist,
  everything in the worklist is referred to by a loaded document, and as long as there is no
  error, what is resolved has been loaded. When the worklist is empty and there is no error,
  this is `Complete`; `NamedApart` is what `FindDuplicates` tests. That no path comes twice
  follows from `Paths \subseteq resolved`. A file may come twice, by two paths: the names of its documents are then
  equal but for those that are made, and made names are numbered through all documents (`Numbered`,
  `NumberingInvariance`), so `NamedApart` leaves only files whose test cases are nameless (`RepeatedNameless`).
  The file system is any function from paths to documents: of any size, with references in circles.
  `WellFormedIsExecuted` follows the stages of a document (`WInv`): it is in the list if it has compiled
  and its bindings apply, it is being created if its nesting is legal, and `completeLoad()` passes it
  if no Dimension is without rows. `RowsArePaired` then computes the rows of a Dimension from its
  bindings. The first attempt failed at documents whose root is an object that is not one of QST,
  which an earlier model accepted: nothing is left to validate there, but the program ends in the
  assertion of line 242, now `CreationAsserts`.
  `RefusalsHaveReasons` (`RInv`) looks at the other side: whatever has set the error flag or ends the program with a
  message is a defect of a document among those the given file refers to, directly or not (`Needed`, the least set
  that is closed under references), or of the profile or the command line, all three told by what the documentation says
  and not by what the program has found (`Root`, `DocumentedPaths`, `Expected`); or it is one of the four uses in
  `Disagreement`, which the documentation allows and the program refuses (section 7). The loader only visits what is
  needed, since it adds what visited documents refer to; names that meet are given twice, or one of them is made
  and another given (`NumberIsTaken`), and a made name has a number below that of the test cases without a name (`Numbered`).
  `ValidMeansLocations` compares the validator with the "Locations" of the documentation, for every item whose parent
  it visits; items below an object that is not one of QST are not looked at, though a test case among them is executed.

* **`Firmware_proof`.** `CountsAreExact` alone is not inductive: `StoreCount` writes a value that has been
  loaded before, and it must still be true. `Control` says that it is (`pc = "store"` implies
  `count = refs[data]`), and this is preserved because of `Separate`: a received buffer is in one place
  (receiver, mailbox or task) and never in the transmit queue, so no callback touches the
  count of the buffer the task is about to reference. `Control` also says that the transmission is not
  activated between the task's test and its start, which is what the gate is for, and that a
  new buffer is not in the queue yet. With the counts, a deleted buffer occurs nowhere, so a new one is
  not one in use (`FreshIsUnused`). `NothingLost` numbers the buffers on their way: the one on the line
  and the queue hold consecutive numbers, and the queue only grows at its end
  (`WaitingGrows`). For the watchdog, `Kicked` relates the periods since the last kick to
  the kicks that were taken together with a message.

* **`RocLink_proof`.** Three invariants, one on top of the other. `Core` holds whatever
  comes late or is lost: types and control (what the test case, the controller and the
  call in progress are doing goes together), the registries `m_ids` and `m_objects` are inverse to each other
  (`Inverses`), numbered messages are in the order they were sent in (`InOrder`), a message
  with the number of the call in progress is about this call (`Own`), an address on its way to
  the host is new there (`NewAddresses`), and registered probes are in memory while the target is
  connected (`Alive`). `PingsCount` adds up: the unanswered pings are those on their way, the answers on
  their way, and those lost for good, and from it follows `LossHasReason`. `AnswersAreOwn` follows because
  an answer that is not overtaken has none of an earlier request behind it.
  `Memory` is about the target: the list has each object once (`Listed`), no `Connect` or `Destruct` is
  ahead of a message for the object it deletes (`Addressed`), and the slots in use and those still to be
  asked for are not more than the probes still to be registered leave (`Slotted`), so the list
  never needs more slots than there are probes (`MemoryIsSafe`).
  `Pins` is what `PinsDoAgree` needs while messages are on their way: at most one request is open
  (`OneOpen`), a pin has an object that knows it (`Instances`, `Initing`), and host and target agree up to
  what is under way (`Agreement`): a request in `toTarget` will change the target, an answer in `toHost`
  the host, and the last notification in `toHost` carries the value of the pin.
* **`StpFrames_proof`.** A receiver sees bytes, the property speaks of messages. The link between them is
  `Stream(s, ms)`: s is a row of whole frames, whose ends `Boundaries` lists, with the payloads ms.
  `HostInv` says of an undamaged line that the bytes in `m_rxBuffer` and those on the
  line, in this order, are such a row, and that the payloads read (`framed`) and those
  of the row are together what the target has sent; `GivenInv`, that the layer above has them as long as no length
  is misread. Sending makes the row longer at its end
  (`StreamAppend`), a step of the receiver moves bytes from the line to the buffer, which changes nothing,
  and the end of a frame takes the first one off (`StreamHead`). A header that is read has the length of
  that frame (`HeaderRead`), which needs that `needed` always completes the header
  (`HostTypes`). `TargetInv` is the same with `Received`, the part of a frame that `rx` has. Since the receiver of the
  target is never out of step, no payload is looked at as a header, and none can stop it.
  Resets, late replies and reconnections are frames without payload, which `Delivered` leaves out.
  `InStepUntilDamage` does not ask how the receiver of the target has come to the frames: in any state in
  which it is `InStep` with messages ms on the way, every step but a damage keeps it so and gives messages of
  ms, in order, or puts new ones behind them; `TargetGetsMessages` is the case in which it has been in step
  from the start. For the host there is no such way back: a header without delimiters leads to a search
  that cannot succeed (`Lost`: the pointer `header` shows nothing, or the buffer is longer than the four bytes
  that are sought), nothing that can happen ends it, and `HostOpens` does not reset the receiver.

Together: an accepted project has Depends items between its own test cases (`VerdictsHaveReasons`), which is
what `JobResolution` assumes, and the resolution gives the scheduler what that assumes
(`JobsCanBeScheduled`). `RootGuaranteed` and `JobsAreRooted` discharge the assertion in
`SerialJobScheduler::start()`; `JobsAreAcyclic` and `AcyclicRunsAreComplete` say that a
project whose test cases have no cyclic dependency executes all its jobs, in topological
order. What is missing is acyclicity of an accepted project in general, and it is false
(`hidden_cycle`). The three modules are not composed in one specification yet.

Checked by TLC only:

* liveness (`EveryRunEnds`, `EveryExecutionEnds`, `QueueDrains`, `HangEnds`, `ConnectEnds`,
  `EveryRequestEnds`, `ProbeFreed`), which the prover does not handle;
* `TargetResynchronises`, which depends on the payloads (section 4): it is not true for all values of
  the constants, so there is nothing to prove but the part named above.

Every other safety property of the passing runs is a theorem.

## 7. Disagreements between code and documentation

Each is a run that ends in a violation.

1. `hidden_cycle`: "Test graph for cycles" (`dependencyresolver.cpp:172`). The search follows one
   Depends item of each test case. A project with a cycle elsewhere is accepted; the jobs on
   the cycle and behind it are silently not executed, and the exit code is 0 if the others pass
   (`OnlyCyclesStarve`, `VerdictIsTrue`).
2. `two_aliases`: `doc/depends-item.rst:146-149` allows several Depends items on one test case, each
   with an alias. `edge()` returns the latest of them for each, so the values are stored
   under one alias, twice.
3. `failure_is_final`: `doc/qst-service.rst:83-84` says that the test won't be executed further. A
   failure in `processEvents()` before `run()` does not keep `run()` from being called.
4. `unnamed_testcases`: `doc/component-item.rst:45-46` promises a unique name. Test cases without a
   name are numbered through all documents when the project is loaded, and from the start again
   when the document of a job is loaded for execution. From the second document on, the
   name is not found, and the program ends; or it is the name of another test case.

What else was met while modelling. These are visible in the models or lie just outside them. The first list is
of further disagreements, which the properties name and set aside instead of a run of their own; of what is in the
others no document promises the contrary.

Documentation the code does not keep:

* "At least the same tags" (`doc/depends-item.rst:134-139`) is tested for equality
  (`dependencyresolver.cpp:309`), so that a job with more tags is no partner. A one-to-one relation is sought as soon
  as the dependency has more than one job, tagged or not (`:284`), and a single job is a partner whatever its tags
  are. `EdgesMatchDepends` holds the documentation's relation against the code where these make no difference
  (`Agreed`).
* `--file` may be a directory (`doc/command-line-interface.rst:45-47`), but the directory above it is searched unless the
  name ends with a slash, and what is found is taken relative to the current directory
  (`commandlineparser.cpp:141`, `:157`): `DirectoryIsGiven`.
* A profile may be in the directory of the configuration (`doc/command-line-interface.rst:63-66`,
  `doc/usage.rst:403-405`, `tests/auto/misc/test-misc.cpp:258-261`), which is not searched: `ProfileInConfig`.
* `testcases` of a Matrix may be a plain string (`doc/dimension-item.rst:37-38`), but then the scope is read before
  it is set (`matrix.cpp:76`) and the Matrix may be refused: `LiteralIsGiven`.
* A test case without a name is numbered without a look at given names, so that its name may not be unique
  (`doc/component-item.rst:45-46`): `NumberIsTaken`.
* Tags may be of any "trivial type" (`doc/dimension-item.rst:29-30`), but a real number that is computed fails an
  assertion, or is dropped in a release build, and an object that is no list fails another (`dimension.cpp:178`, `:184-187`;
  `depends.cpp:77`, `:83-87`). The models end in `crash` and `crashed`, and no property promises otherwise.
* Items have "Locations", but those below an object that is not one of QST are not validated
  (`qstitem.cpp:35-42`), and test cases among them are executed (`projectresolver.cpp:142`).

Host, loading and resolving:

* An empty project waits forever: `finished()` is emitted before the event loop is entered.
* A file that is missing after a document that did not compile is reported through an expired pointer
  (`projectresolver.cpp:184`); the loop uses a reference into a list after appending to it (`:127`);
  a Matrix as the root of a document passes the validator and ends in an assertion (`:110`).
* The same file under two spellings of a relative path is loaded twice: paths are made
  absolute but not normalised (`projectresolver.cpp:319`). It is accepted if its test cases have no names, and these
  are executed twice (`RepeatedNameless`).
* A test case that is called "project" in a project document is taken for the project by the dispatcher
  (`jobdispatcher.cpp:86-89`).

Host, execution:

* The log line of a test case is printed before components are cleaned up and `destruction()` is emitted
  (`testcase.cpp:202`); a failure there is not in the log.
* A process of a finished test case fails the next one.

Probe:

* A handler that writes a pin while a request is waited for sends a message whose answer ends the
  wait of the outer request. A late answer to `Connect` after a timeout ends the wait of its repetition, and the
  answer to that the wait of the request behind it, where an assertion fails
  (`rochostcontroller.cpp:112`). `OwnAnswer` excludes both by `irregular`; the agreement of both
  sides, the memory of the target and the end of every request do not depend on that.
* `ChangeIoid` is never answered: the setter waits until the connection is lost.
* A notification that was sent for the previous `qst` ends the next one with "unknown object".
* Messages to a target that is not connected, and a ping that is handled after the last `Destruct`, hang
  the target until its watchdog resets it; so does an exhausted heap.
* A kick of the watchdog that comes with a message is lost, because of the `else if` in
  `main.cpp:125`; two in a row reset a chip that works.
* The receiver of the host keeps a pointer into its buffer over `append()` and `clear()`
  (`stpsocket.cpp:100`, `:131-132`): a message may be cut or padded even if nothing is damaged, as soon as one is
  longer than the 8 bytes that are reserved (`:134`). It does not look at the checksum (`:130`), so damage can become messages
  that nobody sent. Once it searches for a delimiter, it is deaf for good (`DeafForGood`).
* The level of an input is read before its interrupt is enabled (`pintargetobject.cpp:96-98`); an edge
  in between is not notified.

## 8. Not modelled

* QML engine and Qt: modelled by how the code uses them (queued connections, nested event
  loops, exceptions, warnings). Garbage collection and binding evaluation are left out.
* Constraints and the signal probe are QML code that runs inside handlers of a test case;
  `TestcaseExec` leaves open what such code does. Their subject is measured time.
* Names, patterns, messages and paths: test cases, tags and aliases are members of small sets (a
  name of `ProjectLoading` a text and a number), and regular expressions are replaced by the list of names they match. A collision of the 32-bit
  hashes that identify test cases is not modelled: two names never share a node.
* Working directories, import paths, `parseExports()`, console, loggers and file items:
  input and output without state that other parts depend on.
* Process probe: what reports of a child process do to a test case is in `TestcaseExec`; the return values
  of `waitForStarted()` and `waitForFinished()` and the environment of the process are not.
* Initialisation of drivers, LEDs and pull resistors of the firmware.
