# A TLA+ model of CONCURRIT

CONCURRIT lets a tester write a *test script* that controls the interleaving of a
multi-threaded program (the SUT). The script is run again and again; each run is
one path of an execution tree, and the tool searches the tree depth first until
its root is covered, an assertion of the SUT fails, or the search is ended. This
directory models the parts of the tool that make that search correct, checks them
with TLC on small instances and proves the safety properties with TLAPS.

## The system

| Part | Source | State it keeps | Operations |
|---|---|---|---|
| Rendezvous | `src/dsl.cpp`, `src/scenario.cpp` | `atomic_ref_`, `LockNode::owner_`, `sem_ref_`, the static mutex and condition variable of `ExecutionTree`, `EndNode::exception_` | `AcquireRef(Ex)`, `ReleaseRef`, `OnControlledTransition`, the `DSL*` statements, `EndWithSuccess`, `EndWithException` |
| Execution tree and search | `src/dsl.cpp`, `include/dsl.h` | the tree, `node_stack_`, `stack_index_`, `covered_` flags | `AddToPath`, `GetNextNodeInStack`, `DoBacktrack`, `ComputeCoverage`, the node classes |
| Scenario life cycle | `src/scenario.cpp` | `test_status_`, the exceptions of an execution | `Explore`, `RunOnce`, `RunTestCase`, `RunUncontrolled`, `JoinAllThreads`, `Start`, `Finish` |
| Coroutines | `src/coroutine.cpp`, `src/group.cpp`, `include/channel.h` | the status of a coroutine, its channel, `sem_end_` | `Start`, `Run`, `SetStarted`, `SetEnded`, `WaitForEnd`, `Finish`, `Transfer`, `HandleMessage` |
| pthread interposition | `src/interpos.cpp` | the interposed functions, `concurrit_pthread_lock` | `pthread_create`, `pthread_join`, `pthread_exit` |
| Monitor and predicates | `src/pinmonitor.cpp`, `src/manual.cpp`, `src/transpred.cpp`, `include/transpred.h`, `include/api.h` | `PinMonitor::enabled_`, the auxiliary variables (`AuxState`) per thread, thread variables | the event handlers, `Reset`, `Clear`, `EvalState` of the predicates, constraints and thread expressions |
| Remote testing | `src/ipc.cpp`, `include/ipc.h`, `remote/` | two FIFOs, the map of shadow threads, their semaphores | `Send`, `Recv`, `Broadcast`, `WaitRecv`, `SignalRecv` |
| Test process | `src/concurrit.cpp`, `src/suite.cpp`, `src/result.cpp` | `current_scenario_`, `driver_handle_`, `sem_driver_load_`, `sem_test_start_`, the results | `RunAll`, `RunScenarios`, `CallDriverMain`, `LoadTestLibrary`, `UnloadTestLibrary`, `SignalHandler` |
| Support | `statistics`, `serialize`, `dot`, `config`, `util` | - | - |

How they interact. Main runs the script in `RunTestCase`. A statement publishes a
node in `atomic_ref_` and waits until it is consumed. A SUT thread reaches an
instrumented event, and `PinMonitor` calls `OnControlledTransition`, which takes
the node out of `atomic_ref_`, evaluates it, and consumes it, passes, or sleeps.
What it evaluates is a predicate over the auxiliary variables that the event
handlers of all threads write. Threads are members of a group that outlives an
execution: a member that has ended is restarted, by a message on its channel, when
the program creates a thread again. In remote testing the program is another
process, and a shadow thread of the server stands for each of its threads: an event
comes over a FIFO, the shadow thread handles it, and a continue goes back.
Whoever consumes a node appends it to the path. When the script returns or
backtracks, or when a thread raises an exception, an *end node* is put into
`atomic_ref_`; every thread that sees it runs on uncontrolled. `EndWithSuccess`
propagates coverage along the path, and `Explore` decides whether to run again.
Around all this, a suite explores one scenario after the other; a driver thread loads
the program, runs its `main` and tells main when the test begins; a signal may
interrupt any thread and finish the scenario from there.

What is hard here: `atomic_ref_` is a spin lock, a mailbox and an end-of-test flag
at the same time; the semaphore is a turnstile; the condition variable is used
without its mutex on the notifying side; every wait of main has a timeout that
races the answer; the end of an execution can be announced by main and by any
number of threads at once; and the next execution reuses all this state.

What makes each part correct:

* rendezvous: at most one coroutine has the node; what is published is what the
  script is at; nobody sleeps in front of a ref that is ready for him; after the
  end node nobody is controlled; main and the threads always get out;
* search: every branch the script can take is run, none twice, and the search ends;
  the stack is a path of the tree although covered subtrees are deleted;
* coroutines: no message is lost, the two tokens of `sem_end_` are always accounted
  for, the executions do not overlap, the search ends also when threads hang;
* life cycle and test process: an execution inherits nothing from the one before it,
  no script runs before its program has started the test, code is not unloaded under
  a thread, a search reported as a success has covered its tree, the process ends;
* monitor and predicates: a predicate sees what the threads did, in the current
  transition, the current call and the current execution;
* remote: one message per call in the whole system, every call and command returns,
  unless the end of a test has met it in one of three known ways.

## Modules

| Module | Models | TLC | TLAPS |
|---|---|---|---|
| `Mailbox` | what the rendezvous promises: the abstract specification | `rendezvous_all` | `RendezvousEndProofs` |
| `Rendezvous` | `atomic_ref_`, `OnControlledTransition`, statements, ends; implements `Mailbox` | `rendezvous_*` | `RendezvousProofs`, `RendezvousScriptProofs`, `RendezvousEndProofs` |
| `SearchTree` | the execution tree, coverage, backtracking | `search_*` | `SearchTreeProofs` |
| `CoroutineGroup` | channels, `sem_end_`, group, `pthread_*`, life cycle of the threads | `group_*` | `CoroutineGroupProofs` |
| `EventMonitor` | event handlers, auxiliary state, predicates | `event_all` | `EventMonitorProofs` |
| `RemotePipe` | server, client and controller processes | `remote_*` | `RemotePipeProofs` |
| `Exploration` | suite, `Explore`, `RunOnce`, driver and library, start of the test, signals, report | `exploration_all` | `ExplorationProofs` |

`MC<module>` holds the scripts, programs and settings of its instances. The operators
whose comment begins with "Mutant of" are plausible mistakes in the definition that
follows them: replacing the one by the other makes a property of the run fail, which
shows that the property depends on that line of the code.

The modules meet at named interfaces and are not composed in one state space.
`Rendezvous` leaves the answer of a predicate open (`Outcomes`: what
`EvalTransition` and `EvalSelectThread` can return for a kind of statement);
`EventMonitor` computes the answer and abstracts from how a thread got the node
(`holder`). `Rendezvous` runs one script of given length; `SearchTree` says which
branch and thread come next and takes a statement as one step. `CoroutineGroup`
leaves out what threads do between `pthread` calls. `Exploration` has the same
executions from outside: a script is one step with any of its outcomes (what happens
inside is in `Rendezvous`), `Backtrack` takes one of `Paths` off (`SearchTree` shows that it
is exactly one), and joining the threads waits until they have ended or hang (how it
does that is in `CoroutineGroup`).

### Rendezvous

Every shared access is one action. `ref`, `owner`, `sem`, `mutex`, `exc`, `path` are
the shared state; `pc[c]` is where coroutine `c` is, `goal[c]` why it called
`AcquireRef`, `node[c]`, `out[c]`, `prev[c]` and `err[c]` are its locals.

* `Exchange`, `ResolveLock`, `ResolveRestore`, `ResolveEnd`, `SemWait`, `SemSignal`,
  `SpinTimeout`, `WaitTimeout`, `ElapsedTimeout`: the loop of `AcquireRef`. A
  coroutine that gets the lock node spins, one that gets the wrong thing puts it
  back and goes to the turnstile `sem_ref_`.
* `ReleaseRef`, with its asserts and `AddToPath`.
* `BeginTransition` ... `Reacquire`: `OnControlledTransition` from the entry to the
  condition variable and back. Broadcasting does not take the mutex, so a wakeup can
  be lost between `ReleaseTransition` and `Park`; the timeout is an action.
* `Raise`, `WriteException`, `InsertEnd`, `NotifyWaiters`: `EndWithException` of any
  coroutine.
* `BeginStatement` ... `PostSuccess`: the `DSL*` statements, `RunTestCase`'s catch
  block, `EndWithSuccess` with `ForceLock`, then `RunUncontrolled`, the join and
  `Restart`, which resets everything for the next execution.

Time is abstracted: a timed wait may expire whenever it has to wait. `aborted` names
the `safe_assert` that would end the process.

`Mailbox` says what the author of a script may rely on: statements take effect in order
and at most once; a statement for a thread is on offer until one thread takes it or the
execution is closed; nothing is taken after the close. `ImplementsMailbox` is that
specification under the mapping at the end of `Rendezvous`:

* `offers`: the nodes in `atomic_ref_`, or held by a coroutine that has locked it. A thread
  that evaluates a node has not taken it yet; putting it back must restore the offer;
* `taken`: the length of the path that has been consumed (`NumConsumed`);
* `phase`: `"closed"` from the end node on, `"open"` while main is between statements or in
  one (`InScript`), else `"closing"`: the script has returned or thrown, and a thread that
  is faster than main's end node may still consume the last offer.

So the exchange, the turnstile, the sleepers, the retries and the timeouts are all
stutters, and the only step that drops an offer other than the close is main's
overwriting of the ref when all threads have ended (`Withdraw`).

### SearchTree

`tree` maps the name of a node (the branch numbers from the root) to its statement,
`covered_` flag, child slots and threads; `stack` and `index` are `node_stack_` and
`stack_index_`. `DSLChoice`, `DSLConditional`, `DSLTransition`, `ForallSelect`,
`ForallRefuse`, `ExistsSelect` consume a statement; `Timeout`, `ThreadsAllEnded`,
`EndTest`, `AssumeFails`, `ReplayFails`, `ScriptEnd` end a run; `EndExists` and
`EndBacktrack` are `EndWithSuccess` (coverage, deletion, truncation, in this order),
`Restart` and `RootCovered` what `Explore` does next. A script is a graph of statements:
kind, source line, scope, and the statement after each branch. `Init` chooses one of
`Searches`: a script, a setting of `KeepExecutionTree`, `DeleteCoveredSubtrees` and
`MarkEndingBranchesCovered`, and the set `faults` of things that may end a run early. What
is said of the executed paths is said of searches without faults (`Undisturbed`): a run
that a timeout cuts short has no path of the script to account for. `PathLinked` is the part of
`StackIsPath` about pointers, `CalmSearches` the condition under which its last line is proved.

### CoroutineGroup

Actor 0 is main, 1 is the driver thread, the others are what it creates. A step ends
where the code releases a mutex, waits, or writes a field that is read unlocked.
`chan`, `sem`, `status` are the channel, `sem_end_` and `status_` of each member; `mx`,
`cmx`, `plock` the three locks; `woken` the condition waits that have been signalled.
`CreateStep` is `CreatePThread` to `Start`, `ThreadStep` is `Coroutine::Run`, `SutStep` what
the program calls, `WaitStep` is `WaitForEnd` with its two tokens, `MainStep` is
`RunOnce`, `JoinAllThreads`, `Explore` and `Finish`.

`Slow = FALSE` is a timing assumption: a timed wait expires only on a thread that is
`Stuck` (it hangs, or waits for one that does, or for a lock such a waiter holds) or a
semaphore that is `Contended`. `MaxWaitTimeUSecs` is chosen so that a thread that can
run ends in time.

### EventMonitor

`aux` is the set of `<<variable, thread, key, value>>` that are set. A thread follows one
of `Programs`, a sequence of events; its handler writes the variables one after the
other (`todo`, `WriteAux`), then takes the node (`TakeNode`), evaluates its constraints
and literals (`EvalIsSet`, `EvalGet`: two steps, the variable's read lock is held
between them) and decides (`Decide`). `Finish` is `FinishControlledTransition` with
`AuxState::Reset`; `AfterTransition` and `LeaveFunction` are the end of `FuncReturn`, which
leaves the function only after its transition. `StartTest` may come at any time, so
threads may be inside functions they entered unmonitored. `code`, `stack` and `recent`
are what the thread really did; the properties compare `aux` with them.

### RemotePipe

`client`, `shadow`, `worker`, `controller` and main are control points; `sem`, `sem2` and
`event` belong to the `ShadowThread` on each side of the pipe. Reading a message and
the handler's `OnRecv` are one step. `EndTiming` says when the controller may end the
test: at any time (`"any"`), or when no call is under way, and none is made until it has ended (`"quiet"`).

`SAFE_ASSERT` is defined, as `common.mk:17` does for `libclient.so` and `libserver.so`. A failed
assertion raises `SIGTERM`; `failed` names it, and nothing happens afterwards. So
`ClientEnd` has two outcomes: the assertion of `set_tls` that the slot is empty
(`remote/client.cpp:79`), which always fails when the slot is cleared (`:121`), ends the
client; or `OnEnd` goes on, when the program under test has a `SIGTERM` handler that
returns, or was built without `SAFE_ASSERT`. `HandleEvent` makes a shadow thread only when `clientpipe_` is set, which the
first `main0` does (`:378`): the pipe's worker is started before, while `OpenControlForDSL` waits for
the controller, and `AddressOfSymbol` is handled without a test. `Run` asserts the pointer (`:62`), so
the `UnregisterShadowThread` at its end (`:146`) always has one.

### Exploration

`pc` is where the main thread is: in `RunScenarios`, in a part of `RunOnce`, in `Explore`, in
`Finish`, in the report. `threads` is where the driver and the worker it creates are, `handler`
which thread is in the signal handler and where. `status`, `current`, `schedule`, `lib`, `loadSem`, `startSem`, `pinOn`
and `exc` are `test_status_`, `current_scenario_`, `schedule_ != NULL`, `driver_handle_`, the two
semaphores, `PinMonitor::enabled_` and the end node's exception.

* `BeginExplore`, `Start`, `RunSetUp`, `RunTestDriver`, `DriverLoaded`, `WaitForTestStart` with its timeout,
  `TestCase`, `RunUncontrolled`, `JoinAllThreads`, `JoinDeadlock`, `CancelJoinAll`, `RunTearDown`, `RunOnceEnds`: one execution.
* `FoundViolation`, `FoundRuntimeException`, `FoundWitness`, `StopSearch`, `BacktrackSearch`, `RepeatUncontrolled`:
  what `Explore` makes of it, with the countdown of `ExitOnFirstExecution`, which all scenarios
  of the suite share; `FinishStatus`, `Finish`; `BeginReport`, `ReportResult`, `PrintReport`: `RunAll`.
* `UnloadTestLibrary`, `LoadTestLibrary`, `CallDriverMain`, `CreateWorker`, `EnableForTest`, `SignalTestStart`, `EndTest`,
  `Raise`, `EndThread`, `Hang`: the driver and what the program calls.
* `SignalHandler`, `SignalAgain`, `OnSignal`, `FinishSignal`, `Kill`: a signal in any thread, at any time.

Assumptions, each a guard with a name: a thread that does not hang ends before main has
counted `MaxTimeOutsBeforeDeadlock` turns (`JoinDeadlock`), so a thread main gives up on really hangs;
with `SlowStart = FALSE` a program that is going to call `concurritStartTest` does so before main's
wait expires; cancelling a thread that hangs ends it, also in a signal handler. A
second delete of a schedule is undefined behaviour: it ends the process or goes unnoticed.

## What the runs check

| Run | Question | Result |
|---|---|---|
| `rendezvous_all` | two threads, a script with every kind of statement, exceptions of threads and script, spurious wakeups, slow holders, hanging threads: `LockExclusion`, `LockAsserts`, `ScriptInStep`, `NoSleepOnReadyRef`, `EndIsFinal`, and the refinement `ImplementsMailbox` | holds, 1.1M states |
| `rendezvous_live` | under fairness the script always ends (`ScriptTerminates`) and no thread stays in a transition (`ThreadsLeave`), lost wakeups included; no assert fails (`NoAbort`) | holds, 68k states |
| `rendezvous_force_lock` | is the lock safe when `concurritEndTest` is called by a running thread? | **no** |
| `rendezvous_assertion_lost` | does a violated assertion always reach `Explore`? | **no** |
| `search_all` | two scripts in all eight configurations: the search runs every path (`SearchComplete`), none twice (`NoRepeat`); two scripts with timeouts, ended threads, failed assumptions, changed conditions and retries: the stack stays a path (`StackIsPath`), no assert fails (`NoAbort`); every search ends (`SearchEnds`) | holds, 162k states |
| `search_unscoped` | `ForallTried` for a `FORALL` without a scope | **no** |
| `group_all` | three threads, two executions, joins in all directions, hangs and exceptions: tokens (`EndTokens`), messages (`MessageHasReader`), separation (`Isolated`), `CreateReturns`, `SearchEnds` | holds, 301k states |
| `group_deadlock_undetected` | does main always get out of `JoinAllThreads`? | **no** |
| `event_all` | two threads, any of three programs each, a script of five statements: `OwnEventExact`, `InFuncExact`, `SelectedStays`, `BoundToArgument`, `NoAbort` | holds, 683k states |
| `remote_all` | one client thread that lives twice, any order of commands, at any moment: no message is doubled, and one is lost in one way only (`OneMessage`); three assertions fail under stated conditions, no other does (`NoAbort`); calls and commands return, or wait for one of three named reasons (`EveryoneReturns`) | holds, 34k states |
| `remote_end_deadlock` | does `TestEnd` return when all calls have returned? | **no** |
| `exploration_all` | two scenarios, one of them a `TEST_EXISTS`, four settings, assertion failures, threads that hang, signals in any thread: no execution finds a token, a monitor that is on or a library that is gone (`CleanStart`, `ScriptAfterStart`, `LibraryInUse`), a success means a covered tree (`SearchedAll`), no assert fails but those named below (`NoAbort`), the process ends (`SuiteEnds`) | holds, 1.1M states |

### What `SearchComplete` and the `NoAbort`s excuse

With `MarkEndingBranchesCovered` a path is left out when its last decision is a choice
and another run went on from before it; that pruning is what the flag is for, and
`SearchComplete` says exactly how far it goes. `NoAbort` of `CoroutineGroup` excuses the
asserts met by a thread main has given up on. `NoAbort` of
`RemotePipe` says of each of the three assertions that do fail when it may: `set_tls` while a client thread
ends; before the first `main0`, the shadow thread of an `AddressOfSymbol` and the answer to a `TestEnd` (through
the null `controlpipe_`). `NoAbort` of `Exploration` excuses what
happens after a signal (the handler finishes the scenario under main's feet), and three
states the code really reaches: the restart of a thread that hangs, the report of a
deadlock, and the report of a result that owns a schedule (see "Seen while modelling").

### What `OneMessage` and `EveryoneReturns` excuse

A test may be ended while a call is under way. Each excuse is a state the code really gets into:

* `Ignored`: `EndTest` has ended the shadow thread of an event that is with the worker of
  the client pipe. `thread_func` finds no thread for it and drops it (`src/ipc.cpp:396`), and the client
  thread waits for ever. `OneMessage` allows a call without a message in this case only.
* `WorkerStuck`: the worker has found the shadow thread, and the thread leaves its loop before
  the worker's `SignalRecv` (`src/ipc.cpp:398`), which then waits for a buffer nobody frees.
* `BroadcastStuck`: `Broadcast` waits, with `map_mutex_`, for a thread that needs it to
  unregister (`src/ipc.cpp:423`). `remote_end_deadlock` shows that this happens also when no call is under way.

A command has the last excuse only. A call or a command that waits for another reason violates `EveryoneReturns`.

### Bounds

* Two threads in `Rendezvous` and `EventMonitor`: the one that holds the node and one
  that wants it; main is the third party. `MaxSem = 4` saturates the semaphore; with
  three coroutines at most three tokens are ever of use.
* Scripts of five or six statements: each kind occurs, once with a predecessor and
  once with a successor of another kind; `Loop` meets a line twice on a path.
* `MaxChildren` caps the children of an unscoped forall, which the code lets grow.
* `MaxExecutions = 2` is a first start and a restart; `MaxTimeOuts = 2` distinguishes the
  last timeout from the others. In `Rendezvous`, `SearchTree` and `EventMonitor`
  the number of executions is not bounded: a restart leads back to earlier states.
* `Exploration`: two scenarios, so that one inherits from the other, the second with
  `TEST_EXISTS`; `Paths = 2` is a backtrack that goes on and one that covers the root; the settings
  are an unlimited search with a reload of the library for each execution, the same with `-k`
  (threads are cancelled, not joined), `-f1` without a reload, and an uncontrolled run of two executions (`-f2`). One worker is enough for a thread that outlives the driver.
* `MaxTid = 2` lets one client thread end and start again with a fresh number, so that the end of one shadow
  thread races with events of the next; with `MaxTid = 3` (83k states) and, for the invariants, with two client threads
  (4.0M states) the properties hold as well. `MaxNotices` caps the starts and ends
  of tests the client has not read yet, two of them so that one of each may be on its way.
* Programs of `EventMonitor`: recursion, a read and a write in one instruction, and a
  call with a program counter, the end of the instrumentation and of the test. Threads
  are interchangeable, hence the symmetry set; the run has no liveness property.

### Fairness

Weak fairness of the steps of each thread, of main and of the workers: the operating
system schedules every runnable thread. Strong fairness only where the code competes
for something that is taken and given back: the exchange of the ref, the condition
variable's mutex and the elapsed timeout in `Rendezvous`; `map_mutex_` and the server's
handlers in `RemotePipe`. Nothing is assumed of the program under test: it need not
report another event, may hang (`SutMayHang`, `Hangs`), and the conclusions excuse
exactly the threads that do. `SearchTree` is sequential; its fairness is that the search
goes on. In `Exploration` main, the driver while it loads the library or is inside
`concurritStartTest`, and a signal handler keep running; a thread of the program ends or
hangs, since a thread that runs for ever cannot be told from one that hangs.

`CHECK_DEADLOCK FALSE` is used where threads under test may hang for good (in `Exploration`:
in an uncontrolled run, and when the process is gone) or where the system really comes to a
stop, as `RemotePipe` does when `Broadcast` is stuck.

## What is proved

TLC checks instances with two or three threads and one script; the theorems hold for every
value of the constants that satisfies the named assumption of the module. A theorem's own
`ASSUME` names the behaviours it needs excluded, each a switch of the model, and for each of
them a run or an entry of the next section shows what happens otherwise. The invariants
below were first checked with TLC on the instances of the runs. They are at the end of
each module, the proofs in modules of their own: each part of an invariant has one lemma,
with one case per action and under it one step per conjunct the action can disturb.

**Rendezvous**, for every set of threads, every script and every bound of the semaphore,
from `RendezvousAssumption` (main is no thread, the script is a sequence of known statements,
the null pointer is no node). All but the first assume `"THREADS_ALLENDED" \notin SutCalls`:
no running thread calls `concurritEndTest`; `rendezvous_force_lock` is the counterexample without it.

| Theorem | States | Rests on |
|---|---|---|
| `TypeCorrect` | `[]TypeOK` | `TypeInv`: what a coroutine holds at which control point, and that main is within the script while it submits. That a thread releases a node and not the empty ref depends on what it took out earlier |
| `LockCorrect` | `[](LockExclusion /\ LockAsserts)` | `OwnerInv`: the owner field at each control point, and that main forces the lock only when all threads have ended, which follows from where `THREADS_ALLENDED` can come from |
| `NoLostWakeup` | `[]NoSleepOnReadyRef` | `TurnstileInv`: when someone waits before a ref that has what he wants and `sem_ref_` is zero, someone is at `signal` or `post`. It says so also while a coroutine that only looks at the ref holds it for a moment, where `NoSleepOnReadyRef` says nothing |
| `ScriptCorrect` | `[]ScriptInStep` | `ScriptInv`: what is offered, in the ref or in someone's hands, is the statement main is at (`OfferInv`), where main is in a statement tells how long the path is (`StatementInv`), and an end node excludes an offer (`EndInv`) |
| `EndFinal` | `EndIsFinal`, an action property | `RendezvousInv`: `TypeInv`, `LockInv`, `ScriptInv`, and `EndSeen`: whoever is past the end, or posts it, an end node has been published |
| `MailboxImplemented` | `ImplementsMailbox`, the refinement | the initial states map to initial states, and each action to an action of `Mailbox` or a stutter; `offers` is one node because of the lock, `taken` is monotone because of `ScriptInv` |
| `NoAbortCorrect` | `[]NoAbort` | assumes the setting of `rendezvous_live` (threads raise assertion violations only, no spurious wakeup, no slow holder, no hang). `ExcInv`: every exception other than an assertion violation is main's own. `PrevInv`: a thread looks again at a statement it could not take only when its sleep is over, the statement is gone, or the thread that woke it still has to remove it |

**Exploration**, for every number of scenarios and paths, every setting, every set of
signals and hangs. `TypeCorrect`, `LibraryCorrect` (`LibraryInUse`), `SearchCorrect` (`SearchedAll`) and
`NoAbortCorrect` need no hypothesis. The invariant `LifeCycleInv` has four parts that hold up each
other: where main, driver, worker and handler may be together (`TypeInv`, `LifeInv`), in which of these
states the library is loaded (`LibraryInv`), and what the countdown of `-f`, the paths taken off and
the reason of the last end say about the search (`SearchInv`). `StartCorrect` (`ScriptAfterStart` and
`CleanStart`) assumes that a program starts the test at most once per execution and before
main stops waiting (`MaxStarts <= 1`, `~SlowStart`); `TokenInv` says where the one token is at each
control point of main and driver.

**SearchTree**, for every set of scripts, threads and settings, from `SearchAssumption` (a script is a
forward graph of known statements, the threads are finitely many). `TypeCorrect` and `PathCorrect`
(`PathLinked`) need no hypothesis: whatever the settings and the disturbances, deleting covered subtrees
and putting end nodes into the tree leave no dangling entry in `node_stack_`. They rest on `TreeInv`:

* `Tree`: every node hangs under the node it is named after, in the slot that says so, at the statement
  that follows there (`HangsOK`, `LinksOK`), and has the children of its statement (`NodeOK`);
* `StackInv`: the stack is a path of that tree which the script follows, so a replay meets the statement
  it met before; or such a path with the end node behind it, when the end has replaced the branch; or
  it is empty, and then the root is covered.

`DoBacktrack` is where both are at risk: it covers, deletes and truncates in this order, and the
deleted subtree must be below the part of the stack that is kept (`HighFacts`, `CoverCases`, `DoBacktrackFacts`).

`StackCorrect` (`StackIsPath`) and `NoAbortCorrect` (`NoAbort`) assume `CalmSearches`: threads do not all end at a statement, and
where `MarkEndingBranchesCovered` is on, the choices of one line agree on which branch ends the script, at most one of them
(`MarksAgree`; a loop around a choice satisfies it). Timeouts, `ASSUME_FAILS` and conditions that flip are allowed. Without
it both are false: see `TwoStarsSearches`, `AllEndSearches` and `MarkedSearches` in the next section; `MCSearchTree` assumes it of the undisturbed searches it
checks. `CoverInv` adds to `TreeInv` that a node with one child is covered
when its child is (`ClosedAt`), that no node of the stack is covered (`Uncovered`), and that the branch at its end is open, also
in the static info of its line (`LastOpen`). Two exceptions make it inductive. A choice that a marked branch closes is found
covered only when it is met again (`ChoiceCovered`), by a run whose end then has to cover the nodes above it: until then the last node
of the stack may be open over a covered child, and an exists above it stays open to try its other threads (`FoundCovered`).
So `DSLChoice` always finds a branch, `Usable` a node that is not covered, and `Restart` a
stack. The lemmas on `DoBacktrack` show that what it covers is a suffix of the path, and that the
node above it has another branch to take.

`SearchCompleteCorrect` (`SearchComplete`), `ForallTriedCorrect` (`ForallTried`) and `NoRepeatCorrect` (`NoRepeat`) speak of searches that
nothing disturbs, whatever the script, the settings and the threads. All three assume `Exhaustible`: every forall has a
scope, which fits in `MaxChildren` (without a scope `ForallTried` is false: `search_unscoped`), and `MarksAgree` where branches are
marked (without it `SearchComplete` is false: `MarkedSearches`). `NoRepeatCorrect` also assumes that the script has no exists
(`RunsDiffer`): an exists at the end of the script is tried again with another thread, and the runs differ in the thread
only, which is not one of their decisions. `MCSearchTree` assumes both of the undisturbed searches it checks.

* `LeadsTo` relates runs and places: the decisions of a run lead from the root to a node, or to the slot of one. `Explored` says
  of a place that every run of the script that comes to it has been executed, or is left out by the marks.
* `SearchInv` says that what is covered, has an end node, or is an exists of which a thread was tried, is explored; that a
  forall has a child for each of different threads of its scope, and all of them when it is covered; and that
  the run has come by its decisions to where it is. A run that ends, ends at a place that is explored: it is the only run that comes there (`OneRun`), or a
  selection has nothing left to select (`NoneLeft`). From there `PathExplored` follows the coverage up the path:
  `ComputeCoverage` covers a node when every decision of its statement has an explored branch
  (`AllBranches`, `CoversExplored`), and a marked branch is made up for by the other one (`MarkedExplored`).
* `RepeatInv` is the converse: a run that has been executed comes to what is covered or has an end node (`Closed`). Growing the
  tree, covering and deleting keep that (`GrownCloses`, `CoverageCloses`, `CutCloses`: what is deleted is replaced by an end node
  above it). A run at the end of the script has followed its stack to the end, the
  only nodes it comes to are those of the stack (`OnStack`), and their branches are open (`OpenBranch`), so it is not closed (`RunIsOpen`).

The set of runs of a script, `Trails`, is a recursive function; `TrailsExist` shows that it is well defined, because the scripts are forward
graphs, and `TrailWalk` that its members are the walks through the script. The inductions, over the script, a run or the stack, are by the least
place where the claim would fail (`Least`), since the library's induction theorems cannot be instantiated here.

**CoroutineGroup**, for any number of threads, executions and turns of `JoinAllThreads`, whichever
threads create, join, hang, exit or fail an assertion: `TypeCorrect`, `NoAbortCorrect`, `TokensCorrect` (`EndTokens`),
`IsolatedCorrect` (`Isolated`) and `MessageCorrect` (`MessageHasReader`). All five assume `~Slow`, which is the timing assumption of
`group_all` (see above); without it main starts an execution over threads that still run, and `Isolated` is false. None of the five
is inductive, and they need each other: a restart finds its channel empty because the thread has
ended, that the thread has ended is known because somebody had both its tokens, and the tokens are
right because no restart resets a semaphore that somebody waits at. `GroupInv` is this circle:

* `OwnerInv`: who holds which of the three locks is a matter of where he is, so at most one thread is being started and at
  most one `pthread_join` is under way (`RoomInv`: each caller of `pthread_create` has a place in the group);
* `StatusInv`: the status of a thread and its message against its place in `Coroutine::Run`;
* `TokenInv`: never more than two tokens, one while the second is to come; `ExactInv`: before `Finish`,
  exactly the tokens the thread has given;
* `ChannelInv`: before `Finish`, a message is on its way to the one that waits for it, and he has been signalled;
* `OrderInv`: a member that main has passed, waited for, or not yet created again, is `Settled`: it waits for its
  restart (`Done`) or is `Stuck`. This rests on the two facts about the code under test that
  carry the whole argument, `StuckStays` and `DoneStays`: a thread that is stuck is stuck for good, also the joiner
  that holds the `pthread` lock and those behind it, and one that has ended stays so until it is created again;
* `CleanInv`: in a `Finish` that follows an execution all threads of which have ended, each is sent its message, answers
  and terminates. In any other `Finish`, nothing is claimed of the threads (the second exception of `NoAbort`).

**EventMonitor**, for all sets of threads, functions and addresses, all programs whose
returns match their calls, and all scripts. `TypeCorrect`, `OwnEventCorrect` (`OwnEventExact`), `InFuncCorrect`
(`InFuncExact`), and `NoAbortCorrect` for scripts that bind a variable before they test it (`Scoped`),
threads that end once and calls that have a target. A handler writes one variable at a
time, so neither property is inductive: `EventInv` and `CountInv` speak of the entries that are set
together with those still in `todo`, and `StackInv` ties the frames to the program, so that a
return finds the entry of its call.
`BoundCorrect` (`BoundToArgument`) and `SelectedCorrect` (`SelectedStays`, for scripts that read arguments only of a
thread they have just selected at its entry, `ReadsSelected`) rest on three more invariants: what `Arg0` holds and is about to
hold is the argument of a frame that is still open or of a call that comes next (`ArgumentInv`; its second half,
`LockedOf`, is the read lock from `isset` to `get`); `ENTERS` is in nobody's event but that of a thread inside `FuncEnter`'s
handler, whose top frame is the one entered (`EntryInv`); and a thread that has passed `ENTERS` in an evaluation, or was
selected by it, is such a thread (`SelectedInv`).

**RemotePipe**, for any number of client threads and ids and any order of commands. `TypeCorrect`;
`NoAbortCorrect` (`NoAbort`) and `OneMessageCorrect` (`OneMessage`), none with a hypothesis: they hold for both
timings of the ends of tests. The invariant is
a chain: a buffer is free or full only while its thread waits (`BoxInv`), so a signal finds it
empty; the notices in the pipe alternate between what the client and what the server know
(`NoticeInv`), so each finds the client in the other state; a thread has at most one message
over pipes, workers, buffers and shadow thread (`AtMostOne`), so a continue finds its thread
registered. That an event is dropped only when it is `Ignored` needs also that the worker keeps an event only
for a shadow thread that was made (`MadeInv`), so that one not found is dead and stays so (`DeadStays`); that the end of a thread is its last
event (`EndInv`); and, for a quiet end, that it leaves the server without messages (`QuietInv`), so that nothing
is dropped at all. `MessagesStep` is
the argument behind it: a step of any actor leaves the number of a thread's messages as it
is, except sending, continuing, and dropping an event whose shadow thread is gone.

Only model-checked:

* the liveness properties (`ScriptTerminates`, `ThreadsLeave`, `SearchEnds`, `CreateReturns`, `EveryoneReturns`, `SuiteEnds`):
  fairness and `ENABLED` are beyond the prover;
* `StackIsPath` and `NoAbort` of `SearchTree` where threads all end at a statement: there the run shows them for its scripts.

## Disagreements between the code and what it says

1. `rendezvous_force_lock` - `EndWithSuccess` overwrites the ref because "no other threads" are
   left (`src/dsl.cpp:776`), but `concurritEndTest` raises the same reason while threads run.
2. `rendezvous_assertion_lost` - the end node keeps the first exception only
   (`include/dsl.h:215`): an assertion violated after a recorded timeout is dropped.
3. `search_unscoped` - a `FORALL` without scope gets one child per evaluation, not per thread, and
   counts as covered when one thread has been selected twice.
4. `group_deadlock_undetected` - main's first wait in `WaitForEnd` has no timeout, and a
   `pthread_join` of the program may hold that token for good.
5. `remote_end_deadlock` - `Broadcast` holds the map's mutex while it waits for a shadow thread that
   needs the mutex to unregister. In the trace the client goes on after its `ThreadEnd`, as one with a
   `SIGTERM` handler of its own does or one built without `SAFE_ASSERT`; with `EndTiming = "any"` the server
   comes to a stop in the same way before the client's assertion.

Seen while modelling and reproducible by changing a constant of a run:

* `Searches <- TwoStarsSearches` in `search_all.cfg`: `NoAbort` fails at DSLChoice's
  `safe_assert(!cov_0 || !cov_1)` (`src/scenario.cpp:2128`). A branch that reaches the end of
  the script is marked for "all of the instances created at the same line"
  (`src/dsl.cpp:836`); a new instance may have both branches marked.
* `MarkedSearches`: `SearchComplete` and `StackIsPath` fail with the default settings for
  a choice that is met twice and whose branch ends the script the second time only. The mark
  also covers the first instance's branch, which goes on to other statements, so these are not run; and it covers a
  choice that is still on the stack, so a replay is wasted on it.
* `AllEndSearches`: `StackIsPath` and then `NoAbort` fail at `safe_assert(select != NULL && !select->covered())`
  (`src/scenario.cpp:2527`). When all threads have ended at a selection, the
  selection above is covered "because there is no way to cover it" (`src/dsl.cpp:826`), but the
  node below it, from an earlier run, is open: `DoBacktrack` stops there and keeps the covered one on
  the stack, and the next run meets it.
* `SEARCH_ENDS` in `SutCalls` of `rendezvous_live.cfg`: `NoAbort` fails at `src/dsl.cpp:789`;
  with `SpuriousWakeups = TRUE` at `src/scenario.cpp:1878`.
* `ForallTried` without its guard `Undisturbed`: threads that all end make the last forall
  covered (`src/dsl.cpp:830`), whatever later selections would do.
* `MaxStarts = 2` or `SlowStart = TRUE` in `exploration_all.cfg`: `CleanStart` and `ScriptAfterStart` fail. `sem_test_start_` is not
  reset between executions (`src/scenario.cpp:514`), so a second `concurritStartTest`, or one that
  comes after main has stopped waiting, starts the script of the next execution before
  its program.
* `RunUncontrolled = TRUE`, `Hangs = FALSE` in `group_all.cfg`: main and two joiners each hold a
  token of the same semaphore and wait for the other. `Slow = TRUE`: main gives up on a thread that would
  have ended, `Isolated` fails, and a restart under main's wait breaks `EndTokens`.
* `EndsTwice = TRUE` in `event_all.cfg`: a shadow thread's end is reported by its client and by
  `Coroutine::Run` (`remote/server.cpp:116`, `src/coroutine.cpp:285`), the second time with
  `Ends` set. `NoTarget = TRUE`: the manual handler of a call passes no target location
  (`src/manual.cpp:145`), which `FuncCall` asserts.
* `NoAbort` of `RemotePipe` without one of its three failures. `set_tls`, whose comment says "value may be NULL"
  (`remote/client.cpp:77`), asserts an empty slot also when it clears it, so in the repository's build every
  `ThreadEnd` ends a client that does not handle `SIGTERM`. A symbol announced before the first `main0`
  fails the assertion of its shadow thread (`remote/server.cpp:62`), and a `TestEnd` before it dereferences the null `controlpipe_`
  (`remote/server.cpp:307`).
* `EveryoneReturns` without one of its excuses, `OneMessage` without `Ignored`.
* `NoAbort` of `Exploration` without one of its excuses. `Schedule::Clone` returns the schedule itself
  (`include/schedule.h:43`), `Finish` deletes it (`src/scenario.cpp:404`) and the result deletes it again
  when `RunAll` has printed it (`src/suite.cpp:95`, `src/result.cpp:123`). A deadlock becomes a
  `RuntimeExceptionResult` whose cause is the NULL `be`, and its `ToString` asserts a cause
  (`src/result.cpp:164`). A thread that hangs in an execution whose end node already
  has a backtrack is given up on without a record, so the next execution restarts it,
  which is `unreachable()`, and reloads the library under it.
* `SignalHandler` in a thread other than main: it kills the process with the same signal, which for
  SIGINT has no other handler, is blocked in that thread, and reaches another one, where it returns at once
  (`src/concurrit.cpp:307`): main goes on after "Signal caught! Finishing." with a scenario
  that is finished.
* By inspection: a `TEST_EXISTS` without a witness ends as a success, because `Explore` begins
  with a `ForallResult` and makes a `NoFeasibleExecutionResult` only when there is none (`src/scenario.cpp:371`); `CALLS` is never true, because `FuncCall` stores its entry for thread -1
  (`src/pinmonitor.cpp:216`); `TEXPR` starts from `ANY_THREAD`, so adding threads does not
  restrict it (`include/api.h:246`); the inner return of a recursive function erases the
  argument of the outer call (`src/pinmonitor.cpp:282`); `WITH_ARG0` keeps the value it has
  bound when a later conjunct refuses the thread.

## Not modelled

* The order of memory operations: each shared access is atomic and sequentially
  consistent. The race on the exception list (`include/dsl.h:213`) and that of main's `Finish`
  with the signal handler's need a memory model.
* What a thread that is cancelled in the middle of its code leaves behind, the program's `pthread_cancel`, `Coroutine::Transfer` between members,
  `AddScenario` and `RemoveScenario`, which run before `main`, `Init` and `Destroy`, which `_Exit` skips.
* Opening and closing FIFOs, and the client's own `concurritStartTest`/`EndTest`.
* Schedules and serialisation, texts of results, dot graphs, statistics, the command line: no state
  the search depends on. The Pin tool depends on Pin and runs outside this process.
* `bench/`, `backup/` and `scripts/` are not part of the tool. The programs under `bench/` (x264, dedup,
  parts of MySQL, memcached and others) are what the tool is used on; they are nine tenths of
  the lines of the repository. The tool itself is some 8,700 lines, of which the modules cover
  two fifths; the rest is mostly declarations, printing and command lines.
* Hazards that no property states: a wakeup without a broadcast (`src/scenario.cpp:1878`), the count of
  `InFunc` that drops only after the transition of the return (`src/pinmonitor.cpp:280`), the second
  `ThreadEnd` of a shadow thread (`remote/server.cpp:116`). Each can be seen with the switches listed above.
  Others are stated by a property whose run excludes them, or excuses them: a search ended by a thread
  just before `EndWithSuccess` (`src/dsl.cpp:789`), a second or late `concurritStartTest` (`src/scenario.cpp:514`),
  threads that wait for each other over the `pthread` lock (`src/interpos.cpp:112`), what `Finish` reads of a thread main has given up on
  (`src/coroutine.cpp:124`), the second delete of a schedule (`src/suite.cpp:95`).
* The reload of `libserver.so` for each execution (`-r`): its statics and its ends of the pipes start over, as in `Init`,
  while the client goes on.
* A constant 0 as the value of a predicate: 0 is the undefined value, so the code binds it to what it finds
  (`include/transpred.h:350`, `:647`) instead of comparing. `IsLiteral` leaves such scripts out.

## Plan

The model is as far as it is meant to go, and every invariant, action property and refinement that a run checks is proved,
under the hypotheses given above. What a later version could prove:

1. `SearchTree`: `NoRepeat` for scripts with an exists, with the thread it takes as a decision of the run.
2. `SearchTree`: `StackIsPath` up to the selection that `AfterAllEnded` covers, where threads all end.
