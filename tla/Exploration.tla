----------------------------- MODULE Exploration ----------------------------
(***************************************************************************)
(* The life of a test process: Suite::RunAll explores one scenario after   *)
(* the other; Scenario::Explore runs execution after execution and turns   *)
(* what each of them ended with into a result; the driver thread loads the *)
(* program under test and runs it, and the program announces the start of  *)
(* the test; signals interrupt all of this.                                *)
(*                                                                         *)
(* What happens between the start of a script and its end is in            *)
(* Rendezvous, what Backtrack does in SearchTree, how threads are started, *)
(* joined and finished in CoroutineGroup.  Here the tree of a scenario is  *)
(* the number of its paths, and the program is the driver and a worker.    *)
(***************************************************************************)
EXTENDS Integers

CONSTANTS
  NumScenarios,  \* the scenarios of the suite
  ExistsTests,   \* those of them whose script says TEST_EXISTS()
  Paths,         \* the paths of a scenario's execution tree
  Settings,      \* the settings of Config: reload, cancel, uncontrolled, first stand for
                 \* ReloadTestLibraryOnRestart, CancelThreadsToRestart, RunUncontrolled,
                 \* ExitOnFirstExecution
  Hangs,         \* the threads that may stop for good in their own code
  MaxStarts,     \* the concurritStartTest calls the program may make in one execution
  SlowStart,     \* whether the first of them may come after WaitForTestStart's timeout
  Signals        \* the signals that may arrive

Main == "main"
Driver == "driver"
Worker == "worker"
Nobody == "nobody"
Scenarios == 1..NumScenarios

ASSUME ExplorationAssumption ==
  /\ NumScenarios \in Nat \ {0} /\ Paths \in Nat \ {0} /\ MaxStarts \in Nat
  /\ ExistsTests \subseteq Scenarios
  /\ \A s \in Settings : s \in [reload : BOOLEAN, cancel : BOOLEAN, uncontrolled : BOOLEAN,
                                 first : {-1} \cup (Nat \ {0})] /\ (s.cancel => s.reload)
  /\ Hangs \subseteq {Driver, Worker}
  /\ SlowStart \in BOOLEAN
  /\ Signals \subseteq {"SIGTERM", "SIGINT"}

\* TestStatus of scenario.h, in its order.
TEST_BEGIN == 0
TEST_SETUP == 1
TEST_CONTROLLED == 2
TEST_UNCONTROLLED == 3
TEST_TEARDOWN == 4
TEST_ENDED == 5
TEST_TERMINATED == 6

\* What an execution ends with: the exception of the end node.  BACKTRACK stands for
\* TIMEOUT, REPLAY_FAILS, TREENODE_COVERED, ASSUME_FAILS and THREADS_ALLENDED.
BacktrackReason == {"BACKTRACK", "SEARCH_ENDS"}
NonBacktrack == {"ASSERTION", "DEADLOCK"}

VARIABLES
  setting,    \* the settings of Config the process was started with
  scen,       \* RunScenarios' iterator; then RunAll's
  pc,         \* where the main thread is
  status,     \* Scenario::test_status_
  current,    \* Concurrit::current_scenario_, or 0
  schedule,   \* whether Scenario::schedule_ is not NULL
  deletes,    \* how often the schedule of a scenario has been deleted
  exc,        \* EndNode::exception_, or "none"
  left,       \* the paths of the tree that are not covered
  first,      \* Config::ExitOnFirstExecution
  execs,      \* the executions that have ended
  result,     \* the Result of each scenario
  threads,    \* where the threads of the program are
  lib,        \* whether Concurrit::driver_handle_ is not NULL
  loadSem,    \* count of sem_driver_load_
  startSem,   \* count of sem_test_start_
  starts,     \* the concurritStartTest calls of this execution
  created,    \* whether the program has created its worker in this execution
  pinOn,      \* PinMonitor::enabled_
  handler,    \* the thread in signal_handling_thread, its signal and where it is
  process     \* "runs", or how it ended

search == <<setting, scen, left, first, execs, result>>
scenario == <<status, current, schedule, deletes>>
test == <<starts, created, pinOn>>
program == <<threads, lib, loadSem, startSem, test>>
vars == <<search, pc, scenario, exc, program, handler, process>>

Init ==
  /\ setting \in Settings
  /\ first = setting.first
  /\ scen = 1
  /\ pc = "suite"
  /\ status = TEST_BEGIN
  /\ current = 0
  /\ schedule = FALSE
  /\ deletes = [s \in Scenarios |-> 0]
  /\ exc = "none"
  /\ left = Paths
  /\ execs = 0
  /\ result = [s \in Scenarios |-> "none"]
  /\ threads = [t \in {Driver, Worker} |-> "none"]
  /\ lib = FALSE
  /\ loadSem = 0 /\ startSem = 0
  /\ starts = 0 /\ created = FALSE
  /\ pinOn = FALSE
  /\ handler = [by |-> Nobody, sig |-> "none", at |-> "none"]
  /\ process = "runs"

-----------------------------------------------------------------------------
\* A thread runs on when it is not in the signal handler.
Interrupted(x) == handler.by = x /\ handler.at # "returned"
Goes(x) == process = "runs" /\ ~Interrupted(x)
At(l) == Goes(Main) /\ pc = l
Is(t, l) == Goes(t) /\ threads[t] = l
Goto(l) == pc' = l
Move(t, l) == threads' = [threads EXCEPT ![t] = l]

\* safe_assert and CHECK: the process ends when the condition is false.
Check(cond, what) == process' = IF cond THEN process ELSE what

\* Coroutine::Start of a thread that is new or has ended; another one is unreachable().
StartCoroutine(t, l) ==
  \/ threads[t] \in {"none", "ended"} /\ Move(t, l) /\ UNCHANGED process
  \/ threads[t] \notin {"none", "ended"} /\ process' = "unreachable" /\ UNCHANGED threads

\* EndNode::add_exception keeps the first.
AddException(e) == exc' = IF exc = "none" THEN e ELSE exc

\* concurritStartTest, PinMonitor::Enable and Disable do nothing in an uncontrolled run.
Controlled == ~setting.uncontrolled
IsExists == scen \in ExistsTests /\ Controlled
IsAllEnded == \A t \in DOMAIN threads : threads[t] \in {"none", "ended"}
Alive(x) == x # Main => threads[x] # "none"
Hung == {t \in DOMAIN threads : threads[t] = "hung"}

-----------------------------------------------------------------------------
\* Scenario::RunOnce, by the main thread.

\* RunScenarios' loop: Explore begins with a ForallResult.
BeginExplore ==
  /\ At("suite")
  /\ scen <= NumScenarios
  /\ result' = [result EXCEPT ![scen] = "forall"]
  /\ status' = TEST_BEGIN
  /\ schedule' = FALSE
  /\ left' = Paths
  /\ exc' = "none"
  /\ Goto("start")
  /\ UNCHANGED <<setting, scen, first, execs, current, deletes, program, handler, process>>

\* Start: set_current_scenario, ExecutionTreeManager::Restart unless it is the first
\* time, and a schedule.
Start ==
  /\ At("start")
  /\ Check(current \in {0, scen} /\ status \in {TEST_BEGIN, TEST_ENDED}, "Start")
  /\ current' = scen
  /\ exc' = IF status = TEST_BEGIN THEN exc ELSE "none"
  /\ status' = TEST_BEGIN
  /\ schedule' = TRUE
  /\ deletes' = IF schedule THEN deletes ELSE [deletes EXCEPT ![scen] = 0]
  /\ starts' = 0
  /\ created' = FALSE
  /\ Goto("setup")
  /\ UNCHANGED <<search, threads, lib, loadSem, startSem, pinOn, handler>>

RunSetUp ==
  /\ At("setup")
  /\ status' = TEST_SETUP
  /\ Goto("driver")
  /\ UNCHANGED <<search, current, schedule, deletes, exc, program, handler, process>>

\* RunTestCase, RunTestDriver: the driver is created, or restarted when it has ended.
RunTestDriver ==
  /\ At("driver")
  /\ status' = TEST_CONTROLLED
  /\ StartCoroutine(Driver, "entry")
  /\ Goto("load")
  /\ UNCHANGED <<search, current, schedule, deletes, exc, lib, loadSem, startSem, test,
                 handler>>

\* Mutant of DriverLoaded: sem_driver_load() is read, not waited for.
DriverLoadedSeen ==
  /\ At("load")
  /\ loadSem > 0
  /\ Goto(IF Controlled THEN "waitStart" ELSE "uncontrolled")
  /\ UNCHANGED <<search, scenario, exc, program, handler, process>>

\* sem_driver_load()->Wait(); the script is not run when uncontrolled.
DriverLoaded ==
  /\ At("load")
  /\ loadSem > 0
  /\ loadSem' = loadSem - 1
  /\ Goto(IF Controlled THEN "waitStart" ELSE "uncontrolled")
  /\ UNCHANGED <<search, scenario, exc, threads, lib, startSem, test, handler, process>>

\* Mutant of WaitForTestStart: the script does not wait for the test to start.
WaitForNothing ==
  /\ At("waitStart")
  /\ Goto("script")
  /\ UNCHANGED <<search, scenario, exc, program, handler, process>>

WaitForTestStart ==
  /\ At("waitStart")
  /\ startSem > 0
  /\ startSem' = startSem - 1
  /\ Goto("script")
  /\ UNCHANGED <<search, scenario, exc, threads, lib, loadSem, test, handler, process>>

\* ETIMEDOUT: TRIGGER_TERMINATE_SEARCH.
WaitForTestStartTimeout ==
  /\ At("waitStart")
  /\ startSem = 0
  /\ SlowStart \/ threads[Driver] \in {"ended", "hung"}
  /\ AddException("SEARCH_ENDS")
  /\ Goto("uncontrolled")
  /\ UNCHANGED <<search, scenario, program, handler, process>>

\* TestCase returns or throws e, and EndWithSuccess or EndWithException inserts the
\* end node, unless a thread has done so.
TestCase(e) ==
  /\ At("script")
  /\ IF e = "SUCCESS" THEN UNCHANGED exc ELSE AddException(e)
  /\ Goto("uncontrolled")
  /\ UNCHANGED <<search, scenario, program, handler, process>>

\* Mutant of RunUncontrolled: the monitor stays on.
RunStillControlled ==
  /\ At("uncontrolled")
  /\ status' = TEST_UNCONTROLLED
  /\ Goto("join")
  /\ UNCHANGED <<search, current, schedule, deletes, exc, program, handler, process>>

RunUncontrolled ==
  /\ At("uncontrolled")
  /\ status' = TEST_UNCONTROLLED
  /\ pinOn' = FALSE
  /\ Goto("join")
  /\ UNCHANGED <<search, current, schedule, deletes, exc, threads, lib, loadSem, startSem,
                 starts, created, handler, process>>

\* Mutant of JoinAllThreads: any exception ends the wait.
JoinUnlessException ==
  /\ At("join")
  /\ ~setting.cancel
  /\ IsAllEnded \/ exc # "none"
  /\ Goto("teardown")
  /\ UNCHANGED <<search, scenario, exc, program, handler, process>>

\* JoinAllThreads waits for all threads, except after a non-backtrack exception.
JoinAllThreads ==
  /\ At("join")
  /\ ~setting.cancel
  /\ IsAllEnded \/ exc \in NonBacktrack
  /\ Goto("teardown")
  /\ UNCHANGED <<search, scenario, exc, program, handler, process>>

\* Mutant of JoinDeadlock: main waits for a hung thread for ever.
JoinForever ==
  /\ At("join")
  /\ FALSE
  /\ UNCHANGED vars

\* MaxTimeOutsBeforeDeadlock turns are over, which are long enough for a thread that does
\* not hang to end; an uncontrolled run has no timeout.
JoinDeadlock ==
  /\ At("join")
  /\ ~setting.cancel
  /\ Controlled
  /\ exc \notin NonBacktrack
  /\ Hung # {}
  /\ \A t \in DOMAIN threads : threads[t] \in {"none", "ended", "hung"}
  /\ AddException("DEADLOCK")
  /\ Goto("teardown")
  /\ UNCHANGED <<search, scenario, program, handler, process>>

\* A thread that is cancelled in the signal handler does not come back to it.
CancelHandler(ts) ==
  handler' = IF \E t \in ts : Interrupted(t) THEN [handler EXCEPT !.at = "returned"] ELSE handler

\* CancelThreadsToRestart: main waits for the driver, once, whatever comes of it; then
\* the driver is finished, the others are cancelled, and the group forgets them all.
CancelJoinAll ==
  /\ At("join")
  /\ setting.cancel
  /\ threads[Driver] = "ended" \/ (threads[Driver] = "hung" /\ Controlled)
  /\ threads[Driver] = "ended" => ~Interrupted(Driver)
  /\ threads' = [t \in DOMAIN threads |-> "none"]
  /\ CancelHandler({Driver, Worker})
  /\ Goto("teardown")
  /\ UNCHANGED <<search, scenario, exc, lib, loadSem, startSem, test, process>>

RunTearDown ==
  /\ At("teardown")
  /\ status' = TEST_TEARDOWN
  /\ Goto("ended")
  /\ UNCHANGED <<search, current, schedule, deletes, exc, program, handler, process>>

\* The end of RunOnce.
RunOnceEnds ==
  /\ At("ended")
  /\ status' = TEST_ENDED
  /\ execs' = execs + 1
  /\ Goto("explore")
  /\ UNCHANGED <<setting, scen, left, first, result, current, schedule, deletes, exc,
                 program, handler, process>>

-----------------------------------------------------------------------------
\* Scenario::Explore, by the main thread.

\* A result that keeps schedule_->Clone(), which is schedule_ itself, and ends the loop.
ExploreEnds(r) ==
  /\ Check(schedule, "schedule")
  /\ result' = [result EXCEPT ![scen] = r]
  /\ Goto("finish")
  /\ UNCHANGED <<setting, scen, left, first, execs, scenario, exc, program, handler>>

FoundViolation == At("explore") /\ exc = "ASSERTION" /\ ExploreEnds("assertion")

\* Neither an assertion violation nor a backtrack: be, which is NULL, is the cause.
FoundRuntimeException == At("explore") /\ exc = "DEADLOCK" /\ ExploreEnds("runtime")

FoundWitness == At("explore") /\ exc = "none" /\ IsExists /\ ExploreEnds("exists")

\* A successful execution of a forall search backtracks like a failed one.
Backtracks == At("explore") /\ exc \notin NonBacktrack /\ ~(exc = "none" /\ IsExists)

\* ExitOnFirstExecution == 0 || --ExitOnFirstExecution == 0 || reason == SEARCH_ENDS
Countdown == IF first = 0 THEN 0 ELSE first - 1

\* Mutant of LastExecution: any negative number ends the search, too.
LastExecutionSigned == Countdown <= 0 \/ exc = "SEARCH_ENDS"

LastExecution == Countdown = 0 \/ exc = "SEARCH_ENDS"

StopSearch ==
  /\ Backtracks
  /\ LastExecution
  /\ first' = Countdown
  /\ Goto("finish")
  /\ UNCHANGED <<setting, scen, left, execs, result, scenario, exc, program, handler, process>>

\* Backtrack(reason) covers a path; it fails when the root is covered.
BacktrackSearch ==
  /\ Backtracks
  /\ ~LastExecution
  /\ Controlled
  /\ first' = Countdown
  /\ left' = left - 1
  /\ Goto(IF left > 1 THEN "start" ELSE "finish")
  /\ UNCHANGED <<setting, scen, execs, result, scenario, exc, program, handler, process>>

RepeatUncontrolled ==
  /\ Backtracks
  /\ ~LastExecution
  /\ ~Controlled
  /\ first' = Countdown
  /\ Goto("start")
  /\ UNCHANGED <<setting, scen, left, execs, result, scenario, exc, program, handler, process>>

\* delete schedule_, if there is one.
DeleteSchedule ==
  /\ deletes' = [deletes EXCEPT ![current] = @ + (IF schedule THEN 1 ELSE 0)]
  /\ schedule' = FALSE

\* Finish(result): the status, the schedule, the threads, the current scenario.
FinishStatus ==
  /\ At("finish")
  /\ Check(status = TEST_ENDED, "Finish")
  /\ status' = TEST_TERMINATED
  /\ Goto("delete")
  /\ UNCHANGED <<search, current, schedule, deletes, exc, program, handler>>

\* Mutant of Finish: the current scenario is not cleared.
FinishStaysCurrent ==
  /\ At("delete")
  /\ \A t \in DOMAIN threads : threads[t] = "ended" => ~Interrupted(t)
  /\ IF current = 0 THEN UNCHANGED <<schedule, deletes>> ELSE DeleteSchedule
  /\ threads' = [t \in DOMAIN threads |-> "none"]
  /\ CancelHandler(DOMAIN threads)
  /\ scen' = scen + 1
  /\ Goto("suite")
  /\ UNCHANGED <<setting, left, first, execs, result, status, current, exc, lib, loadSem, startSem,
                 test, process>>

\* The threads that have ended are joined, also one that is in the signal handler; the
\* others are cancelled.
Finish ==
  /\ At("delete")
  /\ \A t \in DOMAIN threads : threads[t] = "ended" => ~Interrupted(t)
  /\ IF current = 0 THEN UNCHANGED <<schedule, deletes>> ELSE DeleteSchedule
  /\ threads' = [t \in DOMAIN threads |-> "none"]
  /\ CancelHandler(DOMAIN threads)
  /\ current' = 0
  /\ scen' = scen + 1
  /\ Goto("suite")
  /\ UNCHANGED <<setting, left, first, execs, result, status, exc, lib, loadSem, startSem,
                 test, process>>

-----------------------------------------------------------------------------
\* Suite::RunAll, by the main thread.

BeginReport ==
  /\ At("suite")
  /\ scen > NumScenarios
  /\ scen' = 1
  /\ Goto("report")
  /\ UNCHANGED <<setting, left, first, execs, result, scenario, exc, program, handler, process>>

\* The results that delete their schedule when they are deleted.
Owning == {"exists", "assertion", "runtime"}

\* ToString asserts that a runtime exception has a cause, then the result is deleted;
\* a second delete of the schedule may end the process or go unnoticed.
ReportResult ==
  /\ At("report")
  /\ scen <= NumScenarios
  /\ deletes' = [deletes EXCEPT ![scen] = @ + (IF result[scen] \in Owning THEN 1 ELSE 0)]
  /\ \/ Check(result[scen] # "runtime", "cause")
     \/ result[scen] # "runtime" /\ deletes'[scen] > 1 /\ process' = "heap"
  /\ scen' = scen + 1
  /\ UNCHANGED <<setting, left, first, execs, result, pc, status, current, schedule, exc,
                 program, handler>>

\* The summary is printed, and safe_exit.
PrintReport ==
  /\ At("report")
  /\ scen > NumScenarios
  /\ process' = "exit"
  /\ Goto("printed")
  /\ UNCHANGED <<search, scenario, exc, program, handler>>

-----------------------------------------------------------------------------
\* The program under test.

\* CallDriverMain: the library is unloaded when it is to be loaded anew.
UnloadTestLibrary ==
  /\ Is(Driver, "entry")
  /\ setting.reload /\ lib
  /\ lib' = FALSE
  /\ UNCHANGED <<search, pc, scenario, exc, threads, loadSem, startSem, test, handler, process>>

LoadTestLibrary ==
  /\ Is(Driver, "entry")
  /\ ~lib
  /\ lib' = TRUE
  /\ Move(Driver, "loaded")
  /\ UNCHANGED <<search, pc, scenario, exc, loadSem, startSem, test, handler, process>>

\* sem_driver_load()->Signal(), and __main__ begins.
CallDriverMain ==
  /\ \/ Is(Driver, "loaded")
     \/ Is(Driver, "entry") /\ lib /\ ~setting.reload
  /\ loadSem' = loadSem + 1
  /\ Move(Driver, "runs")
  /\ UNCHANGED <<search, pc, scenario, exc, lib, startSem, test, handler, process>>

\* The program creates its worker, new or from the last execution.
CreateWorker ==
  /\ Is(Driver, "runs")
  /\ ~created
  /\ created' = TRUE
  /\ StartCoroutine(Worker, "runs")
  /\ UNCHANGED <<search, pc, scenario, exc, lib, loadSem, startSem, starts, pinOn, handler>>

\* concurritStartTest: PinMonitor::Enable, then sem_test_start()->Signal().
EnableForTest ==
  /\ Is(Driver, "runs")
  /\ Controlled
  /\ starts < MaxStarts
  /\ pinOn' = TRUE
  /\ starts' = starts + 1
  /\ Move(Driver, "starts")
  /\ UNCHANGED <<search, pc, scenario, exc, lib, loadSem, startSem, created, handler, process>>

SignalTestStart ==
  /\ Is(Driver, "starts")
  /\ startSem' = startSem + 1
  /\ Move(Driver, "runs")
  /\ UNCHANGED <<search, pc, scenario, exc, lib, loadSem, test, handler, process>>

\* concurritEndTest: PinMonitor::Disable, and a backtrack at the end node.
EndTest ==
  /\ Is(Driver, "runs")
  /\ Controlled
  /\ pinOn' = FALSE
  /\ AddException("BACKTRACK")
  /\ UNCHANGED <<search, pc, scenario, threads, lib, loadSem, startSem, starts, created,
                 handler, process>>

\* A failed assertion or concurritEndSearch ends the thread.
Raise(t, e) ==
  /\ Is(t, "runs")
  /\ AddException(e)
  /\ Move(t, "ended")
  /\ UNCHANGED <<search, pc, scenario, lib, loadSem, startSem, test, handler, process>>

EndThread(t) ==
  /\ Is(t, "runs")
  /\ Move(t, "ended")
  /\ UNCHANGED <<search, pc, scenario, exc, lib, loadSem, startSem, test, handler, process>>

Hang(t) ==
  /\ Is(t, "runs")
  /\ t \in Hangs
  /\ Move(t, "hung")
  /\ UNCHANGED <<search, pc, scenario, exc, lib, loadSem, startSem, test, handler, process>>

-----------------------------------------------------------------------------
\* Concurrit::SignalHandler, in the thread x that gets the signal.

\* The first signal; a later one in another thread returns at once.
SignalHandler(x, sig) ==
  /\ process = "runs"
  /\ Alive(x)
  /\ handler.by = Nobody
  /\ handler' = [by |-> x, sig |-> sig, at |-> "check"]
  /\ pinOn' = FALSE
  /\ UNCHANGED <<search, pc, scenario, exc, threads, lib, loadSem, startSem, starts,
                 created, process>>

\* A signal in the thread that handles or has handled the first one: SIGKILL.
SignalAgain(x) ==
  /\ process = "runs"
  /\ Alive(x)
  /\ handler.by = x
  /\ process' = "killed"
  /\ UNCHANGED <<search, pc, scenario, exc, program, handler>>

InHandler(l) == process = "runs" /\ handler.at = l
HandlerGoto(l) == handler' = [handler EXCEPT !.at = l]

\* OnSignal, if there is a current scenario.
OnSignal ==
  /\ InHandler("check")
  /\ HandlerGoto(IF current # 0 /\ status \in TEST_SETUP..TEST_TEARDOWN THEN "finish" ELSE "kill")
  /\ UNCHANGED <<search, pc, scenario, exc, program, process>>

\* Finish(SignalResult), which does not join the threads.
FinishSignal ==
  /\ InHandler("finish")
  /\ Check(current # 0 /\ status # TEST_TERMINATED, "Finish")
  /\ status' = TEST_TERMINATED
  /\ DeleteSchedule
  /\ current' = 0
  /\ HandlerGoto("kill")
  /\ UNCHANGED <<search, pc, exc, program>>

\* kill(getpid(), signal): glog's handler ends the process.  It has none for SIGINT,
\* which this thread blocks now: another thread gets it and returns at once.
Kill ==
  /\ InHandler("kill")
  /\ \/ /\ handler.sig = "SIGTERM" \/ (handler.by = Main /\ \A t \in DOMAIN threads : ~Alive(t))
        /\ process' = "killed"
        /\ UNCHANGED handler
     \/ /\ handler.sig = "SIGINT"
        /\ handler.by # Main \/ \E t \in DOMAIN threads : Alive(t)
        /\ HandlerGoto("returned")
        /\ UNCHANGED process
  /\ UNCHANGED <<search, pc, scenario, exc, program>>

-----------------------------------------------------------------------------
RunOnce ==
  \/ Start \/ RunSetUp \/ RunTestDriver \/ DriverLoaded
  \/ WaitForTestStart \/ WaitForTestStartTimeout
  \/ \E e \in {"SUCCESS", "BACKTRACK", "ASSERTION"} : TestCase(e)
  \/ RunUncontrolled \/ JoinAllThreads \/ JoinDeadlock \/ CancelJoinAll
  \/ RunTearDown \/ RunOnceEnds

Explore ==
  \/ BeginExplore \/ FoundViolation \/ FoundRuntimeException \/ FoundWitness
  \/ StopSearch \/ BacktrackSearch \/ RepeatUncontrolled \/ FinishStatus \/ Finish

Report == BeginReport \/ ReportResult \/ PrintReport

MainStep == RunOnce \/ Explore \/ Report

DriverStarts == UnloadTestLibrary \/ LoadTestLibrary \/ CallDriverMain \/ SignalTestStart

ThreadEnds(t) ==
  EndThread(t) \/ Hang(t) \/ \E e \in {"ASSERTION", "SEARCH_ENDS"} : Raise(t, e)

ProgramStep ==
  \/ DriverStarts \/ CreateWorker \/ EnableForTest \/ EndTest
  \/ \E t \in DOMAIN threads : ThreadEnds(t)

HandlerStep == OnSignal \/ FinishSignal \/ Kill

SignalStep ==
  \E x \in {Main, Driver, Worker} : SignalAgain(x) \/ \E sig \in Signals : SignalHandler(x, sig)

Next == MainStep \/ ProgramStep \/ HandlerStep \/ SignalStep

Spec == Init /\ [][Next]_vars

\* The main thread, the driver while it loads the program, and a signal handler keep
\* running; a thread of the program ends or hangs.
FairSpec ==
  /\ Spec
  /\ WF_vars(MainStep) /\ WF_vars(DriverStarts) /\ WF_vars(HandlerStep)
  /\ \A t \in {Driver, Worker} : WF_vars(ThreadEnds(t))

-----------------------------------------------------------------------------
Places == {"suite", "start", "setup", "driver", "load", "waitStart", "script", "uncontrolled",
           "join", "teardown", "ended", "explore", "finish", "delete", "report", "printed"}
ThreadPlaces == {"none", "entry", "loaded", "runs", "starts", "hung", "ended"}
Results == {"none", "forall"} \cup Owning
Failures == {"Start", "unreachable", "schedule", "Finish", "cause", "heap"}

\* Type correctness; the counts of the semaphores and of the covered paths included.
TypeOK ==
  /\ setting \in Settings
  /\ scen \in 1..(NumScenarios + 1)
  /\ pc \in Places
  /\ status \in TEST_BEGIN..TEST_TERMINATED
  /\ current \in 0..NumScenarios
  /\ schedule \in BOOLEAN
  /\ deletes \in [Scenarios -> Nat]
  /\ exc \in BacktrackReason \cup NonBacktrack \cup {"none"}
  /\ left \in 0..Paths
  /\ first \in Int /\ execs \in Nat
  /\ result \in [Scenarios -> Results]
  /\ threads \in [{Driver, Worker} -> ThreadPlaces]
  /\ lib \in BOOLEAN
  /\ loadSem \in 0..1 /\ startSem \in Nat /\ starts \in 0..MaxStarts
  /\ created \in BOOLEAN
  /\ pinOn \in BOOLEAN
  /\ handler \in [by : {Main, Driver, Worker, Nobody}, sig : Signals \cup {"none"},
                  at : {"none", "check", "finish", "kill", "returned"}]
  /\ process \in {"runs", "exit", "killed"} \cup Failures

\* Where main is in an execution, and where it is between two of them.
Execution == {"start", "setup", "driver", "load", "waitStart", "script", "uncontrolled",
              "join", "teardown", "ended", "explore"}
Between == {"suite", "start", "setup", "driver", "report", "printed"}

\* What makes TypeOK inductive: there is a scenario and an uncovered path while main is
\* in Explore, and the token of sem_driver_load is taken in the execution that gave it.
TypeInv ==
  /\ TypeOK
  /\ pc \notin {"suite", "report", "printed"} => scen <= NumScenarios
  /\ pc \in Execution => left > 0
  /\ pc # "load" => loadSem = 0
  /\ threads[Driver] \in {"entry", "loaded"} => pc = "load" /\ loadSem = 0
  /\ threads[Worker] \notin {"entry", "loaded", "starts"}
  /\ handler.at # "none" => handler.by # Nobody

Signalled == handler.by # Nobody

\* No safe_assert of the life cycle fails, unless a signal has finished the scenario
\* under the main thread, with three exceptions: the restart of a thread that hangs and
\* that main has given up on is unreachable(), a deadlock is reported without its
\* cause, and a result that keeps a schedule deletes it after Finish has.
NoAbort ==
  \/ process \notin Failures
  \/ Signalled
  \/ process = "cause" /\ \E s \in Scenarios : result[s] = "runtime"
  \/ process = "heap" /\ \E s \in Scenarios : result[s] \in Owning
  \/ process = "unreachable" /\ Hung # {}

\* A script begins after the program of its own execution has said concurritStartTest:
\* sem_test_start is never reset, so a token of an earlier execution would do.
ScriptAfterStart == pc = "script" => starts > 0

\* What one execution leaves to the next: no token, and the monitor off, so that no
\* thread is stopped before the test has started.
CleanStart ==
  pc \in {"start", "setup", "driver"} => loadSem = 0 /\ startSem = 0 /\ ~pinOn

\* The library is not unloaded under a thread that still runs its code: main restarts
\* the driver only when the threads have ended, or hang.
LibraryInUse ==
  ~lib => \A t \in DOMAIN threads : threads[t] \in {"none", "entry", "ended", "hung"}

Dead(t) == threads[t] \in {"none", "ended", "hung"}

\* What makes it inductive: no thread that runs survives into the next execution, unless
\* a non-backtrack exception is about to end the search and cancel it.
LibraryInv ==
  /\ LibraryInUse
  /\ threads[Driver] \in {"entry", "loaded"} => Dead(Worker)
  /\ ~created => Dead(Worker)
  /\ pc \in Between => Dead(Driver) /\ Dead(Worker)
  /\ pc \in {"teardown", "ended", "explore"} =>
       (Dead(Driver) /\ Dead(Worker)) \/ exc \in NonBacktrack

\* What makes ScriptAfterStart and CleanStart inductive when the program says
\* concurritStartTest at most once and in time: its token is given or about to be given
\* until main has taken it, and then the driver can neither give another nor turn the
\* monitor on.
TokenInv ==
  /\ ScriptAfterStart
  /\ ~Controlled => starts = 0 /\ startSem = 0 /\ threads[Driver] # "starts" /\ ~pinOn
  /\ pc \in {"setup", "driver"} => starts = 0
  /\ pc \in {"load", "waitStart"} =>
       starts = startSem + (IF threads[Driver] = "starts" THEN 1 ELSE 0)
  /\ pc \notin {"load", "waitStart"} =>
       /\ startSem = 0
       /\ Dead(Driver) \/ ~Controlled \/ (starts = 1 /\ threads[Driver] # "starts")
  /\ pc \notin {"load", "waitStart", "script", "uncontrolled"} => ~pinOn

\* A search that ends as a success has covered its tree, or was cut short by
\* concurritEndSearch or because the suite has had its -f executions: the countdown
\* neither wraps below zero nor ends a search of an unlimited run.
SearchedAll ==
  pc = "finish" /\ result[scen] = "forall" =>
    \/ left = 0
    \/ exc = "SEARCH_ENDS"
    \/ first = 0 /\ setting.first > 0 /\ execs >= setting.first

\* What makes it inductive: the countdown counts executions, and the one main has just
\* run is not counted yet.
SearchInv ==
  /\ SearchedAll
  /\ setting.first > 0 =>
       /\ first \in 0..setting.first
       /\ first + execs >= setting.first
       /\ pc = "explore" => first = 0 \/ first + execs > setting.first
  /\ setting.first = -1 => first < 0

\* What makes NoAbort inductive: who the current scenario is, where its status and its
\* schedule are, and how often that has been deleted, until a signal intervenes.
LifeInv ==
  ~Signalled =>
    /\ pc = "suite" => current = 0
    /\ pc = "start" => current \in {0, scen} /\ status \in {TEST_BEGIN, TEST_ENDED}
    /\ pc \in (Execution \ {"start"}) \cup {"finish", "delete"} => current = scen /\ schedule
    /\ pc \in {"explore", "finish"} => status = TEST_ENDED
    /\ schedule => pc \in Execution \cup {"finish", "delete"} /\ deletes[scen] = 0
    /\ pc # "printed" =>
         \A s \in Scenarios : (pc = "report" => s >= scen) => deletes[s] <= 1

\* The process ends, whatever the program does and whenever signals come, unless an
\* uncontrolled run waits for a thread that hangs.
SuiteEnds == <>(process # "runs" \/ (~Controlled /\ Hung # {}))
=============================================================================
