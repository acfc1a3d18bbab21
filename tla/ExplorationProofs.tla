-------------------------- MODULE ExplorationProofs --------------------------
(***************************************************************************)
(* Proofs about the life of a test process, for every number of scenarios  *)
(* and paths, all settings, signals and hangs: type correctness, that the  *)
(* test library is not unloaded under a running thread, that a search that *)
(* reports success has searched everything, that the asserts of the life   *)
(* cycle hold, and, for programs that announce one start of the test in    *)
(* time, that no script starts early and nothing leaks between executions. *)
(***************************************************************************)
EXTENDS Exploration, TLAPS

USE DEF search, scenario, test, program, vars, At, Is, Goes, Goto, Move, Check,
        Main, Driver, Worker, Nobody, Scenarios


\* Counting up one entry of a counter, or none.
LEMMA CountUp ==
  ASSUME NEW n \in Nat, NEW f \in [1..n -> Nat], NEW i \in 0..n, NEW k \in {0, 1}
  PROVE  [f EXCEPT ![i] = @ + k] \in [1..n -> Nat]
<1>1. CASE i \in 1..n
  <2>1. f[i] + k \in Nat
    BY <1>1
  <2>2. QED
    BY <2>1
<1>2. CASE i = 0
  <2>1. [f EXCEPT ![i] = @ + k] = f
    BY <1>2
  <2>2. QED
    BY <2>1
<1>3. QED
  BY <1>1, <1>2

\* The Boolean variables.
Flags == /\ schedule \in BOOLEAN /\ lib \in BOOLEAN
         /\ created \in BOOLEAN /\ pinOn \in BOOLEAN

\* Every step keeps the Boolean variables Boolean.
LEMMA FlagsStep == Flags /\ [Next]_vars => Flags'
<1> SUFFICES ASSUME Flags, [Next]_vars PROVE Flags'
  OBVIOUS
<1> USE DEF Flags
<1>1. ASSUME Start PROVE Flags'
  BY <1>1 DEF Start
<1>2. ASSUME RunSetUp PROVE Flags'
  BY <1>2 DEF RunSetUp
<1>3. ASSUME RunTestDriver PROVE Flags'
  BY <1>3 DEF RunTestDriver, StartCoroutine
<1>4. ASSUME DriverLoaded PROVE Flags'
  BY <1>4 DEF DriverLoaded
<1>5. ASSUME WaitForTestStart PROVE Flags'
  BY <1>5 DEF WaitForTestStart
<1>6. ASSUME WaitForTestStartTimeout PROVE Flags'
  BY <1>6 DEF WaitForTestStartTimeout, AddException
<1>7. ASSUME NEW e \in {"SUCCESS", "BACKTRACK", "ASSERTION"}, TestCase(e) PROVE Flags'
  BY <1>7 DEF TestCase, AddException
<1>8. ASSUME RunUncontrolled PROVE Flags'
  BY <1>8 DEF RunUncontrolled
<1>9. ASSUME JoinAllThreads PROVE Flags'
  BY <1>9 DEF JoinAllThreads, IsAllEnded
<1>10. ASSUME JoinDeadlock PROVE Flags'
  BY <1>10 DEF JoinDeadlock, AddException
<1>11. ASSUME CancelJoinAll PROVE Flags'
  BY <1>11 DEF CancelJoinAll, CancelHandler
<1>12. ASSUME RunTearDown PROVE Flags'
  BY <1>12 DEF RunTearDown
<1>13. ASSUME RunOnceEnds PROVE Flags'
  BY <1>13 DEF RunOnceEnds
<1>14. ASSUME BeginExplore PROVE Flags'
  BY <1>14 DEF BeginExplore
<1>15. ASSUME FoundViolation PROVE Flags'
  BY <1>15 DEF FoundViolation, ExploreEnds
<1>16. ASSUME FoundRuntimeException PROVE Flags'
  BY <1>16 DEF FoundRuntimeException, ExploreEnds
<1>17. ASSUME FoundWitness PROVE Flags'
  BY <1>17 DEF FoundWitness, ExploreEnds
<1>18. ASSUME StopSearch PROVE Flags'
  BY <1>18 DEF StopSearch, Backtracks, Countdown
<1>19. ASSUME BacktrackSearch PROVE Flags'
  BY <1>19 DEF BacktrackSearch, Backtracks, Countdown
<1>20. ASSUME RepeatUncontrolled PROVE Flags'
  BY <1>20 DEF RepeatUncontrolled, Backtracks, Countdown
<1>21. ASSUME FinishStatus PROVE Flags'
  BY <1>21 DEF FinishStatus
<1>22. ASSUME Finish PROVE Flags'
  BY <1>22 DEF Finish, DeleteSchedule, CancelHandler
<1>23. ASSUME BeginReport PROVE Flags'
  BY <1>23 DEF BeginReport
<1>24. ASSUME ReportResult PROVE Flags'
  BY <1>24 DEF ReportResult
<1>25. ASSUME PrintReport PROVE Flags'
  BY <1>25 DEF PrintReport
<1>26. ASSUME UnloadTestLibrary PROVE Flags'
  BY <1>26 DEF UnloadTestLibrary
<1>27. ASSUME LoadTestLibrary PROVE Flags'
  BY <1>27 DEF LoadTestLibrary
<1>28. ASSUME CallDriverMain PROVE Flags'
  BY <1>28 DEF CallDriverMain
<1>29. ASSUME SignalTestStart PROVE Flags'
  BY <1>29 DEF SignalTestStart
<1>30. ASSUME CreateWorker PROVE Flags'
  BY <1>30 DEF CreateWorker, StartCoroutine
<1>31. ASSUME EnableForTest PROVE Flags'
  BY <1>31 DEF EnableForTest
<1>32. ASSUME EndTest PROVE Flags'
  BY <1>32 DEF EndTest, AddException
<1>33. ASSUME NEW t \in DOMAIN threads, EndThread(t) PROVE Flags'
  BY <1>33 DEF EndThread
<1>34. ASSUME NEW t \in DOMAIN threads, Hang(t) PROVE Flags'
  BY <1>34 DEF Hang
<1>35. ASSUME NEW t \in DOMAIN threads, NEW e \in {"ASSERTION", "SEARCH_ENDS"}, Raise(t, e)
      PROVE  Flags'
  BY <1>35 DEF Raise, AddException
<1>36. ASSUME OnSignal PROVE Flags'
  BY <1>36 DEF OnSignal, InHandler, HandlerGoto
<1>37. ASSUME FinishSignal PROVE Flags'
  BY <1>37 DEF FinishSignal, InHandler, HandlerGoto, DeleteSchedule
<1>38. ASSUME Kill PROVE Flags'
  BY <1>38 DEF Kill, InHandler, HandlerGoto
<1>39. ASSUME NEW x \in {Main, Driver, Worker}, SignalAgain(x) PROVE Flags'
  BY <1>39 DEF SignalAgain
<1>40. ASSUME NEW x \in {Main, Driver, Worker}, NEW sig \in Signals, SignalHandler(x, sig)
      PROVE  Flags'
  BY <1>40 DEF SignalHandler
<1>41. CASE UNCHANGED vars
  BY <1>41 DEF vars
<1>42. QED
  BY <1>1, <1>2, <1>3, <1>4, <1>5, <1>6, <1>7, <1>8, <1>9, <1>10, <1>11, <1>12, <1>13,
     <1>14, <1>15, <1>16, <1>17, <1>18, <1>19, <1>20, <1>21, <1>22, <1>23, <1>24, <1>25,
     <1>26, <1>27, <1>28, <1>29, <1>30, <1>31, <1>32, <1>33, <1>34, <1>35, <1>36, <1>37,
     <1>38, <1>39, <1>40, <1>41 DEF Next, MainStep, RunOnce, Explore, Report,
     ProgramStep, DriverStarts, ThreadEnds, HandlerStep, SignalStep

\* Every step keeps the type invariant.
LEMMA TypeStep == TypeInv /\ [Next]_vars => TypeInv'
<1> SUFFICES ASSUME TypeInv, [Next]_vars PROVE TypeInv'
  OBVIOUS
<1> USE DEF Places, Execution, Results, Owning, Failures, ThreadPlaces,
        BacktrackReason, NonBacktrack
<1>0. /\ setting \in Settings /\ scen \in 1..(NumScenarios + 1) /\ pc \in Places
      /\ status \in 0..6 /\ current \in 0..NumScenarios
      /\ schedule \in BOOLEAN /\ deletes \in [1..NumScenarios -> Nat]
      /\ exc \in BacktrackReason \cup NonBacktrack \cup {"none"}
      /\ left \in 0..Paths /\ first \in Int /\ execs \in Nat
      /\ result \in [1..NumScenarios -> Results]
      /\ threads \in [{"driver", "worker"} -> ThreadPlaces]
      /\ DOMAIN threads = {"driver", "worker"}
      /\ lib \in BOOLEAN /\ loadSem \in 0..1 /\ startSem \in Nat /\ starts \in 0..MaxStarts
      /\ created \in BOOLEAN /\ pinOn \in BOOLEAN
      /\ handler \in [by : {Main, Driver, Worker, Nobody}, sig : Signals \cup {"none"},
                       at : {"none", "check", "finish", "kill", "returned"}]
      /\ process \in {"runs", "exit", "killed"} \cup Failures
      /\ NumScenarios \in Nat /\ Paths \in Nat \ {0} /\ MaxStarts \in Nat
  BY ExplorationAssumption DEF TypeInv, TypeOK, ThreadPlaces, TEST_BEGIN, TEST_TERMINATED
<1>a. schedule' \in BOOLEAN /\ lib' \in BOOLEAN /\ created' \in BOOLEAN /\ pinOn' \in BOOLEAN
  BY <1>0, FlagsStep DEF Flags
<1>1. ASSUME Start PROVE TypeInv'
  BY <1>1, <1>0, <1>a DEF Start, TypeInv, TypeOK, TEST_BEGIN, TEST_SETUP,
     TEST_CONTROLLED, TEST_UNCONTROLLED, TEST_TEARDOWN, TEST_ENDED, TEST_TERMINATED
<1>2. ASSUME RunSetUp PROVE TypeInv'
  BY <1>2, <1>0, <1>a DEF RunSetUp, TypeInv, TypeOK, TEST_BEGIN, TEST_SETUP,
     TEST_CONTROLLED, TEST_UNCONTROLLED, TEST_TEARDOWN, TEST_ENDED, TEST_TERMINATED
<1>3. ASSUME RunTestDriver PROVE TypeInv'
  BY <1>3, <1>0, <1>a DEF RunTestDriver, StartCoroutine, TypeInv, TypeOK, TEST_BEGIN,
     TEST_SETUP, TEST_CONTROLLED, TEST_UNCONTROLLED, TEST_TEARDOWN, TEST_ENDED,
     TEST_TERMINATED
<1>4. ASSUME DriverLoaded PROVE TypeInv'
  BY <1>4, <1>0, <1>a DEF DriverLoaded, TypeInv, TypeOK, TEST_BEGIN, TEST_SETUP,
     TEST_CONTROLLED, TEST_UNCONTROLLED, TEST_TEARDOWN, TEST_ENDED, TEST_TERMINATED
<1>5. ASSUME WaitForTestStart PROVE TypeInv'
  BY <1>5, <1>0, <1>a DEF WaitForTestStart, TypeInv, TypeOK, TEST_BEGIN, TEST_SETUP,
     TEST_CONTROLLED, TEST_UNCONTROLLED, TEST_TEARDOWN, TEST_ENDED, TEST_TERMINATED
<1>6. ASSUME WaitForTestStartTimeout PROVE TypeInv'
  BY <1>6, <1>0, <1>a DEF WaitForTestStartTimeout, AddException, TypeInv, TypeOK,
     TEST_BEGIN, TEST_SETUP, TEST_CONTROLLED, TEST_UNCONTROLLED, TEST_TEARDOWN,
     TEST_ENDED, TEST_TERMINATED
<1>7. ASSUME NEW e \in {"SUCCESS", "BACKTRACK", "ASSERTION"}, TestCase(e) PROVE TypeInv'
  BY <1>7, <1>0, <1>a DEF TestCase, AddException, TypeInv, TypeOK, TEST_BEGIN,
     TEST_SETUP, TEST_CONTROLLED, TEST_UNCONTROLLED, TEST_TEARDOWN, TEST_ENDED,
     TEST_TERMINATED
<1>8. ASSUME RunUncontrolled PROVE TypeInv'
  BY <1>8, <1>0, <1>a DEF RunUncontrolled, TypeInv, TypeOK, TEST_BEGIN, TEST_SETUP,
     TEST_CONTROLLED, TEST_UNCONTROLLED, TEST_TEARDOWN, TEST_ENDED, TEST_TERMINATED
<1>9. ASSUME JoinAllThreads PROVE TypeInv'
  BY <1>9, <1>0, <1>a DEF JoinAllThreads, IsAllEnded, TypeInv, TypeOK, TEST_BEGIN,
     TEST_SETUP, TEST_CONTROLLED, TEST_UNCONTROLLED, TEST_TEARDOWN, TEST_ENDED,
     TEST_TERMINATED
<1>10. ASSUME JoinDeadlock PROVE TypeInv'
  BY <1>10, <1>0, <1>a DEF JoinDeadlock, AddException, TypeInv, TypeOK, TEST_BEGIN,
     TEST_SETUP, TEST_CONTROLLED, TEST_UNCONTROLLED, TEST_TEARDOWN, TEST_ENDED,
     TEST_TERMINATED
<1>11. ASSUME CancelJoinAll PROVE TypeInv'
  <2>1. handler' \in [by : {Main, Driver, Worker, Nobody}, sig : Signals \cup {"none"},
                     at : {"none", "check", "finish", "kill", "returned"}]
        /\ (handler'.at # "none" => handler'.by # Nobody)
    BY <1>11, <1>0 DEF CancelJoinAll, CancelHandler, Interrupted, TypeInv
  <2>2. threads' = [t \in {"driver", "worker"} |-> "none"]
    BY <1>11, <1>0 DEF CancelJoinAll
  <2>3. QED
    BY <1>11, <1>0, <1>a, <2>1, <2>2 DEF CancelJoinAll, TypeInv, TypeOK
<1>12. ASSUME RunTearDown PROVE TypeInv'
  BY <1>12, <1>0, <1>a DEF RunTearDown, TypeInv, TypeOK, TEST_BEGIN, TEST_SETUP,
     TEST_CONTROLLED, TEST_UNCONTROLLED, TEST_TEARDOWN, TEST_ENDED, TEST_TERMINATED
<1>13. ASSUME RunOnceEnds PROVE TypeInv'
  BY <1>13, <1>0, <1>a DEF RunOnceEnds, TypeInv, TypeOK, TEST_BEGIN, TEST_SETUP,
     TEST_CONTROLLED, TEST_UNCONTROLLED, TEST_TEARDOWN, TEST_ENDED, TEST_TERMINATED
<1>14. ASSUME BeginExplore PROVE TypeInv'
  BY <1>14, <1>0, <1>a DEF BeginExplore, TypeInv, TypeOK, TEST_BEGIN, TEST_SETUP,
     TEST_CONTROLLED, TEST_UNCONTROLLED, TEST_TEARDOWN, TEST_ENDED, TEST_TERMINATED
<1>15. ASSUME FoundViolation PROVE TypeInv'
  BY <1>15, <1>0, <1>a DEF FoundViolation, ExploreEnds, TypeInv, TypeOK, TEST_BEGIN,
     TEST_SETUP, TEST_CONTROLLED, TEST_UNCONTROLLED, TEST_TEARDOWN, TEST_ENDED,
     TEST_TERMINATED
<1>16. ASSUME FoundRuntimeException PROVE TypeInv'
  BY <1>16, <1>0, <1>a DEF FoundRuntimeException, ExploreEnds, TypeInv, TypeOK,
     TEST_BEGIN, TEST_SETUP, TEST_CONTROLLED, TEST_UNCONTROLLED, TEST_TEARDOWN,
     TEST_ENDED, TEST_TERMINATED
<1>17. ASSUME FoundWitness PROVE TypeInv'
  BY <1>17, <1>0, <1>a DEF FoundWitness, ExploreEnds, TypeInv, TypeOK, TEST_BEGIN,
     TEST_SETUP, TEST_CONTROLLED, TEST_UNCONTROLLED, TEST_TEARDOWN, TEST_ENDED,
     TEST_TERMINATED
<1>18. ASSUME StopSearch PROVE TypeInv'
  BY <1>18, <1>0, <1>a DEF StopSearch, Backtracks, Countdown, TypeInv, TypeOK,
     TEST_BEGIN, TEST_SETUP, TEST_CONTROLLED, TEST_UNCONTROLLED, TEST_TEARDOWN,
     TEST_ENDED, TEST_TERMINATED
<1>19. ASSUME BacktrackSearch PROVE TypeInv'
  BY <1>19, <1>0, <1>a DEF BacktrackSearch, Backtracks, Countdown, TypeInv, TypeOK,
     TEST_BEGIN, TEST_SETUP, TEST_CONTROLLED, TEST_UNCONTROLLED, TEST_TEARDOWN,
     TEST_ENDED, TEST_TERMINATED
<1>20. ASSUME RepeatUncontrolled PROVE TypeInv'
  BY <1>20, <1>0, <1>a DEF RepeatUncontrolled, Backtracks, Countdown, TypeInv, TypeOK,
     TEST_BEGIN, TEST_SETUP, TEST_CONTROLLED, TEST_UNCONTROLLED, TEST_TEARDOWN,
     TEST_ENDED, TEST_TERMINATED
<1>21. ASSUME FinishStatus PROVE TypeInv'
  BY <1>21, <1>0, <1>a DEF FinishStatus, TypeInv, TypeOK, TEST_BEGIN, TEST_SETUP,
     TEST_CONTROLLED, TEST_UNCONTROLLED, TEST_TEARDOWN, TEST_ENDED, TEST_TERMINATED
<1>22. ASSUME Finish PROVE TypeInv'
  <2>1. handler' \in [by : {Main, Driver, Worker, Nobody}, sig : Signals \cup {"none"},
                     at : {"none", "check", "finish", "kill", "returned"}]
        /\ (handler'.at # "none" => handler'.by # Nobody)
    BY <1>22, <1>0 DEF Finish, CancelHandler, Interrupted, TypeInv
  <2>2. threads' = [t \in {"driver", "worker"} |-> "none"]
    BY <1>22, <1>0 DEF Finish
  <2>3. deletes' \in [1..NumScenarios -> Nat]
    <3>1. (IF schedule THEN 1 ELSE 0) \in {0, 1}
      OBVIOUS
    <3>2. [deletes EXCEPT ![current] = @ + (IF schedule THEN 1 ELSE 0)]
             \in [1..NumScenarios -> Nat]
      BY <1>0, <3>1, CountUp
    <3>3. QED
      BY <1>22, <1>0, <3>2 DEF Finish, DeleteSchedule
  <2>4. QED
    BY <1>22, <1>0, <1>a, <2>1, <2>2, <2>3 DEF Finish, TypeInv, TypeOK
<1>23. ASSUME BeginReport PROVE TypeInv'
  BY <1>23, <1>0, <1>a DEF BeginReport, TypeInv, TypeOK, TEST_BEGIN, TEST_SETUP,
     TEST_CONTROLLED, TEST_UNCONTROLLED, TEST_TEARDOWN, TEST_ENDED, TEST_TERMINATED
<1>24. ASSUME ReportResult PROVE TypeInv'
  BY <1>24, <1>0, <1>a DEF ReportResult, TypeInv, TypeOK, TEST_BEGIN, TEST_SETUP,
     TEST_CONTROLLED, TEST_UNCONTROLLED, TEST_TEARDOWN, TEST_ENDED, TEST_TERMINATED
<1>25. ASSUME PrintReport PROVE TypeInv'
  BY <1>25, <1>0, <1>a DEF PrintReport, TypeInv, TypeOK, TEST_BEGIN, TEST_SETUP,
     TEST_CONTROLLED, TEST_UNCONTROLLED, TEST_TEARDOWN, TEST_ENDED, TEST_TERMINATED
<1>26. ASSUME UnloadTestLibrary PROVE TypeInv'
  BY <1>26, <1>0, <1>a DEF UnloadTestLibrary, TypeInv, TypeOK, TEST_BEGIN, TEST_SETUP,
     TEST_CONTROLLED, TEST_UNCONTROLLED, TEST_TEARDOWN, TEST_ENDED, TEST_TERMINATED
<1>27. ASSUME LoadTestLibrary PROVE TypeInv'
  BY <1>27, <1>0, <1>a DEF LoadTestLibrary, TypeInv, TypeOK, TEST_BEGIN, TEST_SETUP,
     TEST_CONTROLLED, TEST_UNCONTROLLED, TEST_TEARDOWN, TEST_ENDED, TEST_TERMINATED
<1>28. ASSUME CallDriverMain PROVE TypeInv'
  BY <1>28, <1>0, <1>a DEF CallDriverMain, TypeInv, TypeOK, TEST_BEGIN, TEST_SETUP,
     TEST_CONTROLLED, TEST_UNCONTROLLED, TEST_TEARDOWN, TEST_ENDED, TEST_TERMINATED
<1>29. ASSUME SignalTestStart PROVE TypeInv'
  BY <1>29, <1>0, <1>a DEF SignalTestStart, TypeInv, TypeOK, TEST_BEGIN, TEST_SETUP,
     TEST_CONTROLLED, TEST_UNCONTROLLED, TEST_TEARDOWN, TEST_ENDED, TEST_TERMINATED
<1>30. ASSUME CreateWorker PROVE TypeInv'
  BY <1>30, <1>0, <1>a DEF CreateWorker, StartCoroutine, TypeInv, TypeOK, TEST_BEGIN,
     TEST_SETUP, TEST_CONTROLLED, TEST_UNCONTROLLED, TEST_TEARDOWN, TEST_ENDED,
     TEST_TERMINATED
<1>31. ASSUME EnableForTest PROVE TypeInv'
  BY <1>31, <1>0, <1>a DEF EnableForTest, TypeInv, TypeOK, TEST_BEGIN, TEST_SETUP,
     TEST_CONTROLLED, TEST_UNCONTROLLED, TEST_TEARDOWN, TEST_ENDED, TEST_TERMINATED
<1>32. ASSUME EndTest PROVE TypeInv'
  BY <1>32, <1>0, <1>a DEF EndTest, AddException, TypeInv, TypeOK, TEST_BEGIN,
     TEST_SETUP, TEST_CONTROLLED, TEST_UNCONTROLLED, TEST_TEARDOWN, TEST_ENDED,
     TEST_TERMINATED
<1>33. ASSUME NEW t \in {Driver, Worker}, EndThread(t) PROVE TypeInv'
  BY <1>33, <1>0, <1>a DEF EndThread, TypeInv, TypeOK, TEST_BEGIN, TEST_SETUP,
     TEST_CONTROLLED, TEST_UNCONTROLLED, TEST_TEARDOWN, TEST_ENDED, TEST_TERMINATED
<1>34. ASSUME NEW t \in {Driver, Worker}, Hang(t) PROVE TypeInv'
  BY <1>34, <1>0, <1>a DEF Hang, TypeInv, TypeOK, TEST_BEGIN, TEST_SETUP,
     TEST_CONTROLLED, TEST_UNCONTROLLED, TEST_TEARDOWN, TEST_ENDED, TEST_TERMINATED
<1>35. ASSUME NEW t \in {Driver, Worker}, NEW e \in {"ASSERTION", "SEARCH_ENDS"}, Raise(t, e)
      PROVE  TypeInv'
  BY <1>35, <1>0, <1>a DEF Raise, AddException, TypeInv, TypeOK, TEST_BEGIN, TEST_SETUP,
     TEST_CONTROLLED, TEST_UNCONTROLLED, TEST_TEARDOWN, TEST_ENDED, TEST_TERMINATED
<1>36. ASSUME OnSignal PROVE TypeInv'
  <2>1. /\ handler' \in [by : {Main, Driver, Worker, Nobody}, sig : Signals \cup {"none"},
                        at : {"none", "check", "finish", "kill", "returned"}]
        /\ handler'.at # "none" => handler'.by # Nobody
    BY <1>36, <1>0 DEF OnSignal, InHandler, HandlerGoto, TypeInv
  <2>2. UNCHANGED <<search, pc, scenario, exc, program, process>>
    BY <1>36 DEF OnSignal
  <2>3. QED
    BY <1>0, <1>a, <2>1, <2>2 DEF TypeInv, TypeOK
<1>37. ASSUME FinishSignal PROVE TypeInv'
  <2>1. handler' \in [by : {Main, Driver, Worker, Nobody}, sig : Signals \cup {"none"},
                     at : {"none", "check", "finish", "kill", "returned"}]
        /\ (handler'.at # "none" => handler'.by # Nobody)
    BY <1>37, <1>0 DEF FinishSignal, InHandler, HandlerGoto, TypeInv
  <2>2. deletes' \in [1..NumScenarios -> Nat]
    <3>1. (IF schedule THEN 1 ELSE 0) \in {0, 1}
      OBVIOUS
    <3>2. [deletes EXCEPT ![current] = @ + (IF schedule THEN 1 ELSE 0)]
             \in [1..NumScenarios -> Nat]
      BY <1>0, <3>1, CountUp
    <3>3. QED
      BY <1>37, <1>0, <3>2 DEF FinishSignal, DeleteSchedule
  <2>3. QED
    BY <1>37, <1>0, <1>a, <2>1, <2>2
    DEF FinishSignal, DeleteSchedule, TypeInv, TypeOK, TEST_BEGIN, TEST_TERMINATED
<1>38. ASSUME Kill PROVE TypeInv'
  <2>1. /\ handler' \in [by : {Main, Driver, Worker, Nobody}, sig : Signals \cup {"none"},
                        at : {"none", "check", "finish", "kill", "returned"}]
        /\ handler'.at # "none" => handler'.by # Nobody
    BY <1>38, <1>0 DEF Kill, InHandler, HandlerGoto, TypeInv
  <2>2. UNCHANGED <<search, pc, scenario, exc, program>> /\ process' \in {process, "killed"}
    BY <1>38 DEF Kill
  <2>3. QED
    BY <1>0, <1>a, <2>1, <2>2 DEF TypeInv, TypeOK
<1>39. ASSUME NEW x \in {Main, Driver, Worker}, SignalAgain(x) PROVE TypeInv'
  BY <1>39, <1>0, <1>a DEF SignalAgain, TypeInv, TypeOK, TEST_BEGIN, TEST_SETUP,
     TEST_CONTROLLED, TEST_UNCONTROLLED, TEST_TEARDOWN, TEST_ENDED, TEST_TERMINATED
<1>40. ASSUME NEW x \in {Main, Driver, Worker}, NEW sig \in Signals, SignalHandler(x, sig)
      PROVE  TypeInv'
  BY <1>40, <1>0, <1>a DEF SignalHandler, TypeInv, TypeOK, TEST_BEGIN, TEST_SETUP,
     TEST_CONTROLLED, TEST_UNCONTROLLED, TEST_TEARDOWN, TEST_ENDED, TEST_TERMINATED
<1>41. CASE UNCHANGED vars
  BY <1>41, <1>0, <1>a DEF TypeInv, TypeOK, TEST_BEGIN, TEST_SETUP, TEST_CONTROLLED,
     TEST_UNCONTROLLED, TEST_TEARDOWN, TEST_ENDED, TEST_TERMINATED, vars
<1>42. QED
  BY <1>1, <1>2, <1>3, <1>4, <1>5, <1>6, <1>7, <1>8, <1>9, <1>10, <1>11, <1>12, <1>13,
     <1>14, <1>15, <1>16, <1>17, <1>18, <1>19, <1>20, <1>21, <1>22, <1>23, <1>24, <1>25,
     <1>26, <1>27, <1>28, <1>29, <1>30, <1>31, <1>32, <1>33, <1>34, <1>35, <1>36, <1>37,
     <1>38, <1>39, <1>40, <1>41, <1>0 DEF Next, MainStep, RunOnce, Explore, Report,
     ProgramStep, DriverStarts, ThreadEnds, HandlerStep, SignalStep

\* Every step keeps LibraryInv.
LEMMA LibraryStep == TypeInv /\ LibraryInv /\ [Next]_vars => LibraryInv'
<1> SUFFICES ASSUME TypeInv, LibraryInv, [Next]_vars PROVE LibraryInv'
  OBVIOUS
<1> USE DEF LibraryInv, LibraryInUse, Dead, Between, NonBacktrack, ThreadPlaces
<1>0. /\ setting \in Settings /\ scen \in 1..(NumScenarios + 1) /\ pc \in Places
      /\ status \in 0..6 /\ current \in 0..NumScenarios
      /\ schedule \in BOOLEAN /\ deletes \in [1..NumScenarios -> Nat]
      /\ exc \in BacktrackReason \cup NonBacktrack \cup {"none"}
      /\ left \in 0..Paths /\ first \in Int /\ execs \in Nat
      /\ result \in [1..NumScenarios -> Results]
      /\ threads \in [{"driver", "worker"} -> ThreadPlaces]
      /\ DOMAIN threads = {"driver", "worker"}
      /\ lib \in BOOLEAN /\ loadSem \in 0..1 /\ startSem \in Nat /\ starts \in 0..MaxStarts
      /\ created \in BOOLEAN /\ pinOn \in BOOLEAN
      /\ handler \in [by : {Main, Driver, Worker, Nobody}, sig : Signals \cup {"none"},
                       at : {"none", "check", "finish", "kill", "returned"}]
      /\ process \in {"runs", "exit", "killed"} \cup Failures
      /\ NumScenarios \in Nat /\ Paths \in Nat \ {0} /\ MaxStarts \in Nat
  BY ExplorationAssumption DEF TypeInv, TypeOK, ThreadPlaces, TEST_BEGIN, TEST_TERMINATED
<1>1. ASSUME Start PROVE LibraryInv'
  BY <1>1, <1>0 DEF Start, TypeInv
<1>2. ASSUME RunSetUp PROVE LibraryInv'
  BY <1>2, <1>0 DEF RunSetUp, TypeInv
<1>3. ASSUME RunTestDriver PROVE LibraryInv'
  BY <1>3, <1>0 DEF RunTestDriver, StartCoroutine, TypeInv
<1>4. ASSUME DriverLoaded PROVE LibraryInv'
  BY <1>4, <1>0 DEF DriverLoaded, TypeInv
<1>5. ASSUME WaitForTestStart PROVE LibraryInv'
  BY <1>5, <1>0 DEF WaitForTestStart, TypeInv
<1>6. ASSUME WaitForTestStartTimeout PROVE LibraryInv'
  BY <1>6, <1>0 DEF WaitForTestStartTimeout, AddException, TypeInv
<1>7. ASSUME NEW e \in {"SUCCESS", "BACKTRACK", "ASSERTION"}, TestCase(e)
     PROVE  LibraryInv'
  BY <1>7, <1>0 DEF TestCase, AddException, TypeInv
<1>8. ASSUME RunUncontrolled PROVE LibraryInv'
  BY <1>8, <1>0 DEF RunUncontrolled, TypeInv
<1>9. ASSUME JoinAllThreads PROVE LibraryInv'
  BY <1>9, <1>0 DEF JoinAllThreads, IsAllEnded, TypeInv
<1>10. ASSUME JoinDeadlock PROVE LibraryInv'
  BY <1>10, <1>0 DEF JoinDeadlock, AddException, TypeInv
<1>11. ASSUME CancelJoinAll PROVE LibraryInv'
  BY <1>11, <1>0 DEF CancelJoinAll, CancelHandler, TypeInv
<1>12. ASSUME RunTearDown PROVE LibraryInv'
  BY <1>12, <1>0 DEF RunTearDown, TypeInv
<1>13. ASSUME RunOnceEnds PROVE LibraryInv'
  BY <1>13, <1>0 DEF RunOnceEnds, TypeInv
<1>14. ASSUME BeginExplore PROVE LibraryInv'
  BY <1>14, <1>0 DEF BeginExplore, TypeInv
<1>15. ASSUME FoundViolation PROVE LibraryInv'
  BY <1>15, <1>0 DEF FoundViolation, ExploreEnds, TypeInv
<1>16. ASSUME FoundRuntimeException PROVE LibraryInv'
  BY <1>16, <1>0 DEF FoundRuntimeException, ExploreEnds, TypeInv
<1>17. ASSUME FoundWitness PROVE LibraryInv'
  BY <1>17, <1>0 DEF FoundWitness, ExploreEnds, TypeInv
<1>18. ASSUME StopSearch PROVE LibraryInv'
  BY <1>18, <1>0 DEF StopSearch, Backtracks, Countdown, TypeInv
<1>19. ASSUME BacktrackSearch PROVE LibraryInv'
  BY <1>19, <1>0 DEF BacktrackSearch, Backtracks, Countdown, TypeInv
<1>20. ASSUME RepeatUncontrolled PROVE LibraryInv'
  BY <1>20, <1>0 DEF RepeatUncontrolled, Backtracks, Countdown, TypeInv
<1>21. ASSUME FinishStatus PROVE LibraryInv'
  BY <1>21, <1>0 DEF FinishStatus, TypeInv
<1>22. ASSUME Finish PROVE LibraryInv'
  BY <1>22, <1>0 DEF Finish, DeleteSchedule, CancelHandler, TypeInv
<1>23. ASSUME BeginReport PROVE LibraryInv'
  BY <1>23, <1>0 DEF BeginReport, TypeInv
<1>24. ASSUME ReportResult PROVE LibraryInv'
  BY <1>24, <1>0 DEF ReportResult, TypeInv
<1>25. ASSUME PrintReport PROVE LibraryInv'
  BY <1>25, <1>0 DEF PrintReport, TypeInv
<1>26. ASSUME UnloadTestLibrary PROVE LibraryInv'
  BY <1>26, <1>0 DEF UnloadTestLibrary, TypeInv
<1>27. ASSUME LoadTestLibrary PROVE LibraryInv'
  BY <1>27, <1>0 DEF LoadTestLibrary, TypeInv
<1>28. ASSUME CallDriverMain PROVE LibraryInv'
  BY <1>28, <1>0 DEF CallDriverMain, TypeInv
<1>29. ASSUME SignalTestStart PROVE LibraryInv'
  BY <1>29, <1>0 DEF SignalTestStart, TypeInv
<1>30. ASSUME CreateWorker PROVE LibraryInv'
  BY <1>30, <1>0 DEF CreateWorker, StartCoroutine, TypeInv
<1>31. ASSUME EnableForTest PROVE LibraryInv'
  BY <1>31, <1>0 DEF EnableForTest, TypeInv
<1>32. ASSUME EndTest PROVE LibraryInv'
  BY <1>32, <1>0 DEF EndTest, AddException, TypeInv
<1>33. ASSUME NEW t \in {Driver, Worker}, EndThread(t) PROVE LibraryInv'
  BY <1>33, <1>0 DEF EndThread, TypeInv
<1>34. ASSUME NEW t \in {Driver, Worker}, Hang(t) PROVE LibraryInv'
  BY <1>34, <1>0 DEF Hang, TypeInv
<1>35. ASSUME NEW t \in {Driver, Worker}, NEW e \in {"ASSERTION", "SEARCH_ENDS"}, Raise(t, e)
      PROVE  LibraryInv'
  BY <1>35, <1>0 DEF Raise, AddException, TypeInv
<1>36. ASSUME OnSignal PROVE LibraryInv'
  BY <1>36, <1>0 DEF OnSignal, InHandler, HandlerGoto, TypeInv
<1>37. ASSUME FinishSignal PROVE LibraryInv'
  BY <1>37, <1>0 DEF FinishSignal, InHandler, HandlerGoto, DeleteSchedule, TypeInv
<1>38. ASSUME Kill PROVE LibraryInv'
  BY <1>38, <1>0 DEF Kill, InHandler, HandlerGoto, TypeInv
<1>39. ASSUME NEW x \in {Main, Driver, Worker}, SignalAgain(x) PROVE LibraryInv'
  BY <1>39, <1>0 DEF SignalAgain, TypeInv
<1>40. ASSUME NEW x \in {Main, Driver, Worker}, NEW sig \in Signals, SignalHandler(x, sig)
      PROVE  LibraryInv'
  BY <1>40, <1>0 DEF SignalHandler, TypeInv
<1>41. CASE UNCHANGED vars
  BY <1>41, <1>0 DEF TypeInv, vars
<1>42. QED
  BY <1>1, <1>2, <1>3, <1>4, <1>5, <1>6, <1>7, <1>8, <1>9, <1>10, <1>11, <1>12, <1>13,
     <1>14, <1>15, <1>16, <1>17, <1>18, <1>19, <1>20, <1>21, <1>22, <1>23, <1>24, <1>25,
     <1>26, <1>27, <1>28, <1>29, <1>30, <1>31, <1>32, <1>33, <1>34, <1>35, <1>36, <1>37,
     <1>38, <1>39, <1>40, <1>41, <1>0 DEF Next, MainStep, RunOnce, Explore, Report,
     ProgramStep, DriverStarts, ThreadEnds, HandlerStep, SignalStep

\* Every step keeps TokenInv when the program announces one start, in time.
LEMMA TokenStep ==
  ASSUME MaxStarts <= 1, ~SlowStart, TypeInv, LibraryInv, TokenInv, [Next]_vars
  PROVE  TokenInv'
<1> USE DEF TokenInv, ScriptAfterStart, Dead, Between, Controlled
<1>0. /\ setting \in Settings /\ scen \in 1..(NumScenarios + 1) /\ pc \in Places
      /\ status \in 0..6 /\ current \in 0..NumScenarios
      /\ schedule \in BOOLEAN /\ deletes \in [1..NumScenarios -> Nat]
      /\ exc \in BacktrackReason \cup NonBacktrack \cup {"none"}
      /\ left \in 0..Paths /\ first \in Int /\ execs \in Nat
      /\ result \in [1..NumScenarios -> Results]
      /\ threads \in [{"driver", "worker"} -> ThreadPlaces]
      /\ DOMAIN threads = {"driver", "worker"}
      /\ lib \in BOOLEAN /\ loadSem \in 0..1 /\ startSem \in Nat /\ starts \in 0..MaxStarts
      /\ created \in BOOLEAN /\ pinOn \in BOOLEAN
      /\ handler \in [by : {Main, Driver, Worker, Nobody}, sig : Signals \cup {"none"},
                       at : {"none", "check", "finish", "kill", "returned"}]
      /\ process \in {"runs", "exit", "killed"} \cup Failures
      /\ NumScenarios \in Nat /\ Paths \in Nat \ {0} /\ MaxStarts \in Nat
  BY ExplorationAssumption DEF TypeInv, TypeOK, ThreadPlaces, TEST_BEGIN, TEST_TERMINATED
<1>1. ASSUME Start PROVE TokenInv'
  BY <1>1, <1>0 DEF Start, TypeInv, LibraryInv
<1>2. ASSUME RunSetUp PROVE TokenInv'
  BY <1>2, <1>0 DEF RunSetUp, TypeInv, LibraryInv
<1>3. ASSUME RunTestDriver PROVE TokenInv'
  BY <1>3, <1>0 DEF RunTestDriver, StartCoroutine, TypeInv, LibraryInv
<1>4. ASSUME DriverLoaded PROVE TokenInv'
  BY <1>4, <1>0 DEF DriverLoaded, TypeInv, LibraryInv
<1>5. ASSUME WaitForTestStart PROVE TokenInv'
  BY <1>5, <1>0 DEF WaitForTestStart, TypeInv, LibraryInv
<1>6. ASSUME WaitForTestStartTimeout PROVE TokenInv'
  BY <1>6, <1>0 DEF WaitForTestStartTimeout, AddException, TypeInv, LibraryInv
<1>7. ASSUME NEW e \in {"SUCCESS", "BACKTRACK", "ASSERTION"}, TestCase(e)
     PROVE  TokenInv'
  BY <1>7, <1>0 DEF TestCase, AddException, TypeInv, LibraryInv
<1>8. ASSUME RunUncontrolled PROVE TokenInv'
  BY <1>8, <1>0 DEF RunUncontrolled, TypeInv, LibraryInv
<1>9. ASSUME JoinAllThreads PROVE TokenInv'
  BY <1>9, <1>0 DEF JoinAllThreads, IsAllEnded, TypeInv, LibraryInv
<1>10. ASSUME JoinDeadlock PROVE TokenInv'
  BY <1>10, <1>0 DEF JoinDeadlock, AddException, TypeInv, LibraryInv
<1>11. ASSUME CancelJoinAll PROVE TokenInv'
  BY <1>11, <1>0 DEF CancelJoinAll, CancelHandler, TypeInv, LibraryInv
<1>12. ASSUME RunTearDown PROVE TokenInv'
  BY <1>12, <1>0 DEF RunTearDown, TypeInv, LibraryInv
<1>13. ASSUME RunOnceEnds PROVE TokenInv'
  BY <1>13, <1>0 DEF RunOnceEnds, TypeInv, LibraryInv
<1>14. ASSUME BeginExplore PROVE TokenInv'
  BY <1>14, <1>0 DEF BeginExplore, TypeInv, LibraryInv
<1>15. ASSUME FoundViolation PROVE TokenInv'
  BY <1>15, <1>0 DEF FoundViolation, ExploreEnds, TypeInv, LibraryInv
<1>16. ASSUME FoundRuntimeException PROVE TokenInv'
  BY <1>16, <1>0 DEF FoundRuntimeException, ExploreEnds, TypeInv, LibraryInv
<1>17. ASSUME FoundWitness PROVE TokenInv'
  BY <1>17, <1>0 DEF FoundWitness, ExploreEnds, TypeInv, LibraryInv
<1>18. ASSUME StopSearch PROVE TokenInv'
  BY <1>18, <1>0 DEF StopSearch, Backtracks, Countdown, TypeInv, LibraryInv
<1>19. ASSUME BacktrackSearch PROVE TokenInv'
  BY <1>19, <1>0 DEF BacktrackSearch, Backtracks, Countdown, TypeInv, LibraryInv
<1>20. ASSUME RepeatUncontrolled PROVE TokenInv'
  BY <1>20, <1>0 DEF RepeatUncontrolled, Backtracks, Countdown, TypeInv, LibraryInv
<1>21. ASSUME FinishStatus PROVE TokenInv'
  BY <1>21, <1>0 DEF FinishStatus, TypeInv, LibraryInv
<1>22. ASSUME Finish PROVE TokenInv'
  BY <1>22, <1>0 DEF Finish, DeleteSchedule, CancelHandler, TypeInv, LibraryInv
<1>23. ASSUME BeginReport PROVE TokenInv'
  BY <1>23, <1>0 DEF BeginReport, TypeInv, LibraryInv
<1>24. ASSUME ReportResult PROVE TokenInv'
  BY <1>24, <1>0 DEF ReportResult, TypeInv, LibraryInv
<1>25. ASSUME PrintReport PROVE TokenInv'
  BY <1>25, <1>0 DEF PrintReport, TypeInv, LibraryInv
<1>26. ASSUME UnloadTestLibrary PROVE TokenInv'
  BY <1>26, <1>0 DEF UnloadTestLibrary, TypeInv, LibraryInv
<1>27. ASSUME LoadTestLibrary PROVE TokenInv'
  BY <1>27, <1>0 DEF LoadTestLibrary, TypeInv, LibraryInv
<1>28. ASSUME CallDriverMain PROVE TokenInv'
  BY <1>28, <1>0 DEF CallDriverMain, TypeInv, LibraryInv
<1>29. ASSUME SignalTestStart PROVE TokenInv'
  BY <1>29, <1>0 DEF SignalTestStart, TypeInv, LibraryInv
<1>30. ASSUME CreateWorker PROVE TokenInv'
  BY <1>30, <1>0 DEF CreateWorker, StartCoroutine, TypeInv, LibraryInv
<1>31. ASSUME EnableForTest PROVE TokenInv'
  BY <1>31, <1>0 DEF EnableForTest, TypeInv, LibraryInv
<1>32. ASSUME EndTest PROVE TokenInv'
  BY <1>32, <1>0 DEF EndTest, AddException, TypeInv, LibraryInv
<1>33. ASSUME NEW t \in {Driver, Worker}, EndThread(t) PROVE TokenInv'
  BY <1>33, <1>0 DEF EndThread, TypeInv, LibraryInv
<1>34. ASSUME NEW t \in {Driver, Worker}, Hang(t) PROVE TokenInv'
  BY <1>34, <1>0 DEF Hang, TypeInv, LibraryInv
<1>35. ASSUME NEW t \in {Driver, Worker}, NEW e \in {"ASSERTION", "SEARCH_ENDS"}, Raise(t, e)
      PROVE  TokenInv'
  BY <1>35, <1>0 DEF Raise, AddException, TypeInv, LibraryInv
<1>36. ASSUME OnSignal PROVE TokenInv'
  BY <1>36, <1>0 DEF OnSignal, InHandler, HandlerGoto, TypeInv, LibraryInv
<1>37. ASSUME FinishSignal PROVE TokenInv'
  BY <1>37, <1>0 DEF FinishSignal, InHandler, HandlerGoto, DeleteSchedule, TypeInv,
     LibraryInv
<1>38. ASSUME Kill PROVE TokenInv'
  BY <1>38, <1>0 DEF Kill, InHandler, HandlerGoto, TypeInv, LibraryInv
<1>39. ASSUME NEW x \in {Main, Driver, Worker}, SignalAgain(x) PROVE TokenInv'
  BY <1>39, <1>0 DEF SignalAgain, TypeInv, LibraryInv
<1>40. ASSUME NEW x \in {Main, Driver, Worker}, NEW sig \in Signals, SignalHandler(x, sig)
      PROVE  TokenInv'
  BY <1>40, <1>0 DEF SignalHandler, TypeInv, LibraryInv
<1>41. CASE UNCHANGED vars
  BY <1>41, <1>0 DEF TypeInv, LibraryInv, vars
<1>42. QED
  BY <1>1, <1>2, <1>3, <1>4, <1>5, <1>6, <1>7, <1>8, <1>9, <1>10, <1>11, <1>12, <1>13,
     <1>14, <1>15, <1>16, <1>17, <1>18, <1>19, <1>20, <1>21, <1>22, <1>23, <1>24, <1>25,
     <1>26, <1>27, <1>28, <1>29, <1>30, <1>31, <1>32, <1>33, <1>34, <1>35, <1>36, <1>37,
     <1>38, <1>39, <1>40, <1>41, <1>0 DEF Next, MainStep, RunOnce, Explore, Report,
     ProgramStep, DriverStarts, ThreadEnds, HandlerStep, SignalStep

\* Every step keeps SearchInv.
LEMMA SearchStep == TypeInv /\ SearchInv /\ [Next]_vars => SearchInv'
<1> SUFFICES ASSUME TypeInv, SearchInv, [Next]_vars PROVE SearchInv'
  OBVIOUS
<1> USE DEF SearchInv, SearchedAll, Owning
<1>0. /\ setting \in Settings /\ scen \in 1..(NumScenarios + 1) /\ pc \in Places
      /\ status \in 0..6 /\ current \in 0..NumScenarios
      /\ schedule \in BOOLEAN /\ deletes \in [1..NumScenarios -> Nat]
      /\ exc \in BacktrackReason \cup NonBacktrack \cup {"none"}
      /\ left \in 0..Paths /\ first \in Int /\ execs \in Nat
      /\ result \in [1..NumScenarios -> Results]
      /\ threads \in [{"driver", "worker"} -> ThreadPlaces]
      /\ DOMAIN threads = {"driver", "worker"}
      /\ lib \in BOOLEAN /\ loadSem \in 0..1 /\ startSem \in Nat /\ starts \in 0..MaxStarts
      /\ created \in BOOLEAN /\ pinOn \in BOOLEAN
      /\ handler \in [by : {Main, Driver, Worker, Nobody}, sig : Signals \cup {"none"},
                       at : {"none", "check", "finish", "kill", "returned"}]
      /\ process \in {"runs", "exit", "killed"} \cup Failures
      /\ NumScenarios \in Nat /\ Paths \in Nat \ {0} /\ MaxStarts \in Nat
  BY ExplorationAssumption DEF TypeInv, TypeOK, ThreadPlaces, TEST_BEGIN, TEST_TERMINATED
<1>b. /\ setting.first \in {-1} \cup (Nat \ {0}) /\ setting.first \in Int
      /\ pc = "explore" => left > 0 /\ scen \in 1..NumScenarios
  BY <1>0, ExplorationAssumption DEF TypeInv, Execution
<1>1. ASSUME Start PROVE SearchInv'
  BY <1>1, <1>0, <1>b DEF Start, TypeInv, LastExecution
<1>2. ASSUME RunSetUp PROVE SearchInv'
  BY <1>2, <1>0, <1>b DEF RunSetUp, TypeInv, LastExecution
<1>3. ASSUME RunTestDriver PROVE SearchInv'
  BY <1>3, <1>0, <1>b DEF RunTestDriver, StartCoroutine, TypeInv, LastExecution
<1>4. ASSUME DriverLoaded PROVE SearchInv'
  BY <1>4, <1>0, <1>b DEF DriverLoaded, TypeInv, LastExecution
<1>5. ASSUME WaitForTestStart PROVE SearchInv'
  BY <1>5, <1>0, <1>b DEF WaitForTestStart, TypeInv, LastExecution
<1>6. ASSUME WaitForTestStartTimeout PROVE SearchInv'
  BY <1>6, <1>0, <1>b DEF WaitForTestStartTimeout, AddException, TypeInv, LastExecution
<1>7. ASSUME NEW e \in {"SUCCESS", "BACKTRACK", "ASSERTION"}, TestCase(e)
     PROVE  SearchInv'
  BY <1>7, <1>0, <1>b DEF TestCase, AddException, TypeInv, LastExecution
<1>8. ASSUME RunUncontrolled PROVE SearchInv'
  BY <1>8, <1>0, <1>b DEF RunUncontrolled, TypeInv, LastExecution
<1>9. ASSUME JoinAllThreads PROVE SearchInv'
  BY <1>9, <1>0, <1>b DEF JoinAllThreads, IsAllEnded, TypeInv, LastExecution
<1>10. ASSUME JoinDeadlock PROVE SearchInv'
  BY <1>10, <1>0, <1>b DEF JoinDeadlock, AddException, TypeInv, LastExecution
<1>11. ASSUME CancelJoinAll PROVE SearchInv'
  BY <1>11, <1>0, <1>b DEF CancelJoinAll, CancelHandler, TypeInv, LastExecution
<1>12. ASSUME RunTearDown PROVE SearchInv'
  BY <1>12, <1>0, <1>b DEF RunTearDown, TypeInv, LastExecution
<1>13. ASSUME RunOnceEnds PROVE SearchInv'
  <2>1. /\ setting'.first = setting.first /\ first' = first /\ execs' = execs + 1
        /\ pc' = "explore"
    BY <1>13 DEF RunOnceEnds
  <2>2. QED
    BY <1>0, <1>b, <2>1
<1>14. ASSUME BeginExplore PROVE SearchInv'
  BY <1>14, <1>0, <1>b DEF BeginExplore, TypeInv, LastExecution
<1>15. ASSUME FoundViolation PROVE SearchInv'
  BY <1>15, <1>0, <1>b DEF FoundViolation, ExploreEnds, TypeInv, LastExecution
<1>16. ASSUME FoundRuntimeException PROVE SearchInv'
  BY <1>16, <1>0, <1>b DEF FoundRuntimeException, ExploreEnds, TypeInv, LastExecution
<1>17. ASSUME FoundWitness PROVE SearchInv'
  BY <1>17, <1>0, <1>b DEF FoundWitness, ExploreEnds, TypeInv, LastExecution
<1>18. ASSUME StopSearch PROVE SearchInv'
  <2>1. /\ setting'.first = setting.first /\ execs' = execs /\ pc = "explore"
        /\ result' = result /\ scen' = scen /\ exc' = exc
        /\ first' = IF first = 0 THEN 0 ELSE first - 1
    BY <1>18 DEF StopSearch, Backtracks, Countdown
  <2>2. /\ first' = 0 \/ exc' = "SEARCH_ENDS"
        /\ pc' = "finish"
    BY <1>18, <2>1 DEF StopSearch, LastExecution, Countdown
  <2>3. /\ setting.first > 0 => first' \in 0..setting.first /\ first' + execs' >= setting.first
        /\ setting.first = -1 => first' < 0
    BY <1>0, <1>b, <2>1
  <2>4. QED
    BY <1>0, <1>b, <2>1, <2>2, <2>3
<1>19. ASSUME BacktrackSearch PROVE SearchInv'
  <2>1. /\ setting'.first = setting.first /\ execs' = execs /\ pc = "explore"
        /\ result' = result /\ scen' = scen /\ exc' = exc
        /\ first' = IF first = 0 THEN 0 ELSE first - 1
    BY <1>19 DEF BacktrackSearch, Backtracks, Countdown
  <2>2. /\ left' = left - 1 /\ pc' = IF left > 1 THEN "start" ELSE "finish"
    BY <1>19 DEF BacktrackSearch
  <2>3. /\ setting.first > 0 => first' \in 0..setting.first /\ first' + execs' >= setting.first
        /\ setting.first = -1 => first' < 0
    BY <1>0, <1>b, <2>1
  <2>4. QED
    BY <1>0, <1>b, <2>1, <2>2, <2>3
<1>20. ASSUME RepeatUncontrolled PROVE SearchInv'
  <2>1. /\ setting'.first = setting.first /\ execs' = execs /\ pc = "explore"
        /\ result' = result /\ scen' = scen /\ exc' = exc
        /\ first' = IF first = 0 THEN 0 ELSE first - 1
    BY <1>20 DEF RepeatUncontrolled, Backtracks, Countdown
  <2>2. pc' = "start"
    BY <1>20 DEF RepeatUncontrolled
  <2>3. /\ setting.first > 0 => first' \in 0..setting.first /\ first' + execs' >= setting.first
        /\ setting.first = -1 => first' < 0
    BY <1>0, <1>b, <2>1
  <2>4. QED
    BY <1>0, <1>b, <2>1, <2>2, <2>3
<1>21. ASSUME FinishStatus PROVE SearchInv'
  BY <1>21, <1>0, <1>b DEF FinishStatus, TypeInv, LastExecution
<1>22. ASSUME Finish PROVE SearchInv'
  BY <1>22, <1>0, <1>b DEF Finish, DeleteSchedule, CancelHandler, TypeInv, LastExecution
<1>23. ASSUME BeginReport PROVE SearchInv'
  BY <1>23, <1>0, <1>b DEF BeginReport, TypeInv, LastExecution
<1>24. ASSUME ReportResult PROVE SearchInv'
  BY <1>24, <1>0, <1>b DEF ReportResult, TypeInv, LastExecution
<1>25. ASSUME PrintReport PROVE SearchInv'
  BY <1>25, <1>0, <1>b DEF PrintReport, TypeInv, LastExecution
<1>26. ASSUME UnloadTestLibrary PROVE SearchInv'
  BY <1>26, <1>0, <1>b DEF UnloadTestLibrary, TypeInv, LastExecution
<1>27. ASSUME LoadTestLibrary PROVE SearchInv'
  BY <1>27, <1>0, <1>b DEF LoadTestLibrary, TypeInv, LastExecution
<1>28. ASSUME CallDriverMain PROVE SearchInv'
  BY <1>28, <1>0, <1>b DEF CallDriverMain, TypeInv, LastExecution
<1>29. ASSUME SignalTestStart PROVE SearchInv'
  BY <1>29, <1>0, <1>b DEF SignalTestStart, TypeInv, LastExecution
<1>30. ASSUME CreateWorker PROVE SearchInv'
  BY <1>30, <1>0, <1>b DEF CreateWorker, StartCoroutine, TypeInv, LastExecution
<1>31. ASSUME EnableForTest PROVE SearchInv'
  BY <1>31, <1>0, <1>b DEF EnableForTest, TypeInv, LastExecution
<1>32. ASSUME EndTest PROVE SearchInv'
  BY <1>32, <1>0, <1>b DEF EndTest, AddException, TypeInv, LastExecution
<1>33. ASSUME NEW t \in {Driver, Worker}, EndThread(t) PROVE SearchInv'
  BY <1>33, <1>0, <1>b DEF EndThread, TypeInv, LastExecution
<1>34. ASSUME NEW t \in {Driver, Worker}, Hang(t) PROVE SearchInv'
  BY <1>34, <1>0, <1>b DEF Hang, TypeInv, LastExecution
<1>35. ASSUME NEW t \in {Driver, Worker}, NEW e \in {"ASSERTION", "SEARCH_ENDS"}, Raise(t, e)
      PROVE  SearchInv'
  BY <1>35, <1>0, <1>b DEF Raise, AddException, TypeInv, LastExecution
<1>36. ASSUME OnSignal PROVE SearchInv'
  BY <1>36, <1>0, <1>b DEF OnSignal, InHandler, HandlerGoto, TypeInv, LastExecution
<1>37. ASSUME FinishSignal PROVE SearchInv'
  BY <1>37, <1>0, <1>b DEF FinishSignal, InHandler, HandlerGoto, DeleteSchedule,
     TypeInv, LastExecution
<1>38. ASSUME Kill PROVE SearchInv'
  BY <1>38, <1>0, <1>b DEF Kill, InHandler, HandlerGoto, TypeInv, LastExecution
<1>39. ASSUME NEW x \in {Main, Driver, Worker}, SignalAgain(x) PROVE SearchInv'
  BY <1>39, <1>0, <1>b DEF SignalAgain, TypeInv, LastExecution
<1>40. ASSUME NEW x \in {Main, Driver, Worker}, NEW sig \in Signals, SignalHandler(x, sig)
      PROVE  SearchInv'
  BY <1>40, <1>0, <1>b DEF SignalHandler, TypeInv, LastExecution
<1>41. CASE UNCHANGED vars
  BY <1>41, <1>0, <1>b DEF TypeInv, LastExecution, vars
<1>42. QED
  BY <1>1, <1>2, <1>3, <1>4, <1>5, <1>6, <1>7, <1>8, <1>9, <1>10, <1>11, <1>12, <1>13,
     <1>14, <1>15, <1>16, <1>17, <1>18, <1>19, <1>20, <1>21, <1>22, <1>23, <1>24, <1>25,
     <1>26, <1>27, <1>28, <1>29, <1>30, <1>31, <1>32, <1>33, <1>34, <1>35, <1>36, <1>37,
     <1>38, <1>39, <1>40, <1>41, <1>0 DEF Next, MainStep, RunOnce, Explore, Report,
     ProgramStep, DriverStarts, ThreadEnds, HandlerStep, SignalStep

\* Every step keeps LifeInv.
LEMMA LifeStep == TypeInv /\ LifeInv /\ [Next]_vars => LifeInv'
<1> SUFFICES ASSUME TypeInv, LifeInv, [Next]_vars PROVE LifeInv'
  OBVIOUS
<1> USE DEF LifeInv, Signalled, Execution
<1>0. /\ setting \in Settings /\ scen \in 1..(NumScenarios + 1) /\ pc \in Places
      /\ status \in 0..6 /\ current \in 0..NumScenarios
      /\ schedule \in BOOLEAN /\ deletes \in [1..NumScenarios -> Nat]
      /\ exc \in BacktrackReason \cup NonBacktrack \cup {"none"}
      /\ left \in 0..Paths /\ first \in Int /\ execs \in Nat
      /\ result \in [1..NumScenarios -> Results]
      /\ threads \in [{"driver", "worker"} -> ThreadPlaces]
      /\ DOMAIN threads = {"driver", "worker"}
      /\ lib \in BOOLEAN /\ loadSem \in 0..1 /\ startSem \in Nat /\ starts \in 0..MaxStarts
      /\ created \in BOOLEAN /\ pinOn \in BOOLEAN
      /\ handler \in [by : {Main, Driver, Worker, Nobody}, sig : Signals \cup {"none"},
                       at : {"none", "check", "finish", "kill", "returned"}]
      /\ process \in {"runs", "exit", "killed"} \cup Failures
      /\ NumScenarios \in Nat /\ Paths \in Nat \ {0} /\ MaxStarts \in Nat
  BY ExplorationAssumption DEF TypeInv, TypeOK, ThreadPlaces, TEST_BEGIN, TEST_TERMINATED
<1>1. ASSUME Start PROVE LifeInv'
  BY <1>1, <1>0 DEF Start, TypeInv, TEST_BEGIN, TEST_ENDED
<1>2. ASSUME RunSetUp PROVE LifeInv'
  BY <1>2, <1>0 DEF RunSetUp, TypeInv, TEST_BEGIN, TEST_ENDED
<1>3. ASSUME RunTestDriver PROVE LifeInv'
  BY <1>3, <1>0 DEF RunTestDriver, StartCoroutine, TypeInv, TEST_BEGIN, TEST_ENDED
<1>4. ASSUME DriverLoaded PROVE LifeInv'
  BY <1>4, <1>0 DEF DriverLoaded, TypeInv, TEST_BEGIN, TEST_ENDED
<1>5. ASSUME WaitForTestStart PROVE LifeInv'
  BY <1>5, <1>0 DEF WaitForTestStart, TypeInv, TEST_BEGIN, TEST_ENDED
<1>6. ASSUME WaitForTestStartTimeout PROVE LifeInv'
  BY <1>6, <1>0 DEF WaitForTestStartTimeout, AddException, TypeInv, TEST_BEGIN,
     TEST_ENDED
<1>7. ASSUME NEW e \in {"SUCCESS", "BACKTRACK", "ASSERTION"}, TestCase(e) PROVE LifeInv'
  BY <1>7, <1>0 DEF TestCase, AddException, TypeInv, TEST_BEGIN, TEST_ENDED
<1>8. ASSUME RunUncontrolled PROVE LifeInv'
  BY <1>8, <1>0 DEF RunUncontrolled, TypeInv, TEST_BEGIN, TEST_ENDED
<1>9. ASSUME JoinAllThreads PROVE LifeInv'
  BY <1>9, <1>0 DEF JoinAllThreads, IsAllEnded, TypeInv, TEST_BEGIN, TEST_ENDED
<1>10. ASSUME JoinDeadlock PROVE LifeInv'
  BY <1>10, <1>0 DEF JoinDeadlock, AddException, TypeInv, TEST_BEGIN, TEST_ENDED
<1>11. ASSUME CancelJoinAll PROVE LifeInv'
  BY <1>11, <1>0 DEF CancelJoinAll, CancelHandler, TypeInv, TEST_BEGIN, TEST_ENDED
<1>12. ASSUME RunTearDown PROVE LifeInv'
  BY <1>12, <1>0 DEF RunTearDown, TypeInv, TEST_BEGIN, TEST_ENDED
<1>13. ASSUME RunOnceEnds PROVE LifeInv'
  BY <1>13, <1>0 DEF RunOnceEnds, TypeInv, TEST_BEGIN, TEST_ENDED
<1>14. ASSUME BeginExplore PROVE LifeInv'
  BY <1>14, <1>0 DEF BeginExplore, TypeInv, TEST_BEGIN, TEST_ENDED
<1>15. ASSUME FoundViolation PROVE LifeInv'
  BY <1>15, <1>0 DEF FoundViolation, ExploreEnds, TypeInv, TEST_BEGIN, TEST_ENDED
<1>16. ASSUME FoundRuntimeException PROVE LifeInv'
  BY <1>16, <1>0 DEF FoundRuntimeException, ExploreEnds, TypeInv, TEST_BEGIN, TEST_ENDED
<1>17. ASSUME FoundWitness PROVE LifeInv'
  BY <1>17, <1>0 DEF FoundWitness, ExploreEnds, TypeInv, TEST_BEGIN, TEST_ENDED
<1>18. ASSUME StopSearch PROVE LifeInv'
  BY <1>18, <1>0 DEF StopSearch, Backtracks, Countdown, TypeInv, TEST_BEGIN, TEST_ENDED
<1>19. ASSUME BacktrackSearch PROVE LifeInv'
  BY <1>19, <1>0 DEF BacktrackSearch, Backtracks, Countdown, TypeInv, TEST_BEGIN,
     TEST_ENDED
<1>20. ASSUME RepeatUncontrolled PROVE LifeInv'
  BY <1>20, <1>0 DEF RepeatUncontrolled, Backtracks, Countdown, TypeInv, TEST_BEGIN,
     TEST_ENDED
<1>21. ASSUME FinishStatus PROVE LifeInv'
  BY <1>21, <1>0 DEF FinishStatus, TypeInv, TEST_BEGIN, TEST_ENDED
<1>22. ASSUME Finish PROVE LifeInv'
  <2>1. SUFFICES ASSUME ~Signalled PROVE LifeInv'
    BY <1>22, <1>0 DEF Finish, CancelHandler
  <2>2. /\ current = scen /\ schedule /\ deletes[scen] = 0 /\ scen \in 1..NumScenarios
        /\ \A s \in 1..NumScenarios : deletes[s] <= 1
    BY <1>22, <1>0, <2>1 DEF Finish, TypeInv
  <2>3. deletes' = [deletes EXCEPT ![scen] = deletes[scen] + 1] /\ schedule' = FALSE
    <3>0. current # 0
      BY <1>0, <2>2
    <3>1. DeleteSchedule /\ current = scen
      BY <1>22, <2>2, <3>0 DEF Finish
    <3>2. (IF schedule THEN 1 ELSE 0) = 1
      BY <2>2
    <3>4. QED
      BY <3>1, <3>2 DEF DeleteSchedule
  <2>4. \A s \in 1..NumScenarios : deletes'[s] <= 1
    BY <1>0, <2>2, <2>3
  <2>5. pc' = "suite" /\ current' = 0
    BY <1>22 DEF Finish
  <2>6. QED
    BY <2>3, <2>4, <2>5
<1>23. ASSUME BeginReport PROVE LifeInv'
  BY <1>23, <1>0 DEF BeginReport, TypeInv, TEST_BEGIN, TEST_ENDED
<1>24. ASSUME ReportResult PROVE LifeInv'
  BY <1>24, <1>0 DEF ReportResult, TypeInv, TEST_BEGIN, TEST_ENDED
<1>25. ASSUME PrintReport PROVE LifeInv'
  BY <1>25, <1>0 DEF PrintReport, TypeInv, TEST_BEGIN, TEST_ENDED
<1>26. ASSUME UnloadTestLibrary PROVE LifeInv'
  BY <1>26, <1>0 DEF UnloadTestLibrary, TypeInv, TEST_BEGIN, TEST_ENDED
<1>27. ASSUME LoadTestLibrary PROVE LifeInv'
  BY <1>27, <1>0 DEF LoadTestLibrary, TypeInv, TEST_BEGIN, TEST_ENDED
<1>28. ASSUME CallDriverMain PROVE LifeInv'
  BY <1>28, <1>0 DEF CallDriverMain, TypeInv, TEST_BEGIN, TEST_ENDED
<1>29. ASSUME SignalTestStart PROVE LifeInv'
  BY <1>29, <1>0 DEF SignalTestStart, TypeInv, TEST_BEGIN, TEST_ENDED
<1>30. ASSUME CreateWorker PROVE LifeInv'
  BY <1>30, <1>0 DEF CreateWorker, StartCoroutine, TypeInv, TEST_BEGIN, TEST_ENDED
<1>31. ASSUME EnableForTest PROVE LifeInv'
  BY <1>31, <1>0 DEF EnableForTest, TypeInv, TEST_BEGIN, TEST_ENDED
<1>32. ASSUME EndTest PROVE LifeInv'
  BY <1>32, <1>0 DEF EndTest, AddException, TypeInv, TEST_BEGIN, TEST_ENDED
<1>33. ASSUME NEW t \in {Driver, Worker}, EndThread(t) PROVE LifeInv'
  BY <1>33, <1>0 DEF EndThread, TypeInv, TEST_BEGIN, TEST_ENDED
<1>34. ASSUME NEW t \in {Driver, Worker}, Hang(t) PROVE LifeInv'
  BY <1>34, <1>0 DEF Hang, TypeInv, TEST_BEGIN, TEST_ENDED
<1>35. ASSUME NEW t \in {Driver, Worker}, NEW e \in {"ASSERTION", "SEARCH_ENDS"}, Raise(t, e)
      PROVE  LifeInv'
  BY <1>35, <1>0 DEF Raise, AddException, TypeInv, TEST_BEGIN, TEST_ENDED
<1>36. ASSUME OnSignal PROVE LifeInv'
  BY <1>36, <1>0 DEF OnSignal, InHandler, HandlerGoto, TypeInv, TEST_BEGIN, TEST_ENDED
<1>37. ASSUME FinishSignal PROVE LifeInv'
  BY <1>37, <1>0 DEF FinishSignal, InHandler, HandlerGoto, DeleteSchedule, TypeInv,
     TEST_BEGIN, TEST_ENDED
<1>38. ASSUME Kill PROVE LifeInv'
  BY <1>38, <1>0 DEF Kill, InHandler, HandlerGoto, TypeInv, TEST_BEGIN, TEST_ENDED
<1>39. ASSUME NEW x \in {Main, Driver, Worker}, SignalAgain(x) PROVE LifeInv'
  BY <1>39, <1>0 DEF SignalAgain, TypeInv, TEST_BEGIN, TEST_ENDED
<1>40. ASSUME NEW x \in {Main, Driver, Worker}, NEW sig \in Signals, SignalHandler(x, sig)
      PROVE  LifeInv'
  BY <1>40, <1>0 DEF SignalHandler, TypeInv, TEST_BEGIN, TEST_ENDED
<1>41. CASE UNCHANGED vars
  BY <1>41, <1>0 DEF TypeInv, TEST_BEGIN, TEST_ENDED, vars
<1>42. QED
  BY <1>1, <1>2, <1>3, <1>4, <1>5, <1>6, <1>7, <1>8, <1>9, <1>10, <1>11, <1>12, <1>13,
     <1>14, <1>15, <1>16, <1>17, <1>18, <1>19, <1>20, <1>21, <1>22, <1>23, <1>24, <1>25,
     <1>26, <1>27, <1>28, <1>29, <1>30, <1>31, <1>32, <1>33, <1>34, <1>35, <1>36, <1>37,
     <1>38, <1>39, <1>40, <1>41, <1>0 DEF Next, MainStep, RunOnce, Explore, Report,
     ProgramStep, DriverStarts, ThreadEnds, HandlerStep, SignalStep

\* Every step keeps NoAbort.
LEMMA NoAbortStep ==
  TypeInv /\ LibraryInv /\ LifeInv /\ NoAbort /\ [Next]_vars => NoAbort'
<1> SUFFICES ASSUME TypeInv, LibraryInv, LifeInv, NoAbort, [Next]_vars PROVE NoAbort'
  OBVIOUS
<1> USE DEF NoAbort, Signalled, Failures, Owning
<1>0. /\ setting \in Settings /\ scen \in 1..(NumScenarios + 1) /\ pc \in Places
      /\ status \in 0..6 /\ current \in 0..NumScenarios
      /\ schedule \in BOOLEAN /\ deletes \in [1..NumScenarios -> Nat]
      /\ exc \in BacktrackReason \cup NonBacktrack \cup {"none"}
      /\ left \in 0..Paths /\ first \in Int /\ execs \in Nat
      /\ result \in [1..NumScenarios -> Results]
      /\ threads \in [{"driver", "worker"} -> ThreadPlaces]
      /\ DOMAIN threads = {"driver", "worker"}
      /\ lib \in BOOLEAN /\ loadSem \in 0..1 /\ startSem \in Nat /\ starts \in 0..MaxStarts
      /\ created \in BOOLEAN /\ pinOn \in BOOLEAN
      /\ handler \in [by : {Main, Driver, Worker, Nobody}, sig : Signals \cup {"none"},
                       at : {"none", "check", "finish", "kill", "returned"}]
      /\ process \in {"runs", "exit", "killed"} \cup Failures
      /\ NumScenarios \in Nat /\ Paths \in Nat \ {0} /\ MaxStarts \in Nat
  BY ExplorationAssumption DEF TypeInv, TypeOK, ThreadPlaces, TEST_BEGIN, TEST_TERMINATED
<1>1. ASSUME Start PROVE NoAbort'
  BY <1>1, <1>0 DEF Start, TypeInv, LifeInv
<1>2. ASSUME RunSetUp PROVE NoAbort'
  BY <1>2, <1>0 DEF RunSetUp, TypeInv, LifeInv
<1>3. ASSUME RunTestDriver PROVE NoAbort'
  <2>1. process' # process =>
          process' = "unreachable" /\ threads' = threads /\ threads[Driver] = "hung"
    BY <1>3, <1>0 DEF RunTestDriver, StartCoroutine, LibraryInv, Between, Dead
  <2>2. QED
    BY <1>3, <1>0, <2>1 DEF RunTestDriver, Hung
<1>4. ASSUME DriverLoaded PROVE NoAbort'
  BY <1>4, <1>0 DEF DriverLoaded, TypeInv, LifeInv
<1>5. ASSUME WaitForTestStart PROVE NoAbort'
  BY <1>5, <1>0 DEF WaitForTestStart, TypeInv, LifeInv
<1>6. ASSUME WaitForTestStartTimeout PROVE NoAbort'
  BY <1>6, <1>0 DEF WaitForTestStartTimeout, AddException, TypeInv, LifeInv
<1>7. ASSUME NEW e \in {"SUCCESS", "BACKTRACK", "ASSERTION"}, TestCase(e) PROVE NoAbort'
  BY <1>7, <1>0 DEF TestCase, AddException, TypeInv, LifeInv
<1>8. ASSUME RunUncontrolled PROVE NoAbort'
  BY <1>8, <1>0 DEF RunUncontrolled, TypeInv, LifeInv
<1>9. ASSUME JoinAllThreads PROVE NoAbort'
  BY <1>9, <1>0 DEF JoinAllThreads, IsAllEnded, TypeInv, LifeInv
<1>10. ASSUME JoinDeadlock PROVE NoAbort'
  BY <1>10, <1>0 DEF JoinDeadlock, AddException, TypeInv, LifeInv
<1>11. ASSUME CancelJoinAll PROVE NoAbort'
  BY <1>11, <1>0 DEF CancelJoinAll, CancelHandler, TypeInv, LifeInv
<1>12. ASSUME RunTearDown PROVE NoAbort'
  BY <1>12, <1>0 DEF RunTearDown, TypeInv, LifeInv
<1>13. ASSUME RunOnceEnds PROVE NoAbort'
  BY <1>13, <1>0 DEF RunOnceEnds, TypeInv, LifeInv
<1>14. ASSUME BeginExplore PROVE NoAbort'
  BY <1>14, <1>0 DEF BeginExplore, TypeInv, LifeInv
<1>15. ASSUME FoundViolation PROVE NoAbort'
  <2>1. process = "runs" /\ handler' = handler
    BY <1>15 DEF FoundViolation, ExploreEnds
  <2>2. ~Signalled => process' = process
    BY <1>15 DEF FoundViolation, ExploreEnds, LifeInv, Execution
  <2>3. QED
    BY <2>1, <2>2
<1>16. ASSUME FoundRuntimeException PROVE NoAbort'
  <2>1. process = "runs" /\ handler' = handler
    BY <1>16 DEF FoundRuntimeException, ExploreEnds
  <2>2. ~Signalled => process' = process
    BY <1>16 DEF FoundRuntimeException, ExploreEnds, LifeInv, Execution
  <2>3. QED
    BY <2>1, <2>2
<1>17. ASSUME FoundWitness PROVE NoAbort'
  <2>1. process = "runs" /\ handler' = handler
    BY <1>17 DEF FoundWitness, ExploreEnds
  <2>2. ~Signalled => process' = process
    BY <1>17 DEF FoundWitness, ExploreEnds, LifeInv, Execution
  <2>3. QED
    BY <2>1, <2>2
<1>18. ASSUME StopSearch PROVE NoAbort'
  BY <1>18, <1>0 DEF StopSearch, Backtracks, Countdown, TypeInv, LifeInv
<1>19. ASSUME BacktrackSearch PROVE NoAbort'
  BY <1>19, <1>0 DEF BacktrackSearch, Backtracks, Countdown, TypeInv, LifeInv
<1>20. ASSUME RepeatUncontrolled PROVE NoAbort'
  BY <1>20, <1>0 DEF RepeatUncontrolled, Backtracks, Countdown, TypeInv, LifeInv
<1>21. ASSUME FinishStatus PROVE NoAbort'
  BY <1>21, <1>0 DEF FinishStatus, TypeInv, LifeInv
<1>22. ASSUME Finish PROVE NoAbort'
  BY <1>22, <1>0 DEF Finish, DeleteSchedule, CancelHandler, TypeInv, LifeInv
<1>23. ASSUME BeginReport PROVE NoAbort'
  BY <1>23, <1>0 DEF BeginReport, TypeInv, LifeInv
<1>24. ASSUME ReportResult PROVE NoAbort'
  BY <1>24, <1>0 DEF ReportResult, TypeInv, LifeInv
<1>25. ASSUME PrintReport PROVE NoAbort'
  BY <1>25, <1>0 DEF PrintReport, TypeInv, LifeInv
<1>26. ASSUME UnloadTestLibrary PROVE NoAbort'
  BY <1>26, <1>0 DEF UnloadTestLibrary, TypeInv, LifeInv
<1>27. ASSUME LoadTestLibrary PROVE NoAbort'
  BY <1>27, <1>0 DEF LoadTestLibrary, TypeInv, LifeInv
<1>28. ASSUME CallDriverMain PROVE NoAbort'
  BY <1>28, <1>0 DEF CallDriverMain, TypeInv, LifeInv
<1>29. ASSUME SignalTestStart PROVE NoAbort'
  BY <1>29, <1>0 DEF SignalTestStart, TypeInv, LifeInv
<1>30. ASSUME CreateWorker PROVE NoAbort'
  <2>1. process' # process =>
          process' = "unreachable" /\ threads' = threads /\ threads[Worker] = "hung"
    BY <1>30, <1>0 DEF CreateWorker, StartCoroutine, LibraryInv, Dead
  <2>2. QED
    BY <1>30, <1>0, <2>1 DEF CreateWorker, Hung
<1>31. ASSUME EnableForTest PROVE NoAbort'
  BY <1>31, <1>0 DEF EnableForTest, TypeInv, LifeInv
<1>32. ASSUME EndTest PROVE NoAbort'
  BY <1>32, <1>0 DEF EndTest, AddException, TypeInv, LifeInv
<1>33. ASSUME NEW t \in {Driver, Worker}, EndThread(t) PROVE NoAbort'
  BY <1>33, <1>0 DEF EndThread, TypeInv, LifeInv
<1>34. ASSUME NEW t \in {Driver, Worker}, Hang(t) PROVE NoAbort'
  BY <1>34, <1>0 DEF Hang, TypeInv, LifeInv
<1>35. ASSUME NEW t \in {Driver, Worker}, NEW e \in {"ASSERTION", "SEARCH_ENDS"}, Raise(t, e)
      PROVE  NoAbort'
  BY <1>35, <1>0 DEF Raise, AddException, TypeInv, LifeInv
<1>36. ASSUME OnSignal PROVE NoAbort'
  BY <1>36, <1>0 DEF OnSignal, InHandler, HandlerGoto, TypeInv, LifeInv
<1>37. ASSUME FinishSignal PROVE NoAbort'
  BY <1>37, <1>0 DEF FinishSignal, InHandler, HandlerGoto, DeleteSchedule, TypeInv,
     LifeInv
<1>38. ASSUME Kill PROVE NoAbort'
  BY <1>38, <1>0 DEF Kill, InHandler, HandlerGoto, TypeInv, LifeInv
<1>39. ASSUME NEW x \in {Main, Driver, Worker}, SignalAgain(x) PROVE NoAbort'
  BY <1>39, <1>0 DEF SignalAgain, TypeInv, LifeInv
<1>40. ASSUME NEW x \in {Main, Driver, Worker}, NEW sig \in Signals, SignalHandler(x, sig)
      PROVE  NoAbort'
  BY <1>40, <1>0 DEF SignalHandler, TypeInv, LifeInv
<1>41. CASE UNCHANGED vars
  BY <1>41, <1>0 DEF Hung
<1>42. QED
  BY <1>1, <1>2, <1>3, <1>4, <1>5, <1>6, <1>7, <1>8, <1>9, <1>10, <1>11, <1>12, <1>13,
     <1>14, <1>15, <1>16, <1>17, <1>18, <1>19, <1>20, <1>21, <1>22, <1>23, <1>24, <1>25,
     <1>26, <1>27, <1>28, <1>29, <1>30, <1>31, <1>32, <1>33, <1>34, <1>35, <1>36, <1>37,
     <1>38, <1>39, <1>40, <1>41, <1>0 DEF Next, MainStep, RunOnce, Explore, Report,
     ProgramStep, DriverStarts, ThreadEnds, HandlerStep, SignalStep

-----------------------------------------------------------------------------
\* The conjunction that the theorems rest on.
LifeCycleInv == TypeInv /\ LibraryInv /\ SearchInv /\ LifeInv /\ NoAbort

\* It holds at first, ...
LEMMA LifeCycleInit == Init => LifeCycleInv
<1> SUFFICES ASSUME Init PROVE LifeCycleInv
  OBVIOUS
<1> USE ExplorationAssumption
<1>1. schedule \in BOOLEAN /\ lib \in BOOLEAN /\ created \in BOOLEAN /\ pinOn \in BOOLEAN
  BY DEF Init
<1>2. TypeInv
  BY <1>1 DEF Init, TypeInv, TypeOK, Places, Execution, ThreadPlaces, Results,
     TEST_BEGIN, TEST_TERMINATED
<1>3. LibraryInv
  BY DEF Init, LibraryInv, LibraryInUse, Dead
<1>4. SearchInv
  BY DEF Init, SearchInv, SearchedAll
<1>5. LifeInv
  BY DEF Init, LifeInv, Execution
<1>6. NoAbort
  BY DEF Init, NoAbort, Failures
<1>7. QED
  BY <1>2, <1>3, <1>4, <1>5, <1>6 DEF LifeCycleInv

\* ... and every step keeps it.
LEMMA LifeCycleInvariant == Spec => []LifeCycleInv
<1>1. LifeCycleInv /\ [Next]_vars => LifeCycleInv'
  BY TypeStep, LibraryStep, SearchStep, LifeStep, NoAbortStep DEF LifeCycleInv
<1>2. QED
  BY <1>1, LifeCycleInit, PTL DEF Spec

\* Type correctness, for every suite, setting, number of starts and set of signals:
\* in particular sem_driver_load never holds more than one token, and no scenario
\* covers more paths than its tree has.
THEOREM TypeCorrect == Spec => []TypeOK
<1>1. LifeCycleInv => TypeOK
  BY DEF LifeCycleInv, TypeInv
<1>2. QED
  BY <1>1, LifeCycleInvariant, PTL

\* The driver never unloads the test library under a thread that runs its code,
\* with or without CancelThreadsToRestart, whatever hangs and whenever signals come.
THEOREM LibraryCorrect == Spec => []LibraryInUse
<1>1. LifeCycleInv => LibraryInUse
  BY DEF LifeCycleInv, LibraryInv
<1>2. QED
  BY <1>1, LifeCycleInvariant, PTL

\* A search reported as a success has covered its tree, met SEARCH_ENDS, or used up
\* the executions of -f, for every N and over all scenarios of the suite: the
\* countdown of Explore is off by none.
THEOREM SearchCorrect == Spec => []SearchedAll
<1>1. LifeCycleInv => SearchedAll
  BY DEF LifeCycleInv, SearchInv
<1>2. QED
  BY <1>1, LifeCycleInvariant, PTL

\* The safe_asserts of Start, Finish, Explore and Coroutine::Start hold until a
\* signal comes, but for the cases that NoAbort lists.
THEOREM NoAbortCorrect == Spec => []NoAbort
<1>1. LifeCycleInv => NoAbort
  BY DEF LifeCycleInv
<1>2. QED
  BY <1>1, LifeCycleInvariant, PTL

\* When the program announces the start of the test at most once per execution and
\* before WaitForTestStart gives up, no script starts on a token of an earlier
\* execution, and no execution inherits a token or an enabled monitor, for
\* every suite, every setting and every signal.
THEOREM StartCorrect ==
  ASSUME MaxStarts <= 1, ~SlowStart
  PROVE  Spec => [](ScriptAfterStart /\ CleanStart)
<1>1. Init => TokenInv
  BY ExplorationAssumption DEF Init, TokenInv, ScriptAfterStart, Dead, Controlled
<1>2. LifeCycleInv /\ TokenInv /\ [Next]_vars => TokenInv'
  BY TokenStep DEF LifeCycleInv
<1>3. LifeCycleInv /\ TokenInv => ScriptAfterStart /\ CleanStart
  BY DEF LifeCycleInv, TypeInv, TypeOK, TokenInv, CleanStart
<1>4. QED
  BY <1>1, <1>2, <1>3, LifeCycleInvariant, PTL DEF Spec
=============================================================================
