----------------------------- MODULE Rendezvous -----------------------------
(***************************************************************************)
(* The rendezvous between the test script (the main coroutine) and the     *)
(* threads of the program under test.  The script publishes one execution  *)
(* tree node at a time in ExecutionTreeManager::atomic_ref_; threads stop  *)
(* at instrumented events, take hold of the node, evaluate it, and either  *)
(* consume it, pass through, or sleep until somebody else consumes it.     *)
(* Every shared access of AcquireRef, ReleaseRef, OnControlledTransition,  *)
(* EndWithSuccess and EndWithException is a step of its own.               *)
(*                                                                         *)
(* Time is abstracted: a timed wait may expire whenever it has to wait.    *)
(***************************************************************************)
EXTENDS Integers, Sequences

CONSTANTS
  Main,             \* the coroutine that runs the test script
  Threads,          \* the coroutines of the program under test
  Script,           \* the kinds of the script's statements, in order
  SutCalls,         \* the exceptions the program under test may raise
  ScriptThrows,     \* the exceptions the script's own statements may throw
  SpuriousWakeups,  \* whether a condition wait may return without a broadcast
  SlowHolders,      \* whether the ref may be held longer than MaxWaitTimeUSecs
  SutMayHang,       \* whether a thread may outlive MaxTimeOutsBeforeDeadlock joins
  MaxSem,           \* bound of sem_ref_: Signal saturates there
  NULL              \* the null pointer

Kinds == {"choice", "forall", "exists", "through", "until"}
Selections == {"forall", "exists"}

\* Backtrack reasons (exception.h) and the two non-backtrack exceptions.
BacktrackReasons == {"TIMEOUT", "THREADS_ALLENDED", "ASSUME_FAILS", "REPLAY_FAILS",
                     "TREENODE_COVERED", "SEARCH_ENDS", "EXCEPTION"}
NonBacktrack == {"ASSERTION", "DEADLOCK"}

\* The backtracks after which RunTestCase calls EndWithSuccess.
Retriable == {"TIMEOUT", "REPLAY_FAILS", "TREENODE_COVERED", "ASSUME_FAILS",
              "THREADS_ALLENDED", "SUCCESS"}

ASSUME RendezvousAssumption ==
  /\ Main \notin Threads
  /\ Script \in Seq(Kinds)
  /\ SutCalls \subseteq {"ASSERTION", "SEARCH_ENDS", "THREADS_ALLENDED"}
  /\ ScriptThrows \subseteq {"ASSERTION", "SEARCH_ENDS", "ASSUME_FAILS"}
  /\ SpuriousWakeups \in BOOLEAN /\ SlowHolders \in BOOLEAN /\ SutMayHang \in BOOLEAN
  /\ MaxSem \in Nat \ {0}
  /\ NULL \notin Threads \cup {Main} /\ NULL \notin Int

Coroutines == Threads \cup {Main}

\* The values of atomic_ref_: a node is named by the statement that submits it.
Nodes == 1..Len(Script)
Empty == NULL
LockNode == -1
EndNode == -2
RefValues == Nodes \cup {Empty, LockNode, EndNode}

VARIABLES
  ref,      \* ExecutionTreeManager::atomic_ref_
  owner,    \* LockNode::owner_, or NULL
  sem,      \* count of sem_ref_
  mutex,    \* holder of the static ExecutionTree::mutex_, or NULL
  pc,       \* control point of each coroutine
  goal,     \* why the coroutine is in AcquireRef
  node,     \* the value its last exchange returned
  out,      \* what it decided to do with the node it holds
  prev,     \* prev_unsat_node of OnControlledTransition
  err,      \* thread: the exception it raises; main: RunTestCase's reason
  exc,      \* EndNode::exception_, or "none"
  path,     \* the nodes added to the path, in order
  stmt,     \* the script statement main is at
  pinOn,    \* PinMonitor::enabled_
  aborted   \* "none", or the safe_assert that ended the process

refVars == <<ref, owner, path>>
coVars == <<goal, node, out, prev, err>>
vars == <<ref, owner, sem, mutex, pc, goal, node, out, prev, err, exc, path,
          stmt, pinOn, aborted>>

AcquireModes == [transition |-> "EXIT_ON_FULL",  submit |-> "EXIT_ON_EMPTY",
                 consumed |-> "EXIT_ON_EMPTY", endSuccess |-> "EXIT_ON_LOCK",
                 endException |-> "EXIT_ON_LOCK"]
Goals == {"transition", "submit", "consumed", "endSuccess", "endException"}
Mode(c) == AcquireModes[goal[c]]

\* Main's calls of AcquireRef that go through AcquireRefEx, which sets a timeout.
Timed(c) == c = Main /\ goal[c] # "endException"

Init ==
  /\ ref = Empty
  /\ owner = NULL
  /\ sem = 0
  /\ mutex = NULL
  /\ pc = [c \in Coroutines |-> "idle"]
  /\ goal = [c \in Coroutines |-> "endException"]
  /\ node = [c \in Coroutines |-> NULL]
  /\ out = [c \in Coroutines |-> "none"]
  /\ prev = [c \in Coroutines |-> NULL]
  /\ err = [c \in Coroutines |-> "SUCCESS"]
  /\ exc = "none"
  /\ path = <<>>
  /\ stmt = 1
  /\ pinOn = TRUE
  /\ aborted = "none"

-----------------------------------------------------------------------------
\* Helpers shared by the steps.

\* The process has ended: Explore is over, or a safe_assert failed.
Stopped == aborted # "none" \/ pc[Main] = "terminated"

At(c, l) == ~Stopped /\ pc[c] = l

Goto(c, l) == pc' = [pc EXCEPT ![c] = l]

\* safe_assert: the process ends when cond is false.
Check(cond, what) == aborted' = IF cond THEN aborted ELSE what

IsAllEnded == \A t \in Threads : pc[t] = "ended"

PathEnded == path # <<>> /\ path[Len(path)] = EndNode

\* EndNode::add_exception keeps the first exception only.
AddException(e) == exc' = IF exc = "none" THEN e ELSE exc

\* ConditionVar::Broadcast on the static condvar: every sleeper wakes.
Broadcast(at) == [c \in Coroutines |-> IF at[c] = "asleep" THEN "woken" ELSE at[c]]

\* The catch block of RunTestCase: where main goes when the script throws r.
Catch(r) == IF r = "TIMEOUT" /\ IsAllEnded THEN "THREADS_ALLENDED" ELSE r

MainThrows(r) ==
  /\ err' = [err EXCEPT ![Main] = Catch(r)]
  /\ goal' = [goal EXCEPT ![Main] =
                 IF Catch(r) \in Retriable THEN "endSuccess" ELSE "endException"]
  /\ Goto(Main, IF Catch(r) = "THREADS_ALLENDED" THEN "force" ELSE "exchange")

\* What AcquireRefEx throws when it finds the end node.
EndReason == IF exc \in BacktrackReasons THEN exc ELSE "EXCEPTION"

-----------------------------------------------------------------------------
\* AcquireRef, run by every coroutine.

\* Mutant of Exchange: a locked ref is taken for a free one.
ExchangeUnchecked(c) ==
  /\ At(c, "exchange")
  /\ ref' = LockNode
  /\ node' = [node EXCEPT ![c] = ref]
  /\ Goto(c, "resolve")
  /\ UNCHANGED <<owner, path, sem, mutex, goal, out, prev, err, exc, stmt, pinOn, aborted>>

\* ExchangeRef(LOCKNODE()) when the ref is not locked.
Exchange(c) ==
  /\ At(c, "exchange")
  /\ ref # LockNode
  /\ ref' = LockNode
  /\ node' = [node EXCEPT ![c] = ref]
  /\ Goto(c, "resolve")
  /\ UNCHANGED <<owner, path, sem, mutex, goal, out, prev, err, exc, stmt, pinOn, aborted>>

\* The exchange finds a lock that this coroutine owns.
ExchangeOwned(c) ==
  /\ At(c, "exchange")
  /\ ref = LockNode
  /\ owner = c
  /\ Check(Mode(c) = "EXIT_ON_LOCK", "DoubleLock")
  /\ Goto(c, "hold")
  /\ UNCHANGED <<refVars, coVars, sem, mutex, exc, stmt, pinOn>>

\* The exchange finds another's lock and main's timer has run out.
SpinTimeout ==
  /\ At(Main, "exchange")
  /\ ref = LockNode
  /\ owner # Main
  /\ Timed(Main)
  /\ SlowHolders
  /\ \/ /\ goal[Main] = "endSuccess"
        /\ Check(FALSE, "EndReason")
        /\ UNCHANGED <<pc, goal, err>>
     \/ /\ goal[Main] # "endSuccess"
        /\ MainThrows("TIMEOUT")
        /\ UNCHANGED aborted
  /\ UNCHANGED <<refVars, node, out, prev, sem, mutex, exc, stmt, pinOn>>

\* The exchanged value fits the mode: OnLock, and AcquireRef returns it.
ResolveLock(c) ==
  /\ At(c, "resolve")
  /\ \/ Mode(c) = "EXIT_ON_LOCK" /\ node[c] # EndNode
     \/ Mode(c) = "EXIT_ON_EMPTY" /\ node[c] = Empty
     \/ Mode(c) = "EXIT_ON_FULL" /\ node[c] \in Nodes
  /\ Check(owner = NULL, "OnLock")
  /\ owner' = c
  /\ Goto(c, "hold")
  /\ UNCHANGED <<ref, path, coVars, sem, mutex, exc, stmt, pinOn>>

\* Mutant of ResolveRestore: what does not fit is not put back.
ResolveRestoreDropped(c) ==
  /\ At(c, "resolve")
  /\ \/ Mode(c) = "EXIT_ON_EMPTY" /\ node[c] \in Nodes
     \/ Mode(c) = "EXIT_ON_FULL" /\ node[c] = Empty
  /\ ref' = Empty
  /\ Goto(c, "wait")
  /\ UNCHANGED <<owner, path, coVars, sem, mutex, exc, stmt, pinOn, aborted>>

\* It does not: put it back and go to wait on sem_ref_.
ResolveRestore(c) ==
  /\ At(c, "resolve")
  /\ \/ Mode(c) = "EXIT_ON_EMPTY" /\ node[c] \in Nodes
     \/ Mode(c) = "EXIT_ON_FULL" /\ node[c] = Empty
  /\ ref' = node[c]
  /\ Goto(c, "wait")
  /\ UNCHANGED <<owner, path, coVars, sem, mutex, exc, stmt, pinOn, aborted>>

\* Mutant of ResolveEnd: the ref is emptied instead of getting the end node back.
ResolveEndDropped(c) ==
  /\ At(c, "resolve")
  /\ node[c] = EndNode
  /\ ref' = Empty
  /\ Goto(c, "found")
  /\ UNCHANGED <<owner, path, coVars, sem, mutex, exc, stmt, pinOn, aborted>>

\* The end node: put it back and return it (see the Found* steps).
ResolveEnd(c) ==
  /\ At(c, "resolve")
  /\ node[c] = EndNode
  /\ ref' = EndNode
  /\ Goto(c, "found")
  /\ UNCHANGED <<owner, path, coVars, sem, mutex, exc, stmt, pinOn, aborted>>

\* Mutant of SemWait: goes on when there was no token.
SemWaitUnguarded(c) ==
  /\ At(c, "wait")
  /\ sem' = sem - 1
  /\ Goto(c, "signal")
  /\ UNCHANGED <<refVars, coVars, mutex, exc, stmt, pinOn, aborted>>

\* sem_ref_.Wait() or WaitTimed(): take a token ...
SemWait(c) ==
  /\ At(c, "wait")
  /\ sem > 0
  /\ sem' = sem - 1
  /\ Goto(c, "signal")
  /\ UNCHANGED <<refVars, coVars, mutex, exc, stmt, pinOn, aborted>>

\* sem_ref_.Signal(), saturating at MaxSem.
Signalled == IF sem < MaxSem THEN sem + 1 ELSE sem

\* Mutant of SemSignal: the token is kept.
SemSignalDropped(c) ==
  /\ At(c, "signal")
  /\ Goto(c, "exchange")
  /\ UNCHANGED <<refVars, coVars, sem, mutex, exc, stmt, pinOn, aborted>>

\* ... give it back, and retry.
SemSignal(c) ==
  /\ At(c, "signal")
  /\ sem' = Signalled
  /\ Goto(c, "exchange")
  /\ UNCHANGED <<refVars, coVars, mutex, exc, stmt, pinOn, aborted>>

\* WaitTimed expires; no token was taken and the ref is not held.
WaitTimeout ==
  /\ At(Main, "wait")
  /\ sem = 0
  /\ MainThrows("TIMEOUT")
  /\ UNCHANGED <<refVars, node, out, prev, sem, mutex, exc, stmt, pinOn, aborted>>

\* Mutant of ElapsedTimeout: the timer of the call is not looked at.
ElapsedIgnored ==
  /\ At(Main, "signal")
  /\ sem' = Signalled
  /\ Goto(Main, "exchange")
  /\ UNCHANGED <<refVars, coVars, mutex, exc, stmt, pinOn, aborted>>

\* The token was given back, but the timer of the whole call has run out.
ElapsedTimeout ==
  /\ At(Main, "signal")
  /\ sem' = Signalled
  /\ MainThrows("TIMEOUT")
  /\ UNCHANGED <<refVars, node, out, prev, mutex, exc, stmt, pinOn, aborted>>

-----------------------------------------------------------------------------
\* ReleaseRef.

\* OnUnlock, AddToPath when child_index >= 0, SetRef; sem_ref_ is signalled in Post.
ReleaseRef(c, value, added) ==
  /\ Check(ref = LockNode /\ owner = c, "ReleaseRef")
  /\ owner' = NULL
  /\ ref' = value
  /\ path' = path \o added
  /\ UNCHANGED <<sem, mutex, prev, pinOn>>

-----------------------------------------------------------------------------
\* OnControlledTransition, run by a thread at an instrumented event.

BeginTransition(t) ==
  /\ At(t, "idle")
  /\ pinOn
  /\ goal' = [goal EXCEPT ![t] = "transition"]
  /\ Goto(t, "exchange")
  /\ UNCHANGED <<refVars, node, out, prev, err, sem, mutex, exc, stmt, pinOn, aborted>>

\* The locals of a handler that returns.
Return(t) ==
  /\ goal' = [goal EXCEPT ![t] = "endException"]
  /\ node' = [node EXCEPT ![t] = NULL]
  /\ out' = [out EXCEPT ![t] = "none"]
  /\ prev' = [prev EXCEPT ![t] = NULL]
  /\ err' = [err EXCEPT ![t] = "SUCCESS"]

\* "if end_node, exit immediatelly".
FoundByTransition(t) ==
  /\ At(t, "found")
  /\ goal[t] = "transition"
  /\ Goto(t, "idle")
  /\ Return(t)
  /\ UNCHANGED <<refVars, sem, mutex, exc, stmt, pinOn, aborted>>

Kind(n) == Script[n]

\* What EvalTransition or EvalSelectThread can decide about a node of kind k.
Outcomes(k) ==
  CASE k = "through" -> {"consumeTake", "take", "retry"}
    [] k = "until"   -> {"consume", "take", "retry"}
    [] OTHER         -> {"consume", "retry"}

Consuming == {"consume", "consumeTake"}
Taking == {"take", "consumeTake"}

\* EvalTransition/EvalSelectThread; a consumer then broadcasts, without the
\* mutex and before it releases the ref.  A thread that will sleep locks the
\* mutex first, still holding the ref.
Eval(t) ==
  /\ At(t, "hold")
  /\ goal[t] = "transition"
  /\ Check(node[t] # prev[t], "PrevUnsat")
  /\ \E o \in Outcomes(Kind(node[t])) :
       /\ out' = [out EXCEPT ![t] = o]
       /\ pc' = [(IF o \in Consuming THEN Broadcast(pc) ELSE pc)
                    EXCEPT ![t] = IF o = "retry" THEN "lock" ELSE "release"]
  /\ UNCHANGED <<refVars, goal, node, prev, err, sem, mutex, exc, stmt, pinOn>>

\* An installed assertion fails: the exception leaves with the ref still held.
EvalViolation(t) ==
  /\ At(t, "hold")
  /\ goal[t] = "transition"
  /\ "ASSERTION" \in SutCalls
  /\ Kind(node[t]) \in {"through", "until"}
  /\ err' = [err EXCEPT ![t] = "ASSERTION"]
  /\ goal' = [goal EXCEPT ![t] = "endException"]
  /\ Goto(t, "exchange")
  /\ UNCHANGED <<refVars, node, out, prev, sem, mutex, exc, stmt, pinOn, aborted>>

\* node->mutex()->Lock().
LockMutex(t) ==
  /\ At(t, "lock")
  /\ mutex = NULL
  /\ mutex' = t
  /\ Goto(t, "release")
  /\ UNCHANGED <<refVars, coVars, sem, exc, stmt, pinOn, aborted>>

\* Mutant of ReleaseTransition: the consumed node stays in the ref.
ReleaseTransitionKept(t) ==
  /\ At(t, "release")
  /\ ReleaseRef(t, node[t], IF out[t] \in Consuming THEN <<node[t]>> ELSE <<>>)
  /\ Goto(t, "post")
  /\ UNCHANGED <<goal, node, out, err, exc, stmt>>

ReleaseTransition(t) ==
  /\ At(t, "release")
  /\ \/ out[t] \in Consuming /\ ReleaseRef(t, Empty, <<node[t]>>)
     \/ out[t] \notin Consuming /\ ReleaseRef(t, node[t], <<>>)
  /\ Goto(t, "post")
  /\ UNCHANGED <<goal, node, out, err, exc, stmt>>

\* The Signal that ends ReleaseRef, and the branch after it.
PostTransition(t) ==
  /\ At(t, "post")
  /\ goal[t] = "transition"
  /\ sem' = Signalled
  /\ \/ /\ out[t] \in Taking
        /\ Goto(t, "idle")
        /\ Return(t)
     \/ /\ out[t] \notin Taking
        /\ prev' = [prev EXCEPT ![t] = node[t]]
        /\ Goto(t, IF out[t] = "consume" THEN "exchange" ELSE "park")
        /\ UNCHANGED <<goal, node, out, err>>
  /\ UNCHANGED <<refVars, mutex, exc, stmt, pinOn, aborted>>

\* condvar()->WaitTimed(mutex(), ...): sleep and let go of the mutex at once.
Park(t) ==
  /\ At(t, "park")
  /\ mutex' = NULL
  /\ Goto(t, "asleep")
  /\ UNCHANGED <<refVars, coVars, sem, exc, stmt, pinOn, aborted>>

\* Mutants of CondTimeout: prev_unsat_node is not reset; the wait is repeated.
CondTimeoutKeepsPrev(t) ==
  /\ At(t, "asleep")
  /\ Goto(t, "woken")
  /\ UNCHANGED <<refVars, coVars, sem, mutex, exc, stmt, pinOn, aborted>>

CondTimeoutRearmed(t) ==
  /\ At(t, "asleep")
  /\ UNCHANGED vars

CondTimeout(t) ==
  /\ At(t, "asleep")
  /\ prev' = [prev EXCEPT ![t] = NULL]
  /\ Goto(t, "woken")
  /\ UNCHANGED <<refVars, goal, node, out, err, sem, mutex, exc, stmt, pinOn, aborted>>

CondSpurious(t) ==
  /\ At(t, "asleep")
  /\ SpuriousWakeups
  /\ Goto(t, "woken")
  /\ UNCHANGED <<refVars, coVars, sem, mutex, exc, stmt, pinOn, aborted>>

\* The wait takes the mutex back, OnControlledTransition unlocks it and retries.
Reacquire(t) ==
  /\ At(t, "woken")
  /\ mutex = NULL
  /\ Goto(t, "exchange")
  /\ UNCHANGED <<refVars, coVars, sem, mutex, exc, stmt, pinOn, aborted>>

-----------------------------------------------------------------------------
\* EndWithException, run by main and by threads.

\* A thread raises an exception (concurritTriggerAssert, concurritEndSearch) or
\* calls concurritEndTest, which disables the monitor and inserts a backtrack.
Raise(t, e) ==
  /\ At(t, "idle")
  /\ pinOn' = (pinOn /\ e # "THREADS_ALLENDED")
  /\ err' = [err EXCEPT ![t] = e]
  /\ goal' = [goal EXCEPT ![t] = "endException"]
  /\ Goto(t, "exchange")
  /\ UNCHANGED <<refVars, node, out, prev, sem, mutex, exc, stmt, aborted>>

\* There is an end node already: add_exception reads exception_ ...
FoundByException(c) ==
  /\ At(c, "found")
  /\ goal[c] = "endException"
  /\ Goto(c, IF exc = "none" THEN "addexc" ELSE "bcast")
  /\ UNCHANGED <<refVars, coVars, sem, mutex, exc, stmt, pinOn, aborted>>

\* ... and writes it, without any lock.
WriteException(c) ==
  /\ At(c, "addexc")
  /\ exc' = err[c]
  /\ Goto(c, "bcast")
  /\ UNCHANGED <<refVars, coVars, sem, mutex, stmt, pinOn, aborted>>

\* No end node yet: record the exception and release the end node into the path.
InsertEnd(c) ==
  /\ At(c, "hold")
  /\ goal[c] = "endException"
  /\ AddException(err[c])
  /\ ReleaseRef(c, EndNode, <<EndNode>>)
  /\ Goto(c, "post")
  /\ UNCHANGED <<goal, node, out, err, stmt>>

PostException(c) ==
  /\ At(c, "post")
  /\ goal[c] = "endException"
  /\ sem' = Signalled
  /\ Goto(c, "bcast")
  /\ UNCHANGED <<refVars, coVars, mutex, exc, stmt, pinOn, aborted>>

\* "notify waiters", then return: concurritEndTest returns to the program, any
\* other exception ends the thread (Coroutine::Run).
NotifyWaiters(t) ==
  /\ At(t, "bcast")
  /\ pc' = [Broadcast(pc) EXCEPT ![t] = IF err[t] = "THREADS_ALLENDED" THEN "idle" ELSE "ended"]
  /\ Return(t)
  /\ UNCHANGED <<refVars, sem, mutex, exc, stmt, pinOn, aborted>>

\* The thread's function returns (or it calls pthread_exit): SetEnded.
ThreadEnd(t) ==
  /\ At(t, "idle")
  /\ Goto(t, "ended")
  /\ UNCHANGED <<refVars, coVars, sem, mutex, exc, stmt, pinOn, aborted>>

-----------------------------------------------------------------------------
\* The script, run by main in RunTestCase.

\* DSLChoice, DSLConditional, DSLForallThread, DSLExistsThread, DSLRunThrough,
\* DSLRunUntil: all but the first two give up when every thread has ended.
BeginStatement ==
  /\ At(Main, "idle")
  /\ stmt <= Len(Script)
  /\ \/ /\ Kind(stmt) # "choice" /\ IsAllEnded
        /\ MainThrows("THREADS_ALLENDED")
     \/ /\ Kind(stmt) = "choice" \/ ~IsAllEnded
        /\ goal' = [goal EXCEPT ![Main] = "submit"]
        /\ Goto(Main, "exchange")
        /\ UNCHANGED err
  /\ UNCHANGED <<refVars, node, out, prev, sem, mutex, exc, stmt, pinOn, aborted>>

ScriptThrow(e) ==
  /\ At(Main, "idle")
  /\ MainThrows(e)
  /\ UNCHANGED <<refVars, node, out, prev, sem, mutex, exc, stmt, pinOn, aborted>>

ScriptEnd ==
  /\ At(Main, "idle")
  /\ stmt > Len(Script)
  /\ MainThrows("SUCCESS")
  /\ UNCHANGED <<refVars, node, out, prev, sem, mutex, exc, stmt, pinOn, aborted>>

\* Main holds the empty ref.  A choice (or conditional) is consumed on the spot
\* or, when covered or no longer true, gives the ref back and backtracks.
SubmitChoice(o) ==
  /\ At(Main, "hold")
  /\ goal[Main] = "submit"
  /\ Kind(stmt) = "choice"
  /\ out' = [out EXCEPT ![Main] = o]
  /\ ReleaseRef(Main, Empty, IF o = "next" THEN <<stmt>> ELSE <<>>)
  /\ Goto(Main, "post")
  /\ UNCHANGED <<goal, node, err, exc, stmt>>

\* Any other statement publishes its node for the threads to consume.
SubmitNode ==
  /\ At(Main, "hold")
  /\ goal[Main] = "submit"
  /\ Kind(stmt) # "choice"
  /\ out' = [out EXCEPT ![Main] = "await"]
  /\ ReleaseRef(Main, stmt, <<>>)
  /\ Goto(Main, "post")
  /\ UNCHANGED <<goal, node, err, exc, stmt>>

\* The wait for consumption is over: the ref is empty again.
Consumed ==
  /\ At(Main, "hold")
  /\ goal[Main] = "consumed"
  /\ out' = [out EXCEPT ![Main] = "next"]
  /\ ReleaseRef(Main, Empty, <<>>)
  /\ Goto(Main, "post")
  /\ UNCHANGED <<goal, node, err, exc, stmt>>

\* The Signal that ends main's ReleaseRef, and where main goes from there.
PostScript ==
  /\ At(Main, "post")
  /\ sem' = Signalled
  /\ \/ /\ out[Main] = "next"
        /\ stmt' = stmt + 1
        /\ Goto(Main, "idle")
        /\ UNCHANGED <<goal, err>>
     \/ /\ out[Main] = "await"
        /\ goal' = [goal EXCEPT ![Main] = "consumed"]
        /\ Goto(Main, "exchange")
        /\ UNCHANGED <<stmt, err>>
     \/ /\ out[Main] \in BacktrackReasons
        /\ MainThrows(out[Main])
        /\ UNCHANGED stmt
  /\ out' = [out EXCEPT ![Main] = "none"]
  /\ UNCHANGED <<refVars, node, prev, mutex, exc, pinOn, aborted>>

\* AcquireRefEx finds the end node another coroutine inserted, inside a statement.
FoundByScript ==
  /\ At(Main, "found")
  /\ goal[Main] \in {"submit", "consumed"}
  /\ Check(exc # "none" /\ PathEnded, "AcquireRefEx")
  /\ MainThrows(EndReason)
  /\ UNCHANGED <<refVars, node, out, prev, sem, mutex, exc, stmt, pinOn>>

-----------------------------------------------------------------------------
\* EndWithSuccess, run by main when the script returns or backtracks.

\* THREADS_ALLENDED: "no other threads ... just force-lock it" (SetRef, no exchange).
ForceLock ==
  /\ At(Main, "force")
  /\ ref' = LockNode
  /\ node' = [node EXCEPT ![Main] = Empty]
  /\ Goto(Main, "resolve")
  /\ UNCHANGED <<owner, path, goal, out, prev, err, sem, mutex, exc, stmt, pinOn, aborted>>

\* AcquireRefEx throws because there is an end node; EndWithSuccess accepts only
\* EXCEPTION here, and RunTestCase goes on to EndWithException.
FoundByEndSuccess ==
  /\ At(Main, "found")
  /\ goal[Main] = "endSuccess"
  /\ Check(EndReason = "EXCEPTION", "EndReason")
  /\ err' = [err EXCEPT ![Main] = EndReason]
  /\ goal' = [goal EXCEPT ![Main] = "endException"]
  /\ Goto(Main, "exchange")
  /\ UNCHANGED <<refVars, node, out, prev, sem, mutex, exc, stmt, pinOn>>

\* The last consumed node is an exists node: another thread may still be tried,
\* unless all have ended, which covers the node.
ExistsUncovered ==
  /\ path # <<>> /\ ~PathEnded
  /\ Kind(path[Len(path)]) = "exists"
  /\ err[Main] # "THREADS_ALLENDED"

\* AddToPath(ENDNODE(), 0) unless the path has ended or is to be tried again;
\* then ReleaseRef(ENDNODE()).
EndSuccess ==
  /\ At(Main, "hold")
  /\ goal[Main] = "endSuccess"
  /\ ReleaseRef(Main, EndNode, IF PathEnded \/ ExistsUncovered THEN <<>> ELSE <<EndNode>>)
  /\ Goto(Main, "post")
  /\ out' = [out EXCEPT ![Main] = "finish"]
  /\ UNCHANGED <<goal, node, err, exc, stmt>>

\* RunTestCase: "if(reason != SUCCESS)" the backtrack is recorded as well.
PostSuccess ==
  /\ At(Main, "post")
  /\ out[Main] = "finish"
  /\ sem' = Signalled
  /\ out' = [out EXCEPT ![Main] = "none"]
  /\ goal' = [goal EXCEPT ![Main] = "endException"]
  /\ Goto(Main, IF err[Main] = "SUCCESS" THEN "uncontrolled" ELSE "exchange")
  /\ UNCHANGED <<refVars, node, prev, err, mutex, exc, stmt, pinOn, aborted>>

\* The end of main's EndWithException.
MainNotifyWaiters ==
  /\ At(Main, "bcast")
  /\ pc' = [Broadcast(pc) EXCEPT ![Main] = "uncontrolled"]
  /\ UNCHANGED <<refVars, coVars, sem, mutex, exc, stmt, pinOn, aborted>>

-----------------------------------------------------------------------------
\* RunUncontrolled, the rest of RunOnce, and Explore's decision.

RunUncontrolled ==
  /\ At(Main, "uncontrolled")
  /\ pinOn' = FALSE
  /\ Goto(Main, "join")
  /\ UNCHANGED <<refVars, coVars, sem, mutex, exc, stmt, aborted>>

\* JoinAllThreads: not waiting at all when there is a non-backtrack exception.
JoinAllThreads ==
  /\ At(Main, "join")
  /\ IsAllEnded \/ exc \in NonBacktrack
  /\ Goto(Main, "explore")
  /\ UNCHANGED <<refVars, coVars, sem, mutex, exc, stmt, pinOn, aborted>>

\* JoinAllThreads gives up after MaxTimeOutsBeforeDeadlock rounds.
JoinDeadlock ==
  /\ At(Main, "join")
  /\ SutMayHang
  /\ ~IsAllEnded
  /\ AddException("DEADLOCK")
  /\ Goto(Main, "explore")
  /\ UNCHANGED <<refVars, coVars, sem, mutex, stmt, pinOn, aborted>>

\* Explore ends the search: an assertion violation, SEARCH_ENDS, or a covered root.
EndSearch ==
  /\ At(Main, "explore")
  /\ Goto(Main, "terminated")
  /\ UNCHANGED <<refVars, coVars, sem, mutex, exc, stmt, pinOn, aborted>>

\* Explore runs the next execution: ExecutionTreeManager::Restart, and the driver
\* re-creates its threads.
Restart ==
  /\ At(Main, "explore")
  /\ exc \notin NonBacktrack \cup {"SEARCH_ENDS"}
  /\ IsAllEnded
  /\ ref' = Empty
  /\ sem' = 0
  /\ exc' = "none"
  /\ path' = <<>>
  /\ stmt' = 1
  /\ pinOn' = TRUE
  /\ pc' = [c \in Coroutines |-> "idle"]
  /\ goal' = [goal EXCEPT ![Main] = "endException"]
  /\ node' = [node EXCEPT ![Main] = NULL]
  /\ err' = [err EXCEPT ![Main] = "SUCCESS"]
  /\ UNCHANGED <<owner, mutex, out, prev, aborted>>

\* Coroutine::Start is unreachable() for a thread that has not ended.
StartUnreachable ==
  /\ At(Main, "explore")
  /\ exc \notin NonBacktrack \cup {"SEARCH_ENDS"}
  /\ Check(IsAllEnded, "Start")
  /\ ~IsAllEnded
  /\ UNCHANGED <<refVars, coVars, sem, mutex, pc, exc, stmt, pinOn>>

-----------------------------------------------------------------------------
AcquireStep(c) ==
  \/ Exchange(c) \/ ExchangeOwned(c)
  \/ ResolveLock(c) \/ ResolveRestore(c) \/ ResolveEnd(c)
  \/ SemWait(c) \/ SemSignal(c)

EndStep(c) ==
  \/ FoundByException(c) \/ WriteException(c) \/ InsertEnd(c) \/ PostException(c)

ThreadStep(t) ==
  \/ BeginTransition(t) \/ FoundByTransition(t)
  \/ Eval(t) \/ EvalViolation(t) \/ LockMutex(t)
  \/ ReleaseTransition(t) \/ PostTransition(t)
  \/ Park(t) \/ CondTimeout(t) \/ CondSpurious(t) \/ Reacquire(t)
  \/ \E e \in SutCalls : Raise(t, e)
  \/ NotifyWaiters(t) \/ ThreadEnd(t)

MainStep ==
  \/ SpinTimeout \/ WaitTimeout \/ ElapsedTimeout
  \/ BeginStatement \/ ScriptEnd
  \/ \E e \in ScriptThrows : ScriptThrow(e)
  \/ \E o \in {"next", "TREENODE_COVERED", "REPLAY_FAILS"} : SubmitChoice(o)
  \/ SubmitNode \/ Consumed \/ PostScript \/ FoundByScript
  \/ ForceLock \/ FoundByEndSuccess
  \/ EndSuccess \/ PostSuccess \/ MainNotifyWaiters
  \/ RunUncontrolled \/ JoinAllThreads \/ JoinDeadlock \/ EndSearch \/ Restart
  \/ StartUnreachable

Next ==
  \/ \E c \in Coroutines : AcquireStep(c) \/ EndStep(c)
  \/ \E t \in Threads : ThreadStep(t)
  \/ MainStep
  \/ Stopped /\ UNCHANGED vars

Spec == Init /\ [][Next]_vars

(***************************************************************************)
(* Fairness.  A coroutine inside the protocol keeps running.  A spinning   *)
(* exchange and a contended mutex are retried for as long as they are not  *)
(* obtained, so they succeed if they could succeed infinitely often.  The  *)
(* timed waits return: main's with a token or with ETIMEDOUT, a sleeping   *)
(* thread's at the latest when its time is over, and the timer of a whole  *)
(* AcquireRef runs out.  Nothing is assumed of the program under test: it  *)
(* need not reach another event, and it need not end.                      *)
(***************************************************************************)
RefSteps(c) ==
  \/ ExchangeOwned(c)
  \/ ResolveLock(c) \/ ResolveRestore(c) \/ ResolveEnd(c)
  \/ SemWait(c) \/ SemSignal(c) \/ EndStep(c)

TransitionSteps(t) ==
  \/ FoundByTransition(t) \/ Eval(t) \/ EvalViolation(t) \/ LockMutex(t)
  \/ ReleaseTransition(t) \/ PostTransition(t)
  \/ Park(t) \/ CondTimeout(t) \/ NotifyWaiters(t)

ScriptSteps ==
  \/ BeginStatement \/ ScriptEnd
  \/ \E o \in {"next", "TREENODE_COVERED", "REPLAY_FAILS"} : SubmitChoice(o)
  \/ SubmitNode \/ Consumed \/ PostScript \/ FoundByScript
  \/ ForceLock \/ FoundByEndSuccess \/ EndSuccess \/ PostSuccess
  \/ MainNotifyWaiters \/ RunUncontrolled \/ JoinAllThreads

Fairness ==
  /\ \A c \in Coroutines : WF_vars(RefSteps(c)) /\ SF_vars(Exchange(c))
  /\ \A t \in Threads : WF_vars(TransitionSteps(t)) /\ SF_vars(Reacquire(t))
  /\ WF_vars(ScriptSteps)
  /\ WF_vars(SemWait(Main) \/ WaitTimeout)
  /\ SF_vars(ElapsedTimeout)

FairSpec == Spec /\ Fairness

-----------------------------------------------------------------------------
ThreadLabels == {"idle", "exchange", "resolve", "found", "wait", "signal", "hold",
                 "lock", "release", "post", "park", "asleep", "woken", "addexc",
                 "bcast", "ended"}
MainLabels == {"idle", "exchange", "resolve", "found", "wait", "signal", "hold",
               "post", "force", "addexc", "bcast", "uncontrolled", "join",
               "explore", "terminated"}
Decisions == {"none", "consume", "consumeTake", "take", "retry",
              "next", "await", "finish", "TREENODE_COVERED", "REPLAY_FAILS"}
Exceptions == BacktrackReasons \cup NonBacktrack
Assertions == {"DoubleLock", "OnLock", "ReleaseRef", "PrevUnsat", "AcquireRefEx",
               "EndReason", "Start"}

\* Type correctness of the state the rendezvous keeps.
TypeOK ==
  /\ ref \in RefValues
  /\ owner \in Coroutines \cup {NULL}
  /\ sem \in 0..MaxSem
  /\ mutex \in Threads \cup {NULL}
  /\ pc \in [Coroutines -> ThreadLabels \cup MainLabels]
  /\ \A t \in Threads : pc[t] \in ThreadLabels
  /\ pc[Main] \in MainLabels
  /\ goal \in [Coroutines -> Goals]
  /\ \A t \in Threads : goal[t] \in {"transition", "endException"}
  /\ goal[Main] # "transition"
  /\ node \in [Coroutines -> RefValues]
  /\ out \in [Coroutines -> Decisions]
  /\ prev \in [Coroutines -> Nodes \cup {NULL}]
  /\ err \in [Coroutines -> Exceptions \cup {"SUCCESS"}]
  /\ exc \in Exceptions \cup {"none", "SUCCESS"}
  /\ path \in Seq(Nodes \cup {EndNode})
  /\ stmt \in 1..(Len(Script) + 1)
  /\ pinOn \in BOOLEAN
  /\ aborted \in Assertions \cup {"none"}

\* c is between the exchange that locked the ref and the store that unlocks it.
HoldsRef(c) ==
  \/ pc[c] \in {"resolve", "hold", "lock", "release"}
  \/ pc[c] = "exchange" /\ owner = c

\* AcquireRef/ReleaseRef are a lock: at most one coroutine is between them, the
\* ref is the lock node exactly then, and owner_ never names anyone else.  The
\* path, the node stack and exception_ are written under no other protection.
LockExclusion ==
  /\ \A c, d \in Coroutines : HoldsRef(c) /\ HoldsRef(d) => c = d
  /\ ref = LockNode <=> \E c \in Coroutines : HoldsRef(c)
  /\ owner # NULL => HoldsRef(owner)

\* The four asserts of AcquireRef, LockNode and ReleaseRef about the lock hold.
LockAsserts == aborted \notin {"DoubleLock", "OnLock", "ReleaseRef"}

\* What makes TypeOK inductive: a thread evaluates a submitted node, main submits
\* a statement of the script, and main's decision is pending only in its release.
TypeInv ==
  /\ TypeOK
  /\ aborted = "none" =>
       /\ \A t \in Threads :
            goal[t] = "transition" /\ pc[t] \in {"hold", "lock", "release", "post", "park"}
              => node[t] \in Nodes
       /\ \A t \in Threads : pc[t] \in {"lock", "release"} => goal[t] = "transition"
       /\ goal[Main] \in {"submit", "consumed"} /\ pc[Main] # "idle" => stmt <= Len(Script)
       /\ out[Main] # "none" =>
            /\ pc[Main] = "post"
            /\ goal[Main] # "endException"
            /\ out[Main] = "finish" <=> goal[Main] = "endSuccess"

\* What makes LockExclusion inductive: who owns the lock at each control point,
\* and that the ref is forced only when no thread is left.
OwnerInv ==
  /\ \A c \in Coroutines :
       /\ pc[c] \in {"hold", "lock", "release"} => owner = c
       /\ pc[c] = "resolve" => owner = NULL
       /\ pc[c] = "exchange" /\ owner = c => goal[c] = "endException"
  /\ pc[Main] = "force" => IsAllEnded
  /\ \A t \in Threads : err[t] # "THREADS_ALLENDED"
  /\ exc = "THREADS_ALLENDED" =>
       pc[Main] \in {"post", "bcast", "uncontrolled", "join", "explore", "terminated"}
  /\ exc = "THREADS_ALLENDED" /\ pc[Main] = "post" => goal[Main] = "endException"

LockInv == LockExclusion /\ OwnerInv /\ LockAsserts

\* No safe_assert of the rendezvous fails.
NoAbort == aborted = "none"

NumConsumed == IF PathEnded THEN Len(path) - 1 ELSE Len(path)

\* Script order: the path holds the statements in order, each once, and an end
\* node at most at its end; main is never more than one statement ahead of what
\* the threads have consumed, and what is published is exactly that statement.
ScriptInStep ==
  /\ \A i \in 1..NumConsumed : path[i] = i
  /\ NumConsumed \in {stmt - 1, stmt}
  /\ pc[Main] = "idle" => NumConsumed = stmt - 1
  /\ ref \in Nodes => ref = stmt /\ NumConsumed = stmt - 1
  /\ \A t \in Threads : pc[t] \in {"hold", "lock", "release"} /\ goal[t] = "transition"
                           => node[t] = stmt /\ NumConsumed = stmt - 1

Acquiring(c) == pc[c] \in {"exchange", "resolve", "found", "wait", "signal", "hold"}

\* Main has yet to submit its statement; it has submitted it and waits; it is done.
Submitting == pc[Main] = "idle" \/ (goal[Main] = "submit" /\ Acquiring(Main))
Awaiting == \/ goal[Main] = "consumed" /\ Acquiring(Main)
            \/ pc[Main] = "post" /\ out[Main] = "await"
Finished == pc[Main] = "post" /\ out[Main] = "next"

\* Statement n can still be consumed: it is in the ref or with who locked the ref.
Offered(n) == ref = n \/ \E c \in Coroutines : HoldsRef(c) /\ node[c] = n

\* v is in the ref, or with a coroutine that may be about to put it back.
InRef(v) == ref = v \/ \E c \in Coroutines : pc[c] = "resolve" /\ node[c] = v
EndInRef == InRef(EndNode)

\* Main has force-locked the ref in EndWithSuccess and is about to release it.
Forced == /\ pc[Main] \in {"resolve", "hold"}
          /\ goal[Main] = "endSuccess"
          /\ node[Main] = Empty

\* What makes ScriptInStep and EndIsFinal inductive.  Only the current statement is
\* offered, while it is not consumed; who holds the ref holds no end node.
OfferInv ==
  /\ \A i \in 1..NumConsumed : path[i] = i
  /\ NumConsumed \in {stmt - 1, stmt}
  /\ \A n \in Nodes : Offered(n) => n = stmt /\ NumConsumed = stmt - 1
  /\ \A t \in Threads : pc[t] \in {"hold", "lock", "release"} /\ goal[t] = "transition"
                           => node[t] \in Nodes
  /\ \A c \in Coroutines : HoldsRef(c) /\ pc[c] # "resolve" => node[c] # EndNode

\* Nothing is offered before main submits it or after main is done with it.
StatementInv ==
  /\ Submitting => NumConsumed = stmt - 1 /\ \A n \in Nodes : ~Offered(n)
  /\ Awaiting => \/ NumConsumed = stmt \/ PathEnded \/ EndInRef
                 \/ \E n \in Nodes : Offered(n)
  /\ Finished => NumConsumed = stmt /\ \A n \in Nodes : ~Offered(n)
  /\ pc[Main] = "hold" /\ goal[Main] \in {"submit", "consumed"} => node[Main] = Empty
  /\ pc[Main] \in {"wait", "signal"} => goal[Main] \in {"submit", "consumed"}

\* Main has published its end node or is about to record why it ends.
MainEnds == \/ goal[Main] = "endException" /\ pc[Main] # "idle"
            \/ goal[Main] = "endSuccess" /\ pc[Main] = "post"

\* An ended path keeps its end node in the ref, and an end node outside the path is
\* main's last word in this execution.
EndInv ==
  /\ PathEnded => EndInRef \/ Forced
  /\ EndInRef /\ ~PathEnded => MainEnds
  /\ pc[Main] = "force" => goal[Main] = "endSuccess"

ScriptInv == OfferInv /\ StatementInv /\ EndInv

\* The value of the ref that ends c's wait on sem_ref_.
Wanted(c) == CASE Mode(c) = "EXIT_ON_FULL"  -> Nodes \cup {EndNode}
               [] Mode(c) = "EXIT_ON_EMPTY" -> {Empty, EndNode}
               [] OTHER -> {}

\* The turnstile loses no wakeup: nobody is left waiting for a token on sem_ref_
\* while the ref is what it waits for, unless a token is about to be given.
NoSleepOnReadyRef ==
  \A c \in Coroutines : pc[c] = "wait" /\ ref \in Wanted(c) /\ sem = 0
      => \E d \in Coroutines : pc[d] \in {"signal", "post"}

\* What makes it inductive: the same while a coroutine that waits looks at the ref.
TurnstileInv ==
  \A c \in Coroutines : pc[c] = "wait" /\ sem = 0 /\ (\E v \in Wanted(c) : InRef(v))
      => \E d \in Coroutines : pc[d] \in {"signal", "post"}

\* The path has ended, or an end node has been published (a reader may lock it
\* for a moment).
EndPublished == PathEnded \/ EndInRef

\* Once an end node is published nothing is consumed and nothing else published
\* until the next execution: AcquireRef never overwrites an end node, and the
\* forced lock of EndWithSuccess does so only where the path has ended for good.
EndIsFinal ==
  [][EndPublished /\ pc[Main] # "explore" => EndPublished' /\ path' = path]_vars

\* c has come across an end node, has published one, or is main after that.
PastEnd(c) ==
  \/ pc[c] \in {"found", "addexc", "bcast", "uncontrolled", "join", "explore"}
  \/ pc[c] = "post" /\ goal[c] \in {"endSuccess", "endException"}

\* What the waiters are woken for and the next execution starts from: the end.
EndSeen == \A c \in Coroutines : PastEnd(c) => EndPublished

\* What the asserts of AcquireRefEx, EndWithSuccess and Coroutine::Start rest on,
\* when threads raise assertion violations only: every other reason is main's own.
ExcInv ==
  /\ \A t \in Threads : goal[t] = "endException" /\ pc[t] \notin {"idle", "ended"}
                           => err[t] = "ASSERTION"
  /\ PathEnded /\ exc = "none" => MainEnds
  /\ exc \in BacktrackReasons => MainEnds
  /\ \A c \in Coroutines : pc[c] = "addexc" => goal[c] = "endException"
  /\ pc[Main] = "explore" => IsAllEnded \/ exc \in NonBacktrack

\* Statement n is no longer there for a thread to evaluate.
Gone(n) == n <= NumConsumed \/ EndPublished

\* What the assert on prev_unsat_node rests on: a thread that could not take a
\* statement looks at the ref again when its sleep is over, or once that statement
\* is gone, or while the thread that woke it still has to remove it.
PrevInv ==
  /\ \A t \in Threads :
       /\ pc[t] \in {"idle", "ended"} => prev[t] = NULL
       /\ prev[t] # NULL => prev[t] <= NumConsumed + 1
  /\ \A t \in Threads : goal[t] = "transition" =>
       /\ pc[t] \in {"hold", "lock", "release", "post"} => node[t] <= NumConsumed + 1
       /\ pc[t] = "post" /\ out[t] \in Consuming => node[t] <= NumConsumed
       /\ /\ prev[t] # NULL
          /\ pc[t] \in {"woken", "exchange", "resolve", "found", "wait", "signal", "hold"}
          => \/ Gone(prev[t])
             \/ \E c \in Threads : pc[c] = "release" /\ out[c] \in Consuming /\ node[c] = prev[t]

\* Every execution ends: main never waits for ever in the script, in
\* EndWithSuccess or in EndWithException, whatever the threads do.
ScriptTerminates == pc[Main] = "idle" ~> (pc[Main] = "join" \/ Stopped)

\* Once the controlled run is over no thread stays in a handler of the tool,
\* even one whose wakeup was lost.
ThreadsLeave ==
  pc[Main] = "join" ~> ((\A t \in Threads : pc[t] \in {"idle", "ended"}) \/ Stopped)

\* An assertion violation a thread has recorded is there when Explore looks.
AssertionKept ==
  \A t \in Threads : pc[t] = "bcast" /\ err[t] = "ASSERTION" => exc \in NonBacktrack

(***************************************************************************)
(* The abstract mailbox.  A statement is on offer while its node is in the *)
(* ref or in the hands of whoever has locked the ref; the mailbox is closed*)
(* from the end node on, and closing once the script has left its          *)
(* statements for RunTestCase's catch block or its end.                    *)
(***************************************************************************)
InScript == pc[Main] = "idle" \/ goal[Main] \in {"submit", "consumed"}

Mail == INSTANCE Mailbox WITH
  Statements <- Len(Script),
  offers <- {n \in Nodes : Offered(n)},
  taken <- NumConsumed,
  phase <- IF EndPublished THEN "closed" ELSE IF InScript THEN "open" ELSE "closing"

\* The rendezvous keeps the mailbox's promise: through every interleaving of
\* exchanges, evaluations, timeouts and ends, each statement is offered once, taken
\* by one thread or dropped with the execution, and none is taken after the end.
ImplementsMailbox == Mail!Spec
=============================================================================
