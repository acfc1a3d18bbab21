--------------------------- MODULE CoroutineGroup ---------------------------
(***************************************************************************)
(* The life of the threads under test: created through the interposed      *)
(* pthread_create, kept from one execution to the next, restarted and      *)
(* terminated by messages on their channel, joined through the two tokens  *)
(* of sem_end_.                                                            *)
(*                                                                         *)
(* Main is the thread that runs the search; the others are the members of  *)
(* the group, numbered in the order of their creation, member 1 being the  *)
(* driver.  What the script does, and what the threads do between their    *)
(* pthread calls, is in Rendezvous.  A step ends where the code releases a *)
(* mutex, waits, or writes a field that another thread reads unlocked.     *)
(***************************************************************************)
EXTENDS Integers, FiniteSets

CONSTANTS
  MaxThreads,      \* bound on the members of the group
  MaxExecutions,   \* bound on the executions of the search
  MaxTimeOuts,     \* Config::MaxTimeOutsBeforeDeadlock
  RunUncontrolled, \* Config::RunUncontrolled: no wait of main is timed
  Creators,        \* the members whose code creates threads
  Exits,           \* whether a thread may call pthread_exit
  Raises,          \* whether a thread may fail an assertion
  Hangs,           \* whether a thread may stop for good in its own code
  Slow             \* whether a timed wait may expire although it would succeed

Main == 0
Tids == 1..MaxThreads
Actors == 0..MaxThreads
Driver == 1

ASSUME GroupAssumption ==
  /\ MaxThreads \in Nat \ {0}
  /\ MaxExecutions \in Nat \ {0}
  /\ MaxTimeOuts \in Nat \ {0}
  /\ Creators \subseteq Tids
  /\ {RunUncontrolled, Exits, Raises, Hangs, Slow} \subseteq BOOLEAN

Nobody == -1

\* StatusType of coroutine.h (PASSIVE to TERMINATED); ABSENT and BLOCKED are
\* never assigned.
Passive == 1
Enabled == 2
Waiting == 3
Ended == 5
Terminated == 6
Statuses == {Passive, Enabled, Waiting, Ended, Terminated}

\* MessageType, and "none" for an empty channel.
Messages == {"STARTED", "TRANSFER", "RESTART", "TERMINATE"}

VARIABLES
  size,      \* the number of members: member_tidseq_
  next,      \* next_idx_: the members created in this execution
  status,    \* Coroutine::status_
  chan,      \* Coroutine::channel_: a message, or "none"
  sem,       \* the count of sem_end_
  joined,    \* the threads whose pthread_join has been called in this execution
  mx,        \* the owner of Channel<MessageType>::mutex_, one for all channels
  cmx,       \* the owner of group_.create_mutex
  plock,     \* the owner of concurrit_pthread_lock
  woken,     \* those whose condition variable wait has been signalled
  pc,        \* where each thread is
  on,        \* the member it starts, waits for or finishes
  loaded,    \* sem_driver_load_
  exc,       \* EndNode::exception_: "none", "backtrack" or "assertion"
  round,     \* num_timed_out of JoinAllThreads
  timedOut,  \* timed_out of WaitForAllEnd
  execs,     \* the executions begun
  failed     \* the safe_assert that has aborted the process, or "none"

group == <<size, next>>
locks == <<mx, cmx, plock>>
mainVars == <<loaded, round, timedOut, execs>>
rest == <<group, status, chan, sem, joined, locks, woken, pc, on, exc, mainVars>>
vars == <<rest, failed>>

At(a, l) == pc[a] = l
Goto(a, l) == pc' = [pc EXCEPT ![a] = l]

\* The places in a condition variable wait, and the channel waited on.
InWait == {"awaitStarted", "awaitTransfer", "awaitEnd"}
ChannelOf(a) == IF At(a, "awaitStarted") THEN on[a] ELSE a

\* safe_assert: act is the rest of the handler.
Assert(cond, name, act) ==
  IF cond THEN act /\ UNCHANGED failed ELSE failed' = name /\ UNCHANGED rest

\* Condition variable signal: one of the threads that wait, if there is any.
Signal(s) ==
  LET waiters == {a \in Actors \ woken : pc[a] \in InWait /\ ChannelOf(a) = s}
  IN  IF waiters = {} THEN UNCHANGED woken
      ELSE \E w \in waiters : woken' = woken \cup {w}

\* Mutant of Put: the message is put and nobody is signalled.
PutUnsignalled(s, msg) == chan' = [chan EXCEPT ![s] = msg] /\ UNCHANGED woken

\* Channel::put and the signal that follows it, with the mutex held.
Put(s, msg) == chan' = [chan EXCEPT ![s] = msg] /\ Signal(s)
IsEmpty(s) == chan[s] = "none"

\* The end of a wait: the mutex is free again, and Channel::take.
Woken(a) == a \in woken /\ mx = Nobody
Take(a) ==
  /\ woken' = woken \ {a}
  /\ chan' = [chan EXCEPT ![ChannelOf(a)] = "none"]

Init ==
  /\ size = 0 /\ next = 0
  /\ status = [t \in Tids |-> Passive]
  /\ chan = [t \in Tids |-> "none"]
  /\ sem = [t \in Tids |-> 0]
  /\ joined = {}
  /\ mx = Nobody /\ cmx = Nobody /\ plock = Nobody
  /\ woken = {}
  /\ pc = [a \in Actors |-> IF a = Main THEN "begin" ELSE "absent"]
  /\ on = [a \in Actors |-> Driver]
  /\ loaded = FALSE
  /\ exc = "none"
  /\ round = 0 /\ timedOut = 0 /\ execs = 0
  /\ failed = "none"

-----------------------------------------------------------------------------
(* pthread_create: CreateThread, CreatePThread and Coroutine::Start. *)

\* The interposed functions hold one lock from entry to return.
LockPthread(t, from, to) ==
  /\ At(t, from)
  /\ plock = Nobody
  /\ plock' = t
  /\ Goto(t, to)
  /\ UNCHANGED <<group, status, chan, sem, joined, mx, cmx, woken, on, exc, mainVars, failed>>

\* GetNextCreatedMember finds a member of an earlier execution, or none;
\* GetNthCreatedMember checks that it has been started.
Recreated == next < size
IsExpected(s) == status[s] > Passive

\* The next member in the order of creation, or a new member.
ChooseMember(a) ==
  /\ At(a, "create")
  /\ cmx = Nobody
  /\ LET s == next + 1
     IN  Assert(Recreated => IsExpected(s), "member",
           /\ cmx' = a
           /\ next' = s
           /\ size' = IF Recreated THEN size ELSE s
           /\ on' = [on EXCEPT ![a] = s]
           /\ Goto(a, "start")
           /\ UNCHANGED <<status, chan, sem, joined, mx, plock, woken, exc, mainVars>>)

\* Mutant of StartThread: a thread that waits is not sent the restart message.
StartUnsent(a) ==
  LET s == on[a]
  IN  /\ At(a, "start")
      /\ mx = Nobody
      /\ pc' = IF status[s] = Passive THEN [pc EXCEPT ![a] = "awaitStarted", ![s] = "entry"]
                                      ELSE [pc EXCEPT ![a] = "awaitStarted"]
      /\ UNCHANGED <<group, status, chan, sem, joined, locks, woken, on, exc, mainVars, failed>>

\* Thread::Start: the new pthread begins at ThreadEntry; a has to wait for it.
Spawn(a, s) == pc' = [pc EXCEPT ![a] = "awaitStarted", ![s] = "entry"]

\* Coroutine::Start up to its wait for the started message: a new pthread, or
\* the restart message to one that waits.
StartThread(a) ==
  LET s == on[a]
  IN  /\ At(a, "start")
      /\ mx = Nobody
      /\ joined' = joined \ {s}
      /\ \/ /\ status[s] \in {Passive, Terminated}
            /\ Spawn(a, s)
            /\ UNCHANGED <<chan, woken, failed>>
         \/ /\ status[s] \in {Waiting, Ended}
            /\ IF IsEmpty(s)
               THEN Put(s, "RESTART") /\ Goto(a, "awaitStarted") /\ UNCHANGED failed
               ELSE failed' = "put" /\ UNCHANGED <<chan, woken, pc>>
         \/ /\ status[s] = Enabled
            /\ failed' = "unreachable"
            /\ UNCHANGED <<chan, woken, pc>>
      /\ UNCHANGED <<group, status, sem, locks, on, exc, mainVars>>

\* Mutant of TakeStarted: the tokens of the last execution stay in sem_end_.
TakeStartedUnreset(a) ==
  /\ At(a, "awaitStarted")
  /\ Woken(a)
  /\ Take(a)
  /\ mx' = a
  /\ Goto(a, "firstSignal")
  /\ UNCHANGED <<group, status, sem, joined, cmx, plock, on, exc, mainVars, failed>>

\* The started message has come: sem_end_ is set to zero, in place, whoever
\* may be waiting for it.
TakeStarted(a) ==
  LET s == on[a]
  IN  /\ At(a, "awaitStarted")
      /\ Woken(a)
      /\ Assert(chan[s] = "STARTED", "started",
           /\ Take(a)
           /\ mx' = a
           /\ sem' = [sem EXCEPT ![s] = 0]
           /\ Goto(a, "firstSignal")
           /\ UNCHANGED <<group, status, joined, cmx, plock, on, exc, mainVars>>)

FirstSignal(a) ==
  /\ At(a, "firstSignal")
  /\ sem' = [sem EXCEPT ![on[a]] = @ + 1]
  /\ mx' = Nobody
  /\ Goto(a, "transfer")
  /\ UNCHANGED <<group, status, chan, joined, cmx, plock, woken, on, exc, mainVars, failed>>

\* The new thread is let go, and the caller returns.
SendTransfer(a) ==
  LET s == on[a]
  IN  /\ At(a, "transfer")
      /\ mx = Nobody
      /\ Assert(status[s] = Waiting /\ IsEmpty(s), "transfer",
           /\ Put(s, "TRANSFER")
           /\ cmx' = Nobody
           /\ plock' = IF a = Main THEN plock ELSE Nobody
           /\ Goto(a, IF a = Main THEN "loading" ELSE "sut")
           /\ UNCHANGED <<group, status, sem, joined, mx, on, exc, mainVars>>)

-----------------------------------------------------------------------------
(* Coroutine::Run, in the thread itself. *)

\* SetStarted: the status is written before the mutex of the channel is taken.
SetStarted(t) ==
  /\ At(t, "entry")
  /\ Assert(status[t] < Terminated, "restarted",
       /\ status' = [status EXCEPT ![t] = Waiting]
       /\ Goto(t, "sendStarted")
       /\ UNCHANGED <<group, chan, sem, joined, locks, woken, on, exc, mainVars>>)

\* Transfer: the started message to its own channel, on which it then waits.
SendStarted(t) ==
  /\ At(t, "sendStarted")
  /\ mx = Nobody
  /\ Assert(IsEmpty(t), "put",
       /\ Put(t, "STARTED")
       /\ Goto(t, "awaitTransfer")
       /\ UNCHANGED <<group, status, sem, joined, locks, on, exc, mainVars>>)

\* HandleMessage: restart and terminate are thrown to Run's loop; a transfer
\* lets SetStarted return, and lets SetEnded return to the top of the loop.
Receive(t) ==
  /\ pc[t] \in {"awaitTransfer", "awaitEnd"}
  /\ Woken(t)
  /\ Assert(chan[t] \in Messages \ {"STARTED"}, "take",
       /\ Take(t)
       /\ Goto(t, CASE chan[t] = "TERMINATE" -> "leave"
                    [] chan[t] = "RESTART" -> "entry"
                    [] OTHER -> IF At(t, "awaitEnd") THEN "entry" ELSE "enable")
       /\ UNCHANGED <<group, status, sem, joined, locks, on, exc, mainVars>>)

\* The first transfer is over; the driver loads the test library.
Enable(t) ==
  /\ At(t, "enable")
  /\ status' = [status EXCEPT ![t] = Enabled]
  /\ loaded' = (loaded \/ t = Driver)
  /\ Goto(t, "sut")
  /\ UNCHANGED <<group, chan, sem, joined, locks, woken, on, exc, round, timedOut, execs, failed>>

\* The function under test returns, or throws.
ReturnOrRaise(t, raise) ==
  /\ At(t, "sut")
  /\ raise => Raises
  /\ exc' = IF raise /\ exc = "none" THEN "assertion" ELSE exc
  /\ Goto(t, "ending")
  /\ UNCHANGED <<group, status, chan, sem, joined, locks, woken, on, mainVars, failed>>

\* SetEnded, first half: the mutex stays held up to the wait.
SetEnded(t) ==
  /\ At(t, "ending")
  /\ mx = Nobody
  /\ mx' = t
  /\ status' = [status EXCEPT ![t] = Ended]
  /\ Goto(t, "secondSignal")
  /\ UNCHANGED <<group, chan, sem, joined, cmx, plock, woken, on, exc, mainVars, failed>>

SecondSignal(t) ==
  /\ At(t, "secondSignal")
  /\ sem' = [sem EXCEPT ![t] = @ + 1]
  /\ mx' = Nobody
  /\ Goto(t, "awaitEnd")
  /\ UNCHANGED <<group, status, chan, joined, cmx, plock, woken, on, exc, mainVars, failed>>

\* Run returns, and the pthread ends.
Terminate(t) ==
  /\ At(t, "leave")
  /\ status' = [status EXCEPT ![t] = Terminated]
  /\ Goto(t, "dead")
  /\ UNCHANGED <<group, chan, sem, joined, locks, woken, on, exc, mainVars, failed>>

-----------------------------------------------------------------------------
(* What the code under test does: pthread calls, or nothing any more. *)

CallCreate(t) ==
  /\ At(t, "sut")
  /\ t \in Creators
  /\ next + Cardinality({u \in Tids : pc[u] \in {"callCreate", "create"}}) < MaxThreads
  /\ Goto(t, "callCreate")
  /\ UNCHANGED <<group, status, chan, sem, joined, locks, woken, on, exc, mainVars, failed>>

\* A thread is joined once, as POSIX wants it, by a thread that knows it.
CallJoin(t, u) ==
  /\ At(t, "sut")
  /\ u \in (1..next) \ (joined \cup {t})
  /\ u # Driver
  /\ status[u] # Passive
  /\ joined' = joined \cup {u}
  /\ on' = [on EXCEPT ![t] = u]
  /\ Goto(t, "callJoin")
  /\ UNCHANGED <<group, status, chan, sem, locks, woken, exc, mainVars, failed>>

CallExit(t) ==
  /\ At(t, "sut")
  /\ Exits
  /\ Goto(t, "callExit")
  /\ UNCHANGED <<group, status, chan, sem, joined, locks, woken, on, exc, mainVars, failed>>

\* Mutant of Exit: the exception leaves pthread_exit with its lock held.
ExitLocked(t) ==
  /\ At(t, "callExit")
  /\ plock = Nobody
  /\ plock' = t
  /\ Goto(t, "ending")
  /\ UNCHANGED <<group, status, chan, sem, joined, mx, cmx, woken, on, exc, mainVars, failed>>

\* pthread_exit throws PTH_EXIT, which Run catches; the lock's scope is left.
Exit(t) ==
  /\ At(t, "callExit")
  /\ plock = Nobody
  /\ Goto(t, "ending")
  /\ UNCHANGED <<group, status, chan, sem, joined, locks, woken, on, exc, mainVars, failed>>

Hang(t) ==
  /\ At(t, "sut")
  /\ Hangs
  /\ Goto(t, "hung")
  /\ UNCHANGED <<group, status, chan, sem, joined, locks, woken, on, exc, mainVars, failed>>

-----------------------------------------------------------------------------
(* Coroutine::WaitForEnd, called by pthread_join and by main. *)

BeginWait(a) ==
  /\ At(a, "wait")
  /\ Assert(status[on[a]] \in Enabled..Ended, "waited",
       /\ Goto(a, "token1")
       /\ UNCHANGED <<group, status, chan, sem, joined, locks, woken, on, exc, mainVars>>)

\* A thread that will not end: it hangs; it joins, with the pthread lock held, one
\* that hangs or needs that lock; or it needs the lock of such a joiner.
Calls == {"callCreate", "callJoin", "callExit"}
Halted(t) ==
  \/ At(t, "hung")
  \/ pc[t] \in {"token1", "token2"} /\ pc[on[t]] \in Calls \cup {"hung"}
Stuck(t) ==
  \/ Halted(t)
  \/ pc[t] \in Calls /\ plock # Nobody /\ Halted(plock)

\* u has ended, and a pthread_join has one of its two tokens and waits for the
\* other.
Contended(u) ==
  status[u] = Ended /\ \E t \in Tids : on[t] = u /\ At(t, "token2")

\* Mutant of TakeToken: one token is enough.
TakeOneToken(a) ==
  /\ At(a, "token1")
  /\ sem[on[a]] > 0
  /\ Goto(a, "waited")
  /\ UNCHANGED <<group, status, chan, sem, joined, locks, woken, on, exc, mainVars, failed>>

\* The first token and the second, neither timed but the second of main.  Unless
\* waits are Slow, a joiner gets a token that main has put back before main comes
\* to it again, a turn of JoinAllThreads later.
TakeToken(a) ==
  /\ pc[a] \in {"token1", "token2"}
  /\ sem[on[a]] > 0
  /\ a = Main /\ round > 0 => Slow \/ ~Contended(on[a])
  /\ sem' = [sem EXCEPT ![on[a]] = @ - 1]
  /\ Goto(a, IF At(a, "token1") THEN "token2" ELSE "giveBack")
  /\ UNCHANGED <<group, status, chan, joined, locks, woken, on, exc, mainVars, failed>>

GiveBack(a) ==
  /\ At(a, "giveBack")
  /\ sem' = [sem EXCEPT ![on[a]] = @ + 2]
  /\ Goto(a, "waited")
  /\ UNCHANGED <<group, status, chan, joined, locks, woken, on, exc, mainVars, failed>>

\* WaitForEnd returns: pthread_join releases its lock, main goes on to the
\* next member.
EndWait(a) ==
  /\ At(a, "waited")
  /\ Assert(status[on[a]] = Ended, "ended",
       /\ IF a = Main
          THEN on' = [on EXCEPT ![a] = @ + 1] /\ Goto(a, "member") /\ UNCHANGED plock
          ELSE plock' = Nobody /\ Goto(a, "sut") /\ UNCHANGED on
       /\ UNCHANGED <<group, status, chan, sem, joined, mx, cmx, woken, exc, mainVars>>)

\* Mutant of WaitTimeout: the first token is not put back.
WaitTimeoutKeeping ==
  /\ At(Main, "token2")
  /\ ~RunUncontrolled
  /\ sem[on[Main]] = 0
  /\ Slow \/ Stuck(on[Main]) \/ Contended(on[Main])
  /\ timedOut' = timedOut + 1
  /\ on' = [on EXCEPT ![Main] = @ + 1]
  /\ Goto(Main, "member")
  /\ UNCHANGED <<group, status, chan, sem, joined, locks, woken, exc, loaded, round, execs, failed>>

\* The timed wait expires: the first token is put back.
WaitTimeout ==
  LET u == on[Main]
  IN  /\ At(Main, "token2")
      /\ ~RunUncontrolled
      /\ sem[u] = 0
      /\ Slow \/ Stuck(u) \/ Contended(u)
      /\ sem' = [sem EXCEPT ![u] = @ + 1]
      /\ timedOut' = timedOut + 1
      /\ on' = [on EXCEPT ![Main] = @ + 1]
      /\ Goto(Main, "member")
      /\ UNCHANGED <<group, status, chan, joined, locks, woken, exc, loaded, round, execs, failed>>

-----------------------------------------------------------------------------
(* Main: Scenario::Explore and RunOnce, as far as the group is concerned. *)

\* CoroutineGroup::Restart: the members stay, their order starts again.
RestartGroup == next' = 0 /\ UNCHANGED size

\* Scenario::Start.
Begin ==
  /\ At(Main, "begin")
  /\ execs < MaxExecutions
  /\ execs' = execs + 1
  /\ RestartGroup
  /\ exc' = "none"
  /\ Goto(Main, "create")
  /\ UNCHANGED <<status, chan, sem, joined, locks, woken, on, loaded, round, timedOut, failed>>

\* RunTestDriver returns when the driver has loaded the library.
DriverLoaded ==
  /\ At(Main, "loading")
  /\ loaded
  /\ loaded' = FALSE
  /\ Goto(Main, "script")
  /\ UNCHANGED <<group, status, chan, sem, joined, locks, woken, on, exc, round, timedOut, execs, failed>>

\* RunTestCase returns; the script has succeeded or has recorded a backtrack.
ScriptEnds(backtrack) ==
  /\ At(Main, "script")
  /\ exc' = IF backtrack /\ exc = "none" THEN "backtrack" ELSE exc
  /\ round' = -1
  /\ Goto(Main, "joinAll")
  /\ UNCHANGED <<group, status, chan, sem, joined, locks, woken, on, loaded, timedOut, execs, failed>>

\* Mutant of JoinAllThreads: any exception, a backtrack too, ends the waiting.
JoinUnlessException ==
  /\ At(Main, "joinAll")
  /\ IF exc # "none"
     THEN Goto(Main, "backtrack") /\ UNCHANGED <<round, timedOut, on>>
     ELSE /\ round' = round + 1
          /\ timedOut' = 0
          /\ on' = [on EXCEPT ![Main] = 1]
          /\ Goto(Main, IF round' = MaxTimeOuts THEN "backtrack" ELSE "member")
  /\ UNCHANGED <<group, status, chan, sem, joined, locks, woken, exc, loaded, execs, failed>>

\* One turn of JoinAllThreads.  The DeadlockException, an assertion violation,
\* is kept only when the end node has no exception yet.
JoinAllThreads ==
  /\ At(Main, "joinAll")
  /\ \/ /\ exc = "assertion"
        /\ Goto(Main, "backtrack")
        /\ UNCHANGED <<exc, round, timedOut, on>>
     \/ /\ exc # "assertion"
        /\ round + 1 = MaxTimeOuts
        /\ round' = round + 1
        /\ exc' = IF exc = "none" THEN "assertion" ELSE exc
        /\ Goto(Main, "backtrack")
        /\ UNCHANGED <<timedOut, on>>
     \/ /\ exc # "assertion"
        /\ round + 1 < MaxTimeOuts
        /\ round' = round + 1
        /\ timedOut' = 0
        /\ on' = [on EXCEPT ![Main] = 1]
        /\ Goto(Main, "member")
        /\ UNCHANGED exc
  /\ UNCHANGED <<group, status, chan, sem, joined, locks, woken, loaded, execs, failed>>

IsAllEnded == \A t \in 1..size : status[t] >= Ended

\* WaitForAllEnd: the members in their order, then IsAllEnded.
WaitForAllEnd ==
  LET i == on[Main]
      done == i > size
  IN  /\ At(Main, "member")
      /\ Assert(~done \/ timedOut > 0 \/ IsAllEnded, "allended",
           /\ on' = IF done \/ status[i] > Passive THEN on ELSE [on EXCEPT ![Main] = i + 1]
           /\ Goto(Main, CASE done /\ timedOut = 0 -> "backtrack"
                           [] done /\ timedOut > 0 -> "joinAll"
                           [] ~done /\ status[i] > Passive -> "wait"
                           [] OTHER -> "member")
           /\ UNCHANGED <<group, status, chan, sem, joined, locks, woken, exc, mainVars>>)

\* Explore ends the search on an assertion violation, or when the search tree
\* is covered; otherwise it runs the next execution.
Backtrack ==
  /\ At(Main, "backtrack")
  /\ \/ exc # "assertion" /\ execs < MaxExecutions /\ Goto(Main, "begin") /\ UNCHANGED on
     \/ on' = [on EXCEPT ![Main] = 1] /\ Goto(Main, "finish")
  /\ UNCHANGED <<group, status, chan, sem, joined, locks, woken, exc, mainVars, failed>>

-----------------------------------------------------------------------------
(* CoroutineGroup::Finish and Coroutine::Finish. *)

\* The status is read, and acted on later.
FinishMember ==
  LET i == on[Main]
  IN  /\ At(Main, "finish")
      /\ Assert(i > size \/ status[i] > Passive, "unstarted",
           /\ Goto(Main, CASE i > size -> "done"
                           [] i <= size /\ status[i] = Terminated -> "finished"
                           [] i <= size /\ status[i] \in {Ended, Waiting} -> "terminate"
                           [] OTHER -> "cancel")
           /\ UNCHANGED <<group, status, chan, sem, joined, locks, woken, on, exc, mainVars>>)

SendTerminate ==
  LET s == on[Main]
  IN  /\ At(Main, "terminate")
      /\ mx = Nobody
      /\ Assert(IsEmpty(s), "put",
           /\ Put(s, "TERMINATE")
           /\ Goto(Main, "joinPthread")
           /\ UNCHANGED <<group, status, sem, joined, locks, on, exc, mainVars>>)

\* Thread::Cancel: the stack is unwound and its ScopeMutexes are released; in
\* a condition variable wait the Mutex has no owner, and Unlock's assert fails.
Cancel ==
  LET s == on[Main]
      Free(m) == IF m = s THEN Nobody ELSE m
  IN  /\ At(Main, "cancel")
      /\ Assert(pc[s] \notin InWait, "unwind",
           /\ mx' = Free(mx) /\ cmx' = Free(cmx) /\ plock' = Free(plock)
           /\ pc' = [pc EXCEPT ![Main] = "joinPthread", ![s] = "dead"]
           /\ UNCHANGED <<group, status, chan, sem, joined, woken, on, exc, mainVars>>)

\* Thread::Join returns, and the member is done.
JoinPthread ==
  /\ \/ At(Main, "finished")
     \/ At(Main, "joinPthread") /\ At(on[Main], "dead")
  /\ status' = [status EXCEPT ![on[Main]] = Terminated]
  /\ on' = [on EXCEPT ![Main] = @ + 1]
  /\ Goto(Main, "finish")
  /\ UNCHANGED <<group, chan, sem, joined, locks, woken, exc, mainVars, failed>>

-----------------------------------------------------------------------------
\* The steps of creating a thread and of waiting for one, main's or a member's.
CreateStep(a) ==
  \/ ChooseMember(a) \/ StartThread(a) \/ TakeStarted(a) \/ FirstSignal(a) \/ SendTransfer(a)

WaitStep(a) ==
  \/ BeginWait(a) \/ TakeToken(a) \/ GiveBack(a) \/ EndWait(a)

\* The code under test between pthread calls.
SutStep(t) ==
  \/ \E raise \in BOOLEAN : ReturnOrRaise(t, raise)
  \/ CallCreate(t) \/ CallExit(t) \/ Hang(t)
  \/ \E u \in Tids : CallJoin(t, u)

ThreadStep(t) ==
  \/ CreateStep(t) \/ WaitStep(t) \/ SutStep(t)
  \/ LockPthread(t, "callCreate", "create") \/ LockPthread(t, "callJoin", "wait")
  \/ Exit(t)
  \/ SetStarted(t) \/ SendStarted(t) \/ Receive(t) \/ Enable(t)
  \/ SetEnded(t) \/ SecondSignal(t) \/ Terminate(t)

MainStep ==
  \/ CreateStep(Main) \/ WaitStep(Main) \/ WaitTimeout
  \/ Begin \/ DriverLoaded \/ JoinAllThreads \/ WaitForAllEnd \/ Backtrack
  \/ \E backtrack \in BOOLEAN : ScriptEnds(backtrack)
  \/ FinishMember \/ SendTerminate \/ Cancel \/ JoinPthread

\* A failed safe_assert aborts the process.
Next ==
  /\ failed = "none"
  /\ MainStep \/ \E t \in Tids : ThreadStep(t)

Spec == Init /\ [][Next]_vars

\* Runnable threads are scheduled, and timers expire.
Fairness ==
  /\ WF_vars(failed = "none" /\ MainStep)
  /\ \A t \in Tids : WF_vars(failed = "none" /\ ThreadStep(t))

FairSpec == Spec /\ Fairness

-----------------------------------------------------------------------------
Finishing == pc[Main] \in {"finish", "terminate", "cancel", "joinPthread", "finished", "done"}

MainPlaces == {"begin", "loading", "script", "joinAll", "member", "backtrack", "finish",
               "terminate", "cancel", "joinPthread", "finished", "done"}
CreatePlaces == {"create", "start", "awaitStarted", "firstSignal", "transfer"}
WaitPlaces == {"wait", "token1", "token2", "giveBack", "waited"}
ThreadPlaces == {"absent", "entry", "sendStarted", "awaitTransfer", "enable", "sut",
                 "callCreate", "callJoin", "callExit", "ending", "secondSignal",
                 "awaitEnd", "leave", "dead", "hung"}

\* The type invariant; sem_end_ never counts more than its two tokens.
TypeOK ==
  /\ size \in 0..MaxThreads /\ next \in 0..size
  /\ status \in [Tids -> Statuses]
  /\ chan \in [Tids -> Messages \cup {"none"}]
  /\ sem \in [Tids -> 0..2]
  /\ joined \subseteq Tids
  /\ {mx, cmx, plock} \subseteq Actors \cup {Nobody}
  /\ woken \subseteq Actors
  /\ pc \in [Actors -> MainPlaces \cup CreatePlaces \cup WaitPlaces \cup ThreadPlaces]
  /\ on \in [Actors -> 1..(MaxThreads + 1)]
  /\ loaded \in BOOLEAN
  /\ exc \in {"none", "backtrack", "assertion"}
  /\ round \in -1..MaxTimeOuts /\ timedOut \in 0..MaxThreads /\ execs \in 0..MaxExecutions
  /\ failed \in {"none", "member", "put", "take", "unreachable", "started", "transfer",
                 "restarted", "waited", "ended", "allended", "unstarted", "unwind"}

\* Starting, restarting, ending and joining threads never trips a safe_assert of
\* Coroutine, Channel or CoroutineGroup: no message is put into a full channel or
\* taken from an empty one, every wait gets the message it is for, and a thread
\* that has been waited for has ended.  Two exceptions are known: unreachable() in
\* Start, when a thread stuck in an earlier execution is created again, and
\* a thread that JoinAllThreads has given up on, or left running because of an
\* assertion violation, when Finish acts on the status it has read earlier.
NoAbort ==
  \/ failed = "none"
  \/ failed = "unreachable" /\ \E t \in Tids : Stuck(t)
  \/ Finishing /\ (exc = "assertion" \/ round = MaxTimeOuts)

\* The tokens of s that its waiters have in hand.
Held(s) ==
  LET At2(l) == Cardinality({a \in Actors : on[a] = s /\ At(a, l)})
  IN  At2("token2") + 2 * At2("giveBack")

Starting(s) ==
  \E a \in Actors : on[a] = s /\ pc[a] \in {"start", "awaitStarted", "firstSignal"}

\* sem_end_ and the waiters together have one token of a started thread and two of
\* one that has ended, over restarts, joins and timeouts; and nobody has a token, or
\* waits for one, of a thread whose semaphore Start is about to set to zero.
EndTokens ==
  ~Finishing => \A s \in 1..size :
    IF Starting(s)
    THEN Held(s) = 0
    ELSE sem[s] + Held(s) = IF status[s] = Ended /\ ~At(s, "secondSignal") THEN 2 ELSE 1

\* Executions do not overlap: when Explore begins an execution, every member of
\* the group has ended and waits for its restart message on an empty channel,
\* unless it is stuck in the code under test.
Isolated ==
  At(Main, "begin") => \A t \in 1..size :
    Stuck(t) \/ (At(t, "awaitEnd") /\ status[t] = Ended /\ IsEmpty(t))

\* A message is never missed: one that lies in a channel has a waiter that has been
\* signalled, except what Finish sends to a thread that it finds in between.
MessageHasReader ==
  ~Finishing => \A s \in Tids :
    ~IsEmpty(s) => \E a \in woken : pc[a] \in InWait /\ ChannelOf(a) = s

\* A creation that has begun ends: Start gets its started message and releases the
\* create mutex, whichever threads hang, unless an assertion violation ends the
\* search meanwhile or a stuck thread was to be restarted.
CreateReturns ==
  cmx # Nobody ~> (cmx = Nobody \/ exc = "assertion" \/ failed = "unreachable")

\* The search comes to its end with all threads terminated, unless a thread under
\* test fails an assertion, hangs, or gets into a deadlock over the pthread lock.
SearchEnds ==
  <>(At(Main, "done") \/ exc = "assertion" \/ \E t \in Tids : Stuck(t))

\* JoinAllThreads returns, whatever the threads under test do: a wait for a thread
\* ends when the thread does or at its "time-out", and after
\* MaxTimeOutsBeforeDeadlock turns main is "exiting without waiting threads".
JoinAllReturns == At(Main, "joinAll") ~> At(Main, "backtrack")

-----------------------------------------------------------------------------
(* The inductive invariant behind TypeOK, NoAbort, EndTokens, Isolated and  *)
(* MessageHasReader, when no timed wait expires early (~Slow).              *)

\* The places between choosing a member and letting it go, where the create mutex
\* is held; of these, the ones before the first token.
StartPlaces == CreatePlaces \ {"create"}
ResetPlaces == {"start", "awaitStarted", "firstSignal"}

\* The places of a thread that has been let go and has not given its second token.
Running ==
  {"enable", "sut", "hung", "ending", "secondSignal"} \cup Calls \cup CreatePlaces \cup WaitPlaces

\* The places of main at which it has a member in hand, when it waits and when it
\* finishes the group.
MemberPlaces == WaitPlaces \cup {"member"}
FinishPlaces == {"terminate", "cancel", "joinPthread", "finished"}

\* What main's place says about the loops it is in.
LoopInv ==
  /\ pc[Main] \in MemberPlaces \cup {"finish"} => on[Main] <= size + 1
  /\ pc[Main] \in WaitPlaces \cup FinishPlaces => on[Main] <= size /\ status[on[Main]] # Passive
  /\ pc[Main] \in StartPlaces => on[Main] = Driver
  /\ pc[Main] = "create" => next = 0
  /\ pc[Main] \notin {"begin", "create"} => next > 0
  /\ pc[Main] \in MemberPlaces => timedOut < on[Main] /\ round \in 0..(MaxTimeOuts - 1)
  /\ pc[Main] = "joinAll" => round < MaxTimeOuts
  /\ pc[Main] = "finished" => status[on[Main]] = Terminated

GroupType == size \in 0..MaxThreads /\ next \in 0..size
ThreadType ==
  /\ status \in [Tids -> Statuses]
  /\ chan \in [Tids -> Messages \cup {"none"}]
  /\ sem \in [Tids -> Nat]
LockType ==
  /\ mx \in Actors \cup {Nobody} /\ cmx \in Actors \cup {Nobody} /\ plock \in Tids \cup {Nobody}
  /\ woken \subseteq Actors
PlaceType ==
  /\ pc \in [Actors -> MainPlaces \cup CreatePlaces \cup WaitPlaces \cup ThreadPlaces]
  /\ pc[Main] \in MainPlaces \cup CreatePlaces \cup WaitPlaces
  /\ \A t \in Tids : pc[t] \in ThreadPlaces \cup CreatePlaces \cup WaitPlaces
OnType == on \in [Actors -> 1..(MaxThreads + 1)] /\ \A t \in Tids : on[t] \in Tids
MainType ==
  /\ loaded \in BOOLEAN
  /\ exc \in {"none", "backtrack", "assertion"}
  /\ round \in -1..MaxTimeOuts /\ timedOut \in 0..MaxThreads /\ execs \in 0..MaxExecutions
TypeInv == GroupType /\ ThreadType /\ LockType /\ PlaceType /\ OnType /\ MainType

FlagInv ==
  /\ joined \subseteq Tids
  /\ failed \in {"none", "member", "put", "take", "unreachable", "started", "transfer",
                 "restarted", "waited", "ended", "allended", "unstarted", "unwind"}

\* Who holds which lock is a matter of where he is.
OwnerInv ==
  /\ \A a \in Actors : mx = a <=> pc[a] \in {"firstSignal", "secondSignal"}
  /\ \A a \in Actors : cmx = a <=> pc[a] \in StartPlaces
  /\ \A t \in Tids : plock = t <=> pc[t] \in CreatePlaces \cup WaitPlaces
  /\ cmx # Nobody => on[cmx] = next
  /\ \A a \in woken : pc[a] \in InWait

\* The callers of pthread_create have a place in the group.
Callers == {u \in Tids : pc[u] \in {"callCreate", "create"}}
RoomInv ==
  /\ Cardinality(Callers) < MaxThreads
  /\ next + Cardinality(Callers) <= MaxThreads

\* The thread that the holder of the create mutex starts, and where he is.
CreatedAt(s, places) == cmx # Nobody /\ on[cmx] = s /\ pc[cmx] \in places

\* The status of a thread and the message in its channel against its place.
StatusOf(t) ==
  /\ status[t] = Passive => pc[t] \in {"absent", "entry"} /\ IsEmpty(t)
  /\ status[t] = Terminated => pc[t] \in {"dead", "entry"}
  /\ pc[t] = "absent" => status[t] = Passive
  /\ pc[t] \in {"sendStarted", "awaitTransfer", "enable"} => status[t] = Waiting
  /\ pc[t] \in Running \ {"enable", "secondSignal"} => status[t] = Enabled
  /\ pc[t] \in {"secondSignal", "awaitEnd"} => status[t] = Ended
  /\ chan[t] = "STARTED" => pc[t] = "awaitTransfer"
  /\ chan[t] = "TRANSFER" =>
       pc[t] \in {"awaitTransfer", "leave", "dead"} \/ status[t] = Terminated
  /\ CreatedAt(t, {"firstSignal", "transfer"}) =>
       /\ pc[t] \in {"awaitTransfer", "leave", "dead"}
       /\ chan[t] \in {"none", "TERMINATE"}
  /\ pc[t] \in WaitPlaces \cup {"callJoin"} => on[t] # Driver /\ status[on[t]] # Passive
StatusInv == \A t \in Tids : StatusOf(t)

\* The tokens of s: those in sem_end_ and those that main and the one pthread_join
\* under way have in hand.
Share(a, s) ==
  IF on[a] # s THEN 0
  ELSE IF pc[a] = "token2" THEN 1
  ELSE IF pc[a] = "giveBack" THEN 2 ELSE 0
JoinShare(s) == IF plock = Nobody THEN 0 ELSE Share(plock, s)
Tokens(s) == sem[s] + Share(Main, s) + JoinShare(s)

\* There are at most two tokens, at most one as long as the second is to come,
\* and none when the first is.
TokensOf(s) ==
  /\ Tokens(s) <= 2
  /\ (pc[s] \in Running \/ chan[s] = "TRANSFER" \/ CreatedAt(s, {"transfer"})) => Tokens(s) <= 1
  /\ CreatedAt(s, {"firstSignal"}) => Tokens(s) = 0
TokenInv == \A s \in Tids : TokensOf(s)

\* A thread that has ended and waits for its restart; and one that the next
\* execution finds like that, or stuck.
Done(t) == At(t, "awaitEnd") /\ IsEmpty(t) /\ t \notin woken
Settled(t) == Stuck(t) \/ Done(t)

\* Before Finish: each message is on its way to the one that waits for it.
ChannelOK(t) ==
  /\ pc[t] \notin {"leave", "dead"}
  /\ t > size => pc[t] = "absent"
  /\ pc[t] = "absent" => t > size \/ CreatedAt(t, {"start"})
  /\ pc[t] \in {"entry", "sendStarted"} => CreatedAt(t, {"awaitStarted"}) /\ cmx \notin woken
  /\ pc[t] \notin {"awaitTransfer", "awaitEnd"} => IsEmpty(t)
  /\ pc[t] = "awaitTransfer" =>
       \/ chan[t] = "STARTED" /\ t \notin woken /\ CreatedAt(t, {"awaitStarted"}) /\ cmx \in woken
       \/ IsEmpty(t) /\ t \notin woken /\ CreatedAt(t, {"firstSignal", "transfer"})
       \/ chan[t] = "TRANSFER" /\ t \in woken
  /\ pc[t] = "awaitEnd" =>
       \/ IsEmpty(t) /\ t \notin woken
       \/ chan[t] = "RESTART" /\ t \in woken /\ CreatedAt(t, {"awaitStarted"}) /\ cmx \notin woken
  /\ CreatedAt(t, {"awaitStarted"}) =>
       \/ pc[t] \in {"entry", "sendStarted"}
       \/ pc[t] = "awaitTransfer" /\ chan[t] = "STARTED"
       \/ pc[t] = "awaitEnd" /\ chan[t] = "RESTART"
  /\ CreatedAt(t, {"firstSignal", "transfer"}) => pc[t] = "awaitTransfer" /\ IsEmpty(t)
ChannelInv == \A t \in Tids : ChannelOK(t)

\* Before Finish: the tokens of a thread that is not being started are exactly the
\* ones it has given.
ExactOf(s) ==
  s <= size => CreatedAt(s, ResetPlaces) \/ Tokens(s) = IF pc[s] = "awaitEnd" THEN 2 ELSE 1
ExactInv == \A s \in Tids : ExactOf(s)

\* Before Finish: who is settled.
Waited ==
  \/ pc[Main] = "begin"
  \/ pc[Main] = "joinAll" /\ round >= 0
  \/ pc[Main] = "backtrack" /\ exc # "assertion"
AllEnded == pc[Main] = "backtrack" /\ exc # "assertion" /\ round # MaxTimeOuts

NextSettled == \A t \in Tids : next < t /\ t <= size => Settled(t)
StartSettled == \A t \in Tids : CreatedAt(t, {"start"}) => Settled(t) \/ pc[t] = "absent"
WaitedSettled == Waited => \A t \in Tids : t <= size => Settled(t)
EndedDone == AllEnded => \A t \in Tids : t <= size => Done(t)
PassedSettled ==
  pc[Main] \in MemberPlaces =>
    \A t \in Tids : t < on[Main] => Settled(t) /\ (timedOut = 0 => Done(t))
JoinedDone == \A a \in Actors : pc[a] \in {"giveBack", "waited"} => Done(on[a])
OrderInv ==
  NextSettled /\ StartSettled /\ WaitedSettled /\ EndedDone /\ PassedSettled /\ JoinedDone

\* Finish, when all threads have ended.
CleanInv ==
  /\ pc[Main] \notin {"cancel", "finished"}
  /\ \A t \in Tids :
       /\ t > size => pc[t] = "absent"
       /\ t < on[Main] /\ t <= size => pc[t] = "dead" /\ status[t] = Terminated
       /\ on[Main] < t /\ t <= size => Done(t)
       /\ t = on[Main] /\ t <= size =>
            \/ Done(t) /\ pc[Main] \in {"finish", "terminate"}
            \/ /\ pc[Main] = "joinPthread"
               /\ \/ pc[t] = "awaitEnd" /\ chan[t] = "TERMINATE" /\ t \in woken
                  \/ pc[t] \in {"leave", "dead"}

\* Before Finish: no thread has terminated.
AliveInv == \A t \in Tids : status[t] # Terminated

LiveInv == ChannelInv /\ ExactInv /\ OrderInv /\ AliveInv

BaseInv ==
  /\ TypeInv /\ LoopInv /\ OwnerInv /\ RoomInv /\ StatusInv /\ TokenInv
  /\ ~Finishing => LiveInv
  /\ Finishing /\ exc # "assertion" /\ round # MaxTimeOuts => CleanInv

GroupInv == BaseInv /\ FlagInv /\ NoAbort

=============================================================================
