------------------------ MODULE CoroutineGroupProofs ------------------------
(***************************************************************************)
(* Theorems about CoroutineGroup: its types, the assertions, the tokens of *)
(* sem_end_, the isolation of executions and the readers of messages.      *)
(*                                                                         *)
(* All follow from GroupInv, which is shown one part at a time over        *)
(* Effect, the steps whose assertion holds; where one fails, nothing that  *)
(* the invariant speaks of changes.  What a creation, a wait or a new      *)
(* execution relies on is that a thread which is stuck, or has ended,      *)
(* stays so until it is started again (SettledStays).                      *)
(*                                                                         *)
(* The hypothesis ~Slow is that no timed wait of main expires although it  *)
(* would succeed.                                                          *)
(***************************************************************************)
EXTENDS CoroutineGroup, FiniteSetTheorems, TLAPS

USE DEF group, locks, mainVars, rest, vars, At, Goto, IsEmpty
USE DEF Passive, Enabled, Waiting, Ended, Terminated

-----------------------------------------------------------------------------
\* The steps whose assertion holds.  Where it fails, nothing changes but failed,
\* and joined in StartThread.

Chooses(a) ==
  /\ pc[a] = "create" /\ cmx = Nobody
  /\ cmx' = a /\ next' = next + 1
  /\ size' = (IF next < size THEN size ELSE next + 1)
  /\ on' = [on EXCEPT ![a] = next + 1]
  /\ pc' = [pc EXCEPT ![a] = "start"]
  /\ UNCHANGED <<status, chan, sem, mx, plock, woken, exc, mainVars>>

Spawns(a) ==
  /\ pc[a] = "start" /\ mx = Nobody
  /\ status[on[a]] \in {Passive, Terminated}
  /\ pc' = [pc EXCEPT ![a] = "awaitStarted", ![on[a]] = "entry"]
  /\ UNCHANGED <<group, status, chan, sem, locks, woken, on, exc, mainVars>>

Restarts(a) ==
  /\ pc[a] = "start" /\ mx = Nobody
  /\ status[on[a]] \in {Waiting, Ended} /\ chan[on[a]] = "none"
  /\ Put(on[a], "RESTART")
  /\ pc' = [pc EXCEPT ![a] = "awaitStarted"]
  /\ UNCHANGED <<group, status, sem, locks, on, exc, mainVars>>

TakesStarted(a) ==
  /\ pc[a] = "awaitStarted" /\ a \in woken /\ mx = Nobody
  /\ chan[on[a]] = "STARTED"
  /\ woken' = woken \ {a}
  /\ chan' = [chan EXCEPT ![on[a]] = "none"]
  /\ mx' = a
  /\ sem' = [sem EXCEPT ![on[a]] = 0]
  /\ pc' = [pc EXCEPT ![a] = "firstSignal"]
  /\ UNCHANGED <<group, status, cmx, plock, on, exc, mainVars>>

SendsTransfer(a) ==
  /\ pc[a] = "transfer" /\ mx = Nobody
  /\ status[on[a]] = Waiting /\ chan[on[a]] = "none"
  /\ Put(on[a], "TRANSFER")
  /\ cmx' = Nobody
  /\ plock' = (IF a = Main THEN plock ELSE Nobody)
  /\ pc' = [pc EXCEPT ![a] = IF a = Main THEN "loading" ELSE "sut"]
  /\ UNCHANGED <<group, status, sem, mx, on, exc, mainVars>>

BeginsWait(a) ==
  /\ pc[a] = "wait"
  /\ pc' = [pc EXCEPT ![a] = "token1"]
  /\ UNCHANGED <<group, status, chan, sem, locks, woken, on, exc, mainVars>>

MainPasses ==
  /\ pc[Main] = "waited" /\ status[on[Main]] = Ended
  /\ on' = [on EXCEPT ![Main] = @ + 1]
  /\ pc' = [pc EXCEPT ![Main] = "member"]
  /\ UNCHANGED <<group, status, chan, sem, locks, woken, exc, mainVars>>

JoinReturns(t) ==
  /\ pc[t] = "waited" /\ status[on[t]] = Ended
  /\ plock' = Nobody
  /\ pc' = [pc EXCEPT ![t] = "sut"]
  /\ UNCHANGED <<group, status, chan, sem, mx, cmx, woken, on, exc, mainVars>>

\* The code under test goes on without a step of the group.
SutMoves(t) ==
  /\ \/ pc[t] = "sut" /\ pc' = [pc EXCEPT ![t] = "ending"]
     \/ pc[t] = "sut" /\ pc' = [pc EXCEPT ![t] = "callExit"]
     \/ pc[t] = "sut" /\ pc' = [pc EXCEPT ![t] = "hung"]
     \/ pc[t] = "callExit" /\ plock = Nobody /\ pc' = [pc EXCEPT ![t] = "ending"]
  /\ exc' = exc \/ (exc' = "assertion" /\ pc[t] = "sut")
  /\ UNCHANGED <<group, status, chan, sem, locks, woken, on, mainVars>>

Joins(t, u) ==
  /\ pc[t] = "sut"
  /\ u \in Tids /\ u # Driver /\ status[u] # Passive
  /\ on' = [on EXCEPT ![t] = u]
  /\ pc' = [pc EXCEPT ![t] = "callJoin"]
  /\ UNCHANGED <<group, status, chan, sem, locks, woken, exc, mainVars>>

SetsStarted(t) ==
  /\ pc[t] = "entry" /\ status[t] # Terminated
  /\ status' = [status EXCEPT ![t] = Waiting]
  /\ pc' = [pc EXCEPT ![t] = "sendStarted"]
  /\ UNCHANGED <<group, chan, sem, locks, woken, on, exc, mainVars>>

SendsStarted(t) ==
  /\ pc[t] = "sendStarted" /\ mx = Nobody /\ chan[t] = "none"
  /\ Put(t, "STARTED")
  /\ pc' = [pc EXCEPT ![t] = "awaitTransfer"]
  /\ UNCHANGED <<group, status, sem, locks, on, exc, mainVars>>

Receives(t) ==
  /\ pc[t] \in {"awaitTransfer", "awaitEnd"} /\ t \in woken /\ mx = Nobody
  /\ woken' = woken \ {t}
  /\ chan' = [chan EXCEPT ![t] = "none"]
  /\ \/ chan[t] = "TERMINATE" /\ pc' = [pc EXCEPT ![t] = "leave"]
     \/ chan[t] = "RESTART" /\ pc' = [pc EXCEPT ![t] = "entry"]
     \/ chan[t] = "TRANSFER" /\ pc[t] = "awaitEnd" /\ pc' = [pc EXCEPT ![t] = "entry"]
     \/ chan[t] = "TRANSFER" /\ pc[t] = "awaitTransfer" /\ pc' = [pc EXCEPT ![t] = "enable"]
  /\ UNCHANGED <<group, status, sem, locks, on, exc, mainVars>>

LooksAtMember ==
  /\ pc[Main] = "member"
  /\ \/ /\ on[Main] > size /\ timedOut = 0 /\ IsAllEnded
        /\ pc' = [pc EXCEPT ![Main] = "backtrack"] /\ on' = on
     \/ /\ on[Main] > size /\ timedOut # 0
        /\ pc' = [pc EXCEPT ![Main] = "joinAll"] /\ on' = on
     \/ /\ on[Main] <= size /\ status[on[Main]] # Passive
        /\ pc' = [pc EXCEPT ![Main] = "wait"] /\ on' = on
     \/ /\ on[Main] <= size /\ status[on[Main]] = Passive
        /\ pc' = pc /\ on' = [on EXCEPT ![Main] = @ + 1]
  /\ UNCHANGED <<group, status, chan, sem, locks, woken, exc, mainVars>>

FinishesMember ==
  /\ pc[Main] = "finish"
  /\ \/ on[Main] > size /\ pc' = [pc EXCEPT ![Main] = "done"]
     \/ on[Main] <= size /\ status[on[Main]] = Terminated
          /\ pc' = [pc EXCEPT ![Main] = "finished"]
     \/ on[Main] <= size /\ status[on[Main]] \in {Ended, Waiting}
          /\ pc' = [pc EXCEPT ![Main] = "terminate"]
     \/ on[Main] <= size /\ status[on[Main]] = Enabled
          /\ pc' = [pc EXCEPT ![Main] = "cancel"]
  /\ UNCHANGED <<group, status, chan, sem, locks, woken, on, exc, mainVars>>

SendsTerminate ==
  /\ pc[Main] = "terminate" /\ mx = Nobody /\ chan[on[Main]] = "none"
  /\ Put(on[Main], "TERMINATE")
  /\ pc' = [pc EXCEPT ![Main] = "joinPthread"]
  /\ UNCHANGED <<group, status, sem, locks, on, exc, mainVars>>

Cancels ==
  /\ pc[Main] = "cancel" /\ pc[on[Main]] \notin InWait
  /\ mx' = (IF mx = on[Main] THEN Nobody ELSE mx)
  /\ cmx' = (IF cmx = on[Main] THEN Nobody ELSE cmx)
  /\ plock' = (IF plock = on[Main] THEN Nobody ELSE plock)
  /\ pc' = [pc EXCEPT ![Main] = "joinPthread", ![on[Main]] = "dead"]
  /\ UNCHANGED <<group, status, chan, sem, woken, on, exc, mainVars>>

Effect ==
  \/ \E a \in Actors :
       \/ Chooses(a) \/ Spawns(a) \/ Restarts(a) \/ TakesStarted(a) \/ FirstSignal(a)
       \/ SendsTransfer(a) \/ BeginsWait(a) \/ TakeToken(a) \/ GiveBack(a)
  \/ \E t \in Tids :
       \/ JoinReturns(t)
       \/ LockPthread(t, "callCreate", "create") \/ LockPthread(t, "callJoin", "wait")
       \/ SutMoves(t) \/ CallCreate(t) \/ SetsStarted(t) \/ SendsStarted(t) \/ Receives(t)
       \/ Enable(t) \/ SetEnded(t) \/ SecondSignal(t) \/ Terminate(t)
       \/ \E u \in Tids : Joins(t, u)
  \/ MainPasses \/ WaitTimeout \/ Begin \/ DriverLoaded
  \/ \E b \in BOOLEAN : ScriptEnds(b)
  \/ JoinAllThreads \/ LooksAtMember \/ Backtrack
  \/ FinishesMember \/ SendsTerminate \/ Cancels \/ JoinPthread

\* What the invariant speaks of: all but joined and failed.
Kept == UNCHANGED <<group, status, chan, sem, locks, woken, pc, on, exc, mainVars>>

\* The actors are main and the threads, main is no thread, and nobody is neither.
LEMMA ActorFacts ==
  /\ Main \in Actors /\ Main \notin Tids /\ Nobody \notin Actors /\ Nobody \notin Tids
  /\ Nobody # Main
  /\ Tids \subseteq Actors /\ Actors = Tids \cup {Main}
  /\ Driver \in Tids /\ Actors \subseteq Int /\ Tids \subseteq Nat
  /\ MaxThreads \in Nat \ {0} /\ MaxTimeOuts \in Nat \ {0} /\ MaxExecutions \in Nat \ {0}
BY GroupAssumption DEF Main, Actors, Tids, Nobody, Driver

\* A step is a step whose assertion holds, or changes nothing the invariant speaks of.
LEMMA StepEffect ==
  ASSUME TypeInv, Next
  PROVE  Effect \/ Kept
<1>t. /\ status \in [Tids -> Statuses]
           /\ pc \in [Actors -> MainPlaces \cup CreatePlaces \cup WaitPlaces \cup ThreadPlaces]
      /\ on \in [Actors -> 1..(MaxThreads + 1)] /\ \A t \in Tids : on[t] \in Tids
      /\ size \in 0..MaxThreads /\ next \in 0..size /\ timedOut \in 0..MaxThreads
      /\ chan \in [Tids -> Messages \cup {"none"}]
  BY DEF TypeInv, GroupType, ThreadType, PlaceType, OnType, MainType
<1>s. \A s : s \in Tids => status[s] \in {1, 2, 3, 5, 6}
  BY <1>t DEF Statuses
<1>1. ASSUME NEW a \in Actors, ChooseMember(a) PROVE Chooses(a) \/ Kept
  BY <1>1 DEF ChooseMember, Assert, Chooses, Kept, Recreated
<1>2. ASSUME NEW a \in Actors, StartThread(a) PROVE Spawns(a) \/ Restarts(a) \/ Kept
  BY <1>2 DEF StartThread, Spawns, Restarts, Spawn, Kept
<1>3. ASSUME NEW a \in Actors, TakeStarted(a) PROVE TakesStarted(a) \/ Kept
  BY <1>3 DEF TakeStarted, TakesStarted, Woken, Take, ChannelOf, Assert, Kept
<1>4. ASSUME NEW a \in Actors, SendTransfer(a) PROVE SendsTransfer(a) \/ Kept
  BY <1>4 DEF SendTransfer, SendsTransfer, Assert, Kept
<1>5. ASSUME NEW a \in Actors, BeginWait(a) PROVE BeginsWait(a) \/ Kept
  BY <1>5 DEF BeginWait, BeginsWait, Assert, Kept
<1>6. ASSUME EndWait(Main) PROVE MainPasses \/ Kept
  BY <1>6 DEF EndWait, MainPasses, Assert, Kept
<1>7. ASSUME NEW t \in Tids, EndWait(t) PROVE JoinReturns(t) \/ Kept
  BY <1>7, ActorFacts DEF EndWait, JoinReturns, Assert, Kept
<1>8. ASSUME NEW t \in Tids, SutStep(t)
      PROVE  SutMoves(t) \/ CallCreate(t) \/ \E u \in Tids : Joins(t, u)
  <2>1. ASSUME NEW raise \in BOOLEAN, ReturnOrRaise(t, raise) PROVE SutMoves(t)
    BY <2>1 DEF ReturnOrRaise, SutMoves
  <2>2. CallExit(t) \/ Hang(t) => SutMoves(t)
    BY DEF CallExit, Hang, SutMoves
  <2>3. ASSUME NEW u \in Tids, CallJoin(t, u) PROVE Joins(t, u)
    BY <2>3 DEF CallJoin, Joins
  <2>4. QED
    BY <1>8, <2>1, <2>2, <2>3 DEF SutStep
<1>9. ASSUME NEW t \in Tids, Exit(t) PROVE SutMoves(t)
  BY <1>9 DEF Exit, SutMoves
<1>10. ASSUME NEW t \in Tids, SetStarted(t) PROVE SetsStarted(t) \/ Kept
  BY <1>10, <1>s DEF SetStarted, SetsStarted, Assert, Kept
<1>11. ASSUME NEW t \in Tids, SendStarted(t) PROVE SendsStarted(t) \/ Kept
  BY <1>11 DEF SendStarted, SendsStarted, Assert, Kept
<1>12. ASSUME NEW t \in Tids, Receive(t) PROVE Receives(t) \/ Kept
  <2>1. ChannelOf(t) = t
    BY <1>12 DEF Receive, ChannelOf
  <2>2. QED
    BY <1>12, <2>1 DEF Receive, Receives, Woken, Take, Assert, Kept, Messages
<1>13. ASSUME WaitForAllEnd PROVE LooksAtMember \/ Kept
  <2>1. on[Main] \in Nat /\ (on[Main] <= size => on[Main] \in Tids)
    BY <1>t, ActorFacts DEF Tids
  <2>2. on[Main] <= size => status[on[Main]] \in {1, 2, 3, 5, 6}
    BY <2>1, <1>s
  <2>3. CASE on[Main] > size
    BY <1>13, <1>t, <2>1, <2>3 DEF WaitForAllEnd, LooksAtMember, Assert, Kept
  <2>4. CASE on[Main] <= size
    BY <1>13, <1>t, <2>1, <2>2, <2>4 DEF WaitForAllEnd, LooksAtMember, Assert, Kept
  <2>5. QED
    BY <2>1, <2>3, <2>4, <1>t
<1>14. ASSUME FinishMember PROVE FinishesMember \/ Kept
  <2>1. on[Main] \in Nat /\ (on[Main] <= size => on[Main] \in Tids)
    BY <1>t, ActorFacts DEF Tids
  <2>2. on[Main] <= size => status[on[Main]] \in {1, 2, 3, 5, 6}
    BY <2>1, <1>s
  <2>3. CASE on[Main] > size
    BY <1>14, <1>t, <2>1, <2>3 DEF FinishMember, FinishesMember, Assert, Kept
  <2>4. CASE on[Main] <= size
    BY <1>14, <1>t, <2>1, <2>2, <2>4 DEF FinishMember, FinishesMember, Assert, Kept
  <2>5. QED
    BY <2>1, <2>3, <2>4, <1>t
<1>15. ASSUME SendTerminate PROVE SendsTerminate \/ Kept
  BY <1>15 DEF SendTerminate, SendsTerminate, Assert, Kept
<1>16. ASSUME Cancel PROVE Cancels \/ Kept
  BY <1>16 DEF Cancel, Cancels, Assert, Kept
<1>17. ASSUME NEW a \in Actors, CreateStep(a) PROVE Effect \/ Kept
  BY <1>1, <1>2, <1>3, <1>4, <1>17 DEF CreateStep, Effect
<1>18. ASSUME NEW a \in Actors, WaitStep(a) PROVE Effect \/ Kept
  <2>1. CASE EndWait(a)
    BY <1>6, <1>7, <2>1, ActorFacts DEF Effect
  <2>2. QED
    BY <1>5, <1>18, <2>1 DEF WaitStep, Effect
<1>19. ASSUME NEW t \in Tids, ThreadStep(t) PROVE Effect \/ Kept
  BY <1>8, <1>9, <1>10, <1>11, <1>12, <1>17, <1>18, <1>19, ActorFacts DEF ThreadStep, Effect
<1>20. ASSUME MainStep PROVE Effect \/ Kept
  BY <1>13, <1>14, <1>15, <1>16, <1>17, <1>18, <1>20, ActorFacts DEF MainStep, Effect
<1>21. QED
  BY <1>19, <1>20 DEF Next

\* What the provers need to know of the type invariant's parts.
LEMMA Typed ==
  ASSUME TypeInv
  PROVE  /\ \A a \in Actors : on[a] \in Nat /\ on[a] \in 1..(MaxThreads + 1)
         /\ \A t \in Tids : on[t] \in Tids
         /\ \A s \in Tids : status[s] \in {1, 2, 3, 5, 6} /\ sem[s] \in Nat
         /\ size \in Nat /\ next \in Nat /\ next <= size /\ size <= MaxThreads
         /\ \A s \in Nat : 0 < s /\ s <= size => s \in Tids
<1>1. \A a \in Actors : on[a] \in Nat /\ on[a] \in 1..(MaxThreads + 1)
  BY ActorFacts DEF TypeInv, OnType
<1>2. \A s \in Tids : status[s] \in {1, 2, 3, 5, 6} /\ sem[s] \in Nat
  BY DEF TypeInv, ThreadType, Statuses
<1>3. size \in Nat /\ next \in Nat /\ next <= size /\ size <= MaxThreads
  BY ActorFacts DEF TypeInv, GroupType
<1>4. \A s \in Nat : 0 < s /\ s <= size => s \in Tids
  BY <1>3, ActorFacts DEF Tids
<1>5. \A t \in Tids : on[t] \in Tids
  BY DEF TypeInv, OnType
<1>6. QED
  BY <1>1, <1>2, <1>3, <1>4, <1>5

\* Whoever starts, waits for or finishes a member has a member.
LEMMA OnMember ==
  ASSUME TypeInv, LoopInv, NEW a \in Actors, pc[a] \in StartPlaces \cup WaitPlaces \cup FinishPlaces
  PROVE  on[a] \in Tids
<1>1. CASE a = Main
  BY <1>1, ActorFacts, Typed DEF LoopInv
<1>2. CASE a \in Tids
  BY <1>2, Typed
<1>3. QED
  BY <1>1, <1>2, ActorFacts

\* Whoever creates a thread finds a place for it.
LEMMA RoomForOne ==
  ASSUME TypeInv, LoopInv, RoomInv, NEW a \in Actors, pc[a] = "create"
  PROVE  next + 1 \in Tids /\ next + 1 \in 1..(MaxThreads + 1) /\ next < MaxThreads
<1>1. next < MaxThreads
  <2>1. CASE a = Main
    BY <2>1, ActorFacts DEF LoopInv
  <2>2. CASE a \in Tids
    <3>1. IsFiniteSet(Callers) /\ a \in Callers
      <4>1. IsFiniteSet(Tids)
        BY FS_Interval, ActorFacts DEF Tids
      <4>2. QED
        BY <4>1, FS_Subset, <2>2 DEF Callers
    <3>2. Cardinality(Callers) \in Nat /\ Cardinality(Callers) # 0
      BY <3>1, FS_CardinalityType, FS_EmptySet
    <3>3. QED
      BY <3>2, Typed, ActorFacts DEF RoomInv
  <2>3. QED
    BY <2>1, <2>2, ActorFacts
<1>2. QED
  BY <1>1, Typed, ActorFacts DEF Tids

\* Every step keeps the types.
LEMMA TypeStep ==
  ASSUME TypeInv, LoopInv, RoomInv, OwnerInv, Effect \/ Kept
  PROVE  TypeInv'
<1>1. ASSUME NEW a \in Actors, Chooses(a) PROVE TypeInv'
  <2>1. ThreadType' /\ MainType'
    <3>1. UNCHANGED <<status, chan, sem, loaded, exc, round, timedOut, execs>>
      BY <1>1 DEF Chooses
    <3>2. QED
      BY <3>1 DEF TypeInv, ThreadType, MainType
  <2>2. GroupType'
    BY <1>1, RoomForOne, ActorFacts, Typed DEF Chooses, TypeInv, GroupType
  <2>3. LockType'
    BY <1>1, ActorFacts, Typed DEF Chooses, TypeInv, LockType
  <2>4. PlaceType'
    BY <1>1, ActorFacts, Typed DEF Chooses, TypeInv, PlaceType, MainPlaces, CreatePlaces,
       WaitPlaces, ThreadPlaces
  <2>5. OnType'
    BY <1>1, RoomForOne, ActorFacts, Typed DEF Chooses, TypeInv, OnType
  <2>6. QED
    BY <2>1, <2>2, <2>3, <2>4, <2>5 DEF TypeInv
<1>2. ASSUME NEW a \in Actors, Spawns(a) PROVE TypeInv'
  <2>1. GroupType' /\ ThreadType' /\ LockType' /\ OnType' /\ MainType'
    <3>1. UNCHANGED <<size, next, status, chan, sem, mx, cmx, plock, woken,
                      on, loaded, exc, round, timedOut, execs>>
      BY <1>2 DEF Spawns
    <3>2. QED
      BY <3>1 DEF TypeInv, GroupType, ThreadType, LockType, OnType, MainType
  <2>2. PlaceType'
    <3>1. on[a] \in Tids
      BY <1>2, OnMember DEF Spawns, StartPlaces, CreatePlaces
    <3>2. QED
      BY <1>2, <3>1, ActorFacts, Typed DEF Spawns, TypeInv, PlaceType, MainPlaces,
         CreatePlaces, WaitPlaces, ThreadPlaces
  <2>3. QED
    BY <2>1, <2>2 DEF TypeInv
<1>3. ASSUME NEW a \in Actors, Restarts(a) PROVE TypeInv'
  <2>1. GroupType' /\ OnType' /\ MainType'
    <3>1. UNCHANGED <<size, next, on, loaded, exc, round, timedOut, execs>>
      BY <1>3 DEF Restarts
    <3>2. QED
      BY <3>1 DEF TypeInv, GroupType, OnType, MainType
  <2>2. ThreadType'
    BY <1>3, ActorFacts, Typed DEF Restarts, TypeInv, ThreadType, Statuses, Messages, Put
  <2>3. LockType'
    BY <1>3, ActorFacts, Typed DEF Restarts, TypeInv, LockType, Put, Signal
  <2>4. PlaceType'
    BY <1>3, ActorFacts, Typed DEF Restarts, TypeInv, PlaceType, MainPlaces, CreatePlaces,
       WaitPlaces, ThreadPlaces
  <2>5. QED
    BY <2>1, <2>2, <2>3, <2>4 DEF TypeInv
<1>4. ASSUME NEW a \in Actors, TakesStarted(a) PROVE TypeInv'
  <2>1. GroupType' /\ OnType' /\ MainType'
    <3>1. UNCHANGED <<size, next, on, loaded, exc, round, timedOut, execs>>
      BY <1>4 DEF TakesStarted
    <3>2. QED
      BY <3>1 DEF TypeInv, GroupType, OnType, MainType
  <2>2. ThreadType'
    BY <1>4, ActorFacts, Typed DEF TakesStarted, TypeInv, ThreadType, Statuses, Messages
  <2>3. LockType'
    BY <1>4, ActorFacts, Typed DEF TakesStarted, TypeInv, LockType
  <2>4. PlaceType'
    BY <1>4, ActorFacts, Typed DEF TakesStarted, TypeInv, PlaceType, MainPlaces,
       CreatePlaces, WaitPlaces, ThreadPlaces
  <2>5. QED
    BY <2>1, <2>2, <2>3, <2>4 DEF TypeInv
<1>5. ASSUME NEW a \in Actors, FirstSignal(a) PROVE TypeInv'
  <2>1. GroupType' /\ OnType' /\ MainType'
    <3>1. UNCHANGED <<size, next, on, loaded, exc, round, timedOut, execs>>
      BY <1>5 DEF FirstSignal
    <3>2. QED
      BY <3>1 DEF TypeInv, GroupType, OnType, MainType
  <2>2. ThreadType'
    <3>1. on[a] \in Tids
      BY <1>5, OnMember, ActorFacts DEF FirstSignal, StartPlaces, CreatePlaces
    <3>2. sem[on[a]] \in Nat
      BY <3>1, Typed
    <3>3. QED
      BY <1>5, <3>1, <3>2 DEF FirstSignal, TypeInv, ThreadType
  <2>3. LockType'
    BY <1>5, ActorFacts, Typed DEF FirstSignal, TypeInv, LockType
  <2>4. PlaceType'
    BY <1>5, ActorFacts, Typed DEF FirstSignal, TypeInv, PlaceType, MainPlaces,
       CreatePlaces, WaitPlaces, ThreadPlaces
  <2>5. QED
    BY <2>1, <2>2, <2>3, <2>4 DEF TypeInv
<1>6. ASSUME NEW a \in Actors, SendsTransfer(a) PROVE TypeInv'
  <2>1. GroupType' /\ OnType' /\ MainType'
    <3>1. UNCHANGED <<size, next, on, loaded, exc, round, timedOut, execs>>
      BY <1>6 DEF SendsTransfer
    <3>2. QED
      BY <3>1 DEF TypeInv, GroupType, OnType, MainType
  <2>2. ThreadType'
    BY <1>6, ActorFacts, Typed DEF SendsTransfer, TypeInv, ThreadType, Statuses, Messages,
       Put
  <2>3. LockType'
    BY <1>6, ActorFacts, Typed DEF SendsTransfer, TypeInv, LockType, Put, Signal
  <2>4. PlaceType'
    BY <1>6, ActorFacts, Typed DEF SendsTransfer, TypeInv, PlaceType, MainPlaces,
       CreatePlaces, WaitPlaces, ThreadPlaces
  <2>5. QED
    BY <2>1, <2>2, <2>3, <2>4 DEF TypeInv
<1>7. ASSUME NEW a \in Actors, BeginsWait(a) PROVE TypeInv'
  <2>1. GroupType' /\ ThreadType' /\ LockType' /\ OnType' /\ MainType'
    <3>1. UNCHANGED <<size, next, status, chan, sem, mx, cmx, plock, woken,
                      on, loaded, exc, round, timedOut, execs>>
      BY <1>7 DEF BeginsWait
    <3>2. QED
      BY <3>1 DEF TypeInv, GroupType, ThreadType, LockType, OnType, MainType
  <2>2. PlaceType'
    BY <1>7, ActorFacts, Typed DEF BeginsWait, TypeInv, PlaceType, MainPlaces,
       CreatePlaces, WaitPlaces, ThreadPlaces
  <2>3. QED
    BY <2>1, <2>2 DEF TypeInv
<1>8. ASSUME NEW a \in Actors, TakeToken(a) PROVE TypeInv'
  <2>1. GroupType' /\ LockType' /\ OnType' /\ MainType'
    <3>1. UNCHANGED <<size, next, mx, cmx, plock, woken, on, loaded, exc, round, timedOut, execs>>
      BY <1>8 DEF TakeToken
    <3>2. QED
      BY <3>1 DEF TypeInv, GroupType, LockType, OnType, MainType
  <2>2. ThreadType'
    <3>1. on[a] \in Tids
      BY <1>8, OnMember, ActorFacts DEF TakeToken, WaitPlaces
    <3>2. sem[on[a]] \in Nat
      BY <3>1, Typed
    <3>3. QED
      BY <1>8, <3>1, <3>2 DEF TakeToken, TypeInv, ThreadType
  <2>3. PlaceType'
    BY <1>8, ActorFacts, Typed DEF TakeToken, TypeInv, PlaceType, MainPlaces,
       CreatePlaces, WaitPlaces, ThreadPlaces
  <2>4. QED
    BY <2>1, <2>2, <2>3 DEF TypeInv
<1>9. ASSUME NEW a \in Actors, GiveBack(a) PROVE TypeInv'
  <2>1. GroupType' /\ LockType' /\ OnType' /\ MainType'
    <3>1. UNCHANGED <<size, next, mx, cmx, plock, woken, on, loaded, exc, round, timedOut, execs>>
      BY <1>9 DEF GiveBack
    <3>2. QED
      BY <3>1 DEF TypeInv, GroupType, LockType, OnType, MainType
  <2>2. ThreadType'
    <3>1. on[a] \in Tids
      BY <1>9, OnMember, ActorFacts DEF GiveBack, WaitPlaces
    <3>2. sem[on[a]] \in Nat
      BY <3>1, Typed
    <3>3. QED
      BY <1>9, <3>1, <3>2 DEF GiveBack, TypeInv, ThreadType
  <2>3. PlaceType'
    BY <1>9, ActorFacts, Typed DEF GiveBack, TypeInv, PlaceType, MainPlaces, CreatePlaces,
       WaitPlaces, ThreadPlaces
  <2>4. QED
    BY <2>1, <2>2, <2>3 DEF TypeInv
<1>10. ASSUME NEW t \in Tids, JoinReturns(t) PROVE TypeInv'
  <2>1. GroupType' /\ ThreadType' /\ OnType' /\ MainType'
    <3>1. UNCHANGED <<size, next, status, chan, sem, on, loaded, exc, round, timedOut, execs>>
      BY <1>10 DEF JoinReturns
    <3>2. QED
      BY <3>1 DEF TypeInv, GroupType, ThreadType, OnType, MainType
  <2>2. LockType'
    BY <1>10, ActorFacts, Typed DEF JoinReturns, TypeInv, LockType
  <2>3. PlaceType'
    BY <1>10, ActorFacts, Typed DEF JoinReturns, TypeInv, PlaceType, MainPlaces,
       CreatePlaces, WaitPlaces, ThreadPlaces
  <2>4. QED
    BY <2>1, <2>2, <2>3 DEF TypeInv
<1>11. ASSUME NEW t \in Tids, LockPthread(t, "callCreate", "create") PROVE TypeInv'
  <2>1. GroupType' /\ ThreadType' /\ OnType' /\ MainType'
    <3>1. UNCHANGED <<size, next, status, chan, sem, on, loaded, exc, round, timedOut, execs>>
      BY <1>11 DEF LockPthread
    <3>2. QED
      BY <3>1 DEF TypeInv, GroupType, ThreadType, OnType, MainType
  <2>2. LockType'
    BY <1>11, ActorFacts, Typed DEF LockPthread, TypeInv, LockType
  <2>3. PlaceType'
    BY <1>11, ActorFacts, Typed DEF LockPthread, TypeInv, PlaceType, MainPlaces,
       CreatePlaces, WaitPlaces, ThreadPlaces
  <2>4. QED
    BY <2>1, <2>2, <2>3 DEF TypeInv
<1>12. ASSUME NEW t \in Tids, LockPthread(t, "callJoin", "wait") PROVE TypeInv'
  <2>1. GroupType' /\ ThreadType' /\ OnType' /\ MainType'
    <3>1. UNCHANGED <<size, next, status, chan, sem, on, loaded, exc, round, timedOut, execs>>
      BY <1>12 DEF LockPthread
    <3>2. QED
      BY <3>1 DEF TypeInv, GroupType, ThreadType, OnType, MainType
  <2>2. LockType'
    BY <1>12, ActorFacts, Typed DEF LockPthread, TypeInv, LockType
  <2>3. PlaceType'
    BY <1>12, ActorFacts, Typed DEF LockPthread, TypeInv, PlaceType, MainPlaces,
       CreatePlaces, WaitPlaces, ThreadPlaces
  <2>4. QED
    BY <2>1, <2>2, <2>3 DEF TypeInv
<1>13. ASSUME NEW t \in Tids, SutMoves(t) PROVE TypeInv'
  <2>1. GroupType' /\ ThreadType' /\ LockType' /\ OnType'
    <3>1. UNCHANGED <<size, next, status, chan, sem, mx, cmx, plock, woken, on>>
      BY <1>13 DEF SutMoves
    <3>2. QED
      BY <3>1 DEF TypeInv, GroupType, ThreadType, LockType, OnType
  <2>2. PlaceType'
    BY <1>13, ActorFacts, Typed DEF SutMoves, TypeInv, PlaceType, MainPlaces,
       CreatePlaces, WaitPlaces, ThreadPlaces
  <2>3. MainType'
    BY <1>13, ActorFacts, Typed DEF SutMoves, TypeInv, MainType
  <2>4. QED
    BY <2>1, <2>2, <2>3 DEF TypeInv
<1>14. ASSUME NEW t \in Tids, CallCreate(t) PROVE TypeInv'
  <2>1. GroupType' /\ ThreadType' /\ LockType' /\ OnType' /\ MainType'
    <3>1. UNCHANGED <<size, next, status, chan, sem, mx, cmx, plock, woken,
                      on, loaded, exc, round, timedOut, execs>>
      BY <1>14 DEF CallCreate
    <3>2. QED
      BY <3>1 DEF TypeInv, GroupType, ThreadType, LockType, OnType, MainType
  <2>2. PlaceType'
    BY <1>14, ActorFacts, Typed DEF CallCreate, TypeInv, PlaceType, MainPlaces,
       CreatePlaces, WaitPlaces, ThreadPlaces
  <2>3. QED
    BY <2>1, <2>2 DEF TypeInv
<1>15. ASSUME NEW t \in Tids, SetsStarted(t) PROVE TypeInv'
  <2>1. GroupType' /\ LockType' /\ OnType' /\ MainType'
    <3>1. UNCHANGED <<size, next, mx, cmx, plock, woken, on, loaded, exc, round, timedOut, execs>>
      BY <1>15 DEF SetsStarted
    <3>2. QED
      BY <3>1 DEF TypeInv, GroupType, LockType, OnType, MainType
  <2>2. ThreadType'
    BY <1>15, ActorFacts, Typed DEF SetsStarted, TypeInv, ThreadType, Statuses, Messages
  <2>3. PlaceType'
    BY <1>15, ActorFacts, Typed DEF SetsStarted, TypeInv, PlaceType, MainPlaces,
       CreatePlaces, WaitPlaces, ThreadPlaces
  <2>4. QED
    BY <2>1, <2>2, <2>3 DEF TypeInv
<1>16. ASSUME NEW t \in Tids, SendsStarted(t) PROVE TypeInv'
  <2>1. GroupType' /\ OnType' /\ MainType'
    <3>1. UNCHANGED <<size, next, on, loaded, exc, round, timedOut, execs>>
      BY <1>16 DEF SendsStarted
    <3>2. QED
      BY <3>1 DEF TypeInv, GroupType, OnType, MainType
  <2>2. ThreadType'
    BY <1>16, ActorFacts, Typed DEF SendsStarted, TypeInv, ThreadType, Statuses, Messages,
       Put
  <2>3. LockType'
    BY <1>16, ActorFacts, Typed DEF SendsStarted, TypeInv, LockType, Put, Signal
  <2>4. PlaceType'
    BY <1>16, ActorFacts, Typed DEF SendsStarted, TypeInv, PlaceType, MainPlaces,
       CreatePlaces, WaitPlaces, ThreadPlaces
  <2>5. QED
    BY <2>1, <2>2, <2>3, <2>4 DEF TypeInv
<1>17. ASSUME NEW t \in Tids, Receives(t) PROVE TypeInv'
  <2>1. GroupType' /\ OnType' /\ MainType'
    <3>1. UNCHANGED <<size, next, on, loaded, exc, round, timedOut, execs>>
      BY <1>17 DEF Receives
    <3>2. QED
      BY <3>1 DEF TypeInv, GroupType, OnType, MainType
  <2>2. ThreadType'
    BY <1>17, ActorFacts, Typed DEF Receives, TypeInv, ThreadType, Statuses, Messages
  <2>3. LockType'
    BY <1>17, ActorFacts, Typed DEF Receives, TypeInv, LockType
  <2>4. PlaceType'
    BY <1>17, ActorFacts, Typed DEF Receives, TypeInv, PlaceType, MainPlaces,
       CreatePlaces, WaitPlaces, ThreadPlaces
  <2>5. QED
    BY <2>1, <2>2, <2>3, <2>4 DEF TypeInv
<1>18. ASSUME NEW t \in Tids, Enable(t) PROVE TypeInv'
  <2>1. GroupType' /\ LockType' /\ OnType'
    <3>1. UNCHANGED <<size, next, mx, cmx, plock, woken, on>>
      BY <1>18 DEF Enable
    <3>2. QED
      BY <3>1 DEF TypeInv, GroupType, LockType, OnType
  <2>2. ThreadType'
    BY <1>18, ActorFacts, Typed DEF Enable, TypeInv, ThreadType, Statuses, Messages
  <2>3. PlaceType'
    BY <1>18, ActorFacts, Typed DEF Enable, TypeInv, PlaceType, MainPlaces, CreatePlaces,
       WaitPlaces, ThreadPlaces
  <2>4. MainType'
    BY <1>18, ActorFacts, Typed DEF Enable, TypeInv, MainType
  <2>5. QED
    BY <2>1, <2>2, <2>3, <2>4 DEF TypeInv
<1>19. ASSUME NEW t \in Tids, SetEnded(t) PROVE TypeInv'
  <2>1. GroupType' /\ OnType' /\ MainType'
    <3>1. UNCHANGED <<size, next, on, loaded, exc, round, timedOut, execs>>
      BY <1>19 DEF SetEnded
    <3>2. QED
      BY <3>1 DEF TypeInv, GroupType, OnType, MainType
  <2>2. ThreadType'
    BY <1>19, ActorFacts, Typed DEF SetEnded, TypeInv, ThreadType, Statuses, Messages
  <2>3. LockType'
    BY <1>19, ActorFacts, Typed DEF SetEnded, TypeInv, LockType
  <2>4. PlaceType'
    BY <1>19, ActorFacts, Typed DEF SetEnded, TypeInv, PlaceType, MainPlaces,
       CreatePlaces, WaitPlaces, ThreadPlaces
  <2>5. QED
    BY <2>1, <2>2, <2>3, <2>4 DEF TypeInv
<1>20. ASSUME NEW t \in Tids, SecondSignal(t) PROVE TypeInv'
  <2>1. GroupType' /\ OnType' /\ MainType'
    <3>1. UNCHANGED <<size, next, on, loaded, exc, round, timedOut, execs>>
      BY <1>20 DEF SecondSignal
    <3>2. QED
      BY <3>1 DEF TypeInv, GroupType, OnType, MainType
  <2>2. ThreadType'
    BY <1>20, ActorFacts, Typed DEF SecondSignal, TypeInv, ThreadType, Statuses, Messages
  <2>3. LockType'
    BY <1>20, ActorFacts, Typed DEF SecondSignal, TypeInv, LockType
  <2>4. PlaceType'
    BY <1>20, ActorFacts, Typed DEF SecondSignal, TypeInv, PlaceType, MainPlaces,
       CreatePlaces, WaitPlaces, ThreadPlaces
  <2>5. QED
    BY <2>1, <2>2, <2>3, <2>4 DEF TypeInv
<1>21. ASSUME NEW t \in Tids, Terminate(t) PROVE TypeInv'
  <2>1. GroupType' /\ LockType' /\ OnType' /\ MainType'
    <3>1. UNCHANGED <<size, next, mx, cmx, plock, woken, on, loaded, exc, round, timedOut, execs>>
      BY <1>21 DEF Terminate
    <3>2. QED
      BY <3>1 DEF TypeInv, GroupType, LockType, OnType, MainType
  <2>2. ThreadType'
    BY <1>21, ActorFacts, Typed DEF Terminate, TypeInv, ThreadType, Statuses, Messages
  <2>3. PlaceType'
    BY <1>21, ActorFacts, Typed DEF Terminate, TypeInv, PlaceType, MainPlaces,
       CreatePlaces, WaitPlaces, ThreadPlaces
  <2>4. QED
    BY <2>1, <2>2, <2>3 DEF TypeInv
<1>22. ASSUME NEW t \in Tids, NEW u \in Tids, Joins(t, u) PROVE TypeInv'
  <2>1. GroupType' /\ ThreadType' /\ LockType' /\ MainType'
    <3>1. UNCHANGED <<size, next, status, chan, sem, mx, cmx, plock, woken,
                      loaded, exc, round, timedOut, execs>>
      BY <1>22 DEF Joins
    <3>2. QED
      BY <3>1 DEF TypeInv, GroupType, ThreadType, LockType, MainType
  <2>2. PlaceType'
    BY <1>22, ActorFacts, Typed DEF Joins, TypeInv, PlaceType, MainPlaces, CreatePlaces,
       WaitPlaces, ThreadPlaces
  <2>3. OnType'
    BY <1>22, ActorFacts, Typed DEF Joins, TypeInv, OnType, Tids
  <2>4. QED
    BY <2>1, <2>2, <2>3 DEF TypeInv
<1>23. ASSUME MainPasses PROVE TypeInv'
  <2>1. GroupType' /\ ThreadType' /\ LockType' /\ MainType'
    <3>1. UNCHANGED <<size, next, status, chan, sem, mx, cmx, plock, woken,
                      loaded, exc, round, timedOut, execs>>
      BY <1>23 DEF MainPasses
    <3>2. QED
      BY <3>1 DEF TypeInv, GroupType, ThreadType, LockType, MainType
  <2>2. PlaceType'
    BY <1>23, ActorFacts, Typed DEF MainPasses, TypeInv, PlaceType, MainPlaces,
       CreatePlaces, WaitPlaces, ThreadPlaces
  <2>3. OnType'
    BY <1>23, ActorFacts, Typed DEF MainPasses, TypeInv, OnType, LoopInv, MemberPlaces,
       WaitPlaces, FinishPlaces, RoomInv, GroupType
  <2>4. QED
    BY <2>1, <2>2, <2>3 DEF TypeInv
<1>24. ASSUME WaitTimeout PROVE TypeInv'
  <2>1. GroupType' /\ LockType'
    <3>1. UNCHANGED <<size, next, mx, cmx, plock, woken>>
      BY <1>24 DEF WaitTimeout
    <3>2. QED
      BY <3>1 DEF TypeInv, GroupType, LockType
  <2>2. ThreadType'
    <3>1. on[Main] \in Tids
      BY <1>24, OnMember, ActorFacts DEF WaitTimeout, WaitPlaces
    <3>2. sem[on[Main]] \in Nat
      BY <3>1, Typed
    <3>3. QED
      BY <1>24, <3>1, <3>2 DEF WaitTimeout, TypeInv, ThreadType
  <2>3. PlaceType'
    BY <1>24, ActorFacts, Typed DEF WaitTimeout, TypeInv, PlaceType, MainPlaces,
       CreatePlaces, WaitPlaces, ThreadPlaces
  <2>4. OnType'
    BY <1>24, ActorFacts, Typed DEF WaitTimeout, TypeInv, OnType, LoopInv, MemberPlaces,
       WaitPlaces, FinishPlaces, RoomInv, GroupType
  <2>5. MainType'
    BY <1>24, ActorFacts, Typed DEF WaitTimeout, TypeInv, MainType, LoopInv, MemberPlaces,
       WaitPlaces
  <2>6. QED
    BY <2>1, <2>2, <2>3, <2>4, <2>5 DEF TypeInv
<1>25. ASSUME Begin PROVE TypeInv'
  <2>1. ThreadType' /\ LockType' /\ OnType'
    <3>1. UNCHANGED <<status, chan, sem, mx, cmx, plock, woken, on>>
      BY <1>25 DEF Begin, RestartGroup
    <3>2. QED
      BY <3>1 DEF TypeInv, ThreadType, LockType, OnType
  <2>2. GroupType'
    BY <1>25, ActorFacts, Typed DEF Begin, RestartGroup, TypeInv, GroupType
  <2>3. PlaceType'
    BY <1>25, ActorFacts, Typed DEF Begin, RestartGroup, TypeInv, PlaceType, MainPlaces,
       CreatePlaces, WaitPlaces, ThreadPlaces
  <2>4. MainType'
    BY <1>25, ActorFacts, Typed DEF Begin, RestartGroup, TypeInv, MainType
  <2>5. QED
    BY <2>1, <2>2, <2>3, <2>4 DEF TypeInv
<1>26. ASSUME DriverLoaded PROVE TypeInv'
  <2>1. GroupType' /\ ThreadType' /\ LockType' /\ OnType'
    <3>1. UNCHANGED <<size, next, status, chan, sem, mx, cmx, plock, woken, on>>
      BY <1>26 DEF DriverLoaded
    <3>2. QED
      BY <3>1 DEF TypeInv, GroupType, ThreadType, LockType, OnType
  <2>2. PlaceType'
    BY <1>26, ActorFacts, Typed DEF DriverLoaded, TypeInv, PlaceType, MainPlaces,
       CreatePlaces, WaitPlaces, ThreadPlaces
  <2>3. MainType'
    BY <1>26, ActorFacts, Typed DEF DriverLoaded, TypeInv, MainType
  <2>4. QED
    BY <2>1, <2>2, <2>3 DEF TypeInv
<1>27. ASSUME NEW b \in BOOLEAN, ScriptEnds(b) PROVE TypeInv'
  <2>1. GroupType' /\ ThreadType' /\ LockType' /\ OnType'
    <3>1. UNCHANGED <<size, next, status, chan, sem, mx, cmx, plock, woken, on>>
      BY <1>27 DEF ScriptEnds
    <3>2. QED
      BY <3>1 DEF TypeInv, GroupType, ThreadType, LockType, OnType
  <2>2. PlaceType'
    BY <1>27, ActorFacts, Typed DEF ScriptEnds, TypeInv, PlaceType, MainPlaces,
       CreatePlaces, WaitPlaces, ThreadPlaces
  <2>3. MainType'
    BY <1>27, ActorFacts, Typed DEF ScriptEnds, TypeInv, MainType, LoopInv, MemberPlaces,
       WaitPlaces
  <2>4. QED
    BY <2>1, <2>2, <2>3 DEF TypeInv
<1>28. ASSUME JoinAllThreads PROVE TypeInv'
  <2>1. GroupType' /\ ThreadType' /\ LockType'
    <3>1. UNCHANGED <<size, next, status, chan, sem, mx, cmx, plock, woken>>
      BY <1>28 DEF JoinAllThreads
    <3>2. QED
      BY <3>1 DEF TypeInv, GroupType, ThreadType, LockType
  <2>2. PlaceType'
    BY <1>28, ActorFacts, Typed DEF JoinAllThreads, TypeInv, PlaceType, MainPlaces,
       CreatePlaces, WaitPlaces, ThreadPlaces
  <2>3. OnType'
    BY <1>28, ActorFacts, Typed DEF JoinAllThreads, TypeInv, OnType
  <2>4. MainType'
    BY <1>28, ActorFacts, Typed DEF JoinAllThreads, TypeInv, MainType, LoopInv,
       MemberPlaces, WaitPlaces
  <2>5. QED
    BY <2>1, <2>2, <2>3, <2>4 DEF TypeInv
<1>29. ASSUME LooksAtMember PROVE TypeInv'
  <2>1. GroupType' /\ ThreadType' /\ LockType' /\ MainType'
    <3>1. UNCHANGED <<size, next, status, chan, sem, mx, cmx, plock, woken,
                      loaded, exc, round, timedOut, execs>>
      BY <1>29 DEF LooksAtMember
    <3>2. QED
      BY <3>1 DEF TypeInv, GroupType, ThreadType, LockType, MainType
  <2>2. PlaceType'
    BY <1>29, ActorFacts, Typed DEF LooksAtMember, TypeInv, PlaceType, MainPlaces,
       CreatePlaces, WaitPlaces, ThreadPlaces
  <2>3. OnType'
    BY <1>29, ActorFacts, Typed DEF LooksAtMember, TypeInv, OnType, LoopInv, MemberPlaces,
       WaitPlaces, FinishPlaces, RoomInv, GroupType
  <2>4. QED
    BY <2>1, <2>2, <2>3 DEF TypeInv
<1>30. ASSUME Backtrack PROVE TypeInv'
  <2>1. GroupType' /\ ThreadType' /\ LockType' /\ MainType'
    <3>1. UNCHANGED <<size, next, status, chan, sem, mx, cmx, plock, woken,
                      loaded, exc, round, timedOut, execs>>
      BY <1>30 DEF Backtrack
    <3>2. QED
      BY <3>1 DEF TypeInv, GroupType, ThreadType, LockType, MainType
  <2>2. PlaceType'
    BY <1>30, ActorFacts, Typed DEF Backtrack, TypeInv, PlaceType, MainPlaces,
       CreatePlaces, WaitPlaces, ThreadPlaces
  <2>3. OnType'
    BY <1>30, ActorFacts, Typed DEF Backtrack, TypeInv, OnType
  <2>4. QED
    BY <2>1, <2>2, <2>3 DEF TypeInv
<1>31. ASSUME FinishesMember PROVE TypeInv'
  <2>1. GroupType' /\ ThreadType' /\ LockType' /\ OnType' /\ MainType'
    <3>1. UNCHANGED <<size, next, status, chan, sem, mx, cmx, plock, woken,
                      on, loaded, exc, round, timedOut, execs>>
      BY <1>31 DEF FinishesMember
    <3>2. QED
      BY <3>1 DEF TypeInv, GroupType, ThreadType, LockType, OnType, MainType
  <2>2. PlaceType'
    BY <1>31, ActorFacts, Typed DEF FinishesMember, TypeInv, PlaceType, MainPlaces,
       CreatePlaces, WaitPlaces, ThreadPlaces
  <2>3. QED
    BY <2>1, <2>2 DEF TypeInv
<1>32. ASSUME SendsTerminate PROVE TypeInv'
  <2>1. GroupType' /\ OnType' /\ MainType'
    <3>1. UNCHANGED <<size, next, on, loaded, exc, round, timedOut, execs>>
      BY <1>32 DEF SendsTerminate
    <3>2. QED
      BY <3>1 DEF TypeInv, GroupType, OnType, MainType
  <2>2. ThreadType'
    BY <1>32, ActorFacts, Typed DEF SendsTerminate, TypeInv, ThreadType, Statuses,
       Messages, Put
  <2>3. LockType'
    BY <1>32, ActorFacts, Typed DEF SendsTerminate, TypeInv, LockType, Put, Signal
  <2>4. PlaceType'
    BY <1>32, ActorFacts, Typed DEF SendsTerminate, TypeInv, PlaceType, MainPlaces,
       CreatePlaces, WaitPlaces, ThreadPlaces
  <2>5. QED
    BY <2>1, <2>2, <2>3, <2>4 DEF TypeInv
<1>33. ASSUME Cancels PROVE TypeInv'
  <2>1. GroupType' /\ ThreadType' /\ OnType' /\ MainType'
    <3>1. UNCHANGED <<size, next, status, chan, sem, on, loaded, exc, round, timedOut, execs>>
      BY <1>33 DEF Cancels
    <3>2. QED
      BY <3>1 DEF TypeInv, GroupType, ThreadType, OnType, MainType
  <2>2. LockType'
    BY <1>33, ActorFacts, Typed DEF Cancels, TypeInv, LockType
  <2>3. PlaceType'
    <3>1. on[Main] \in Tids
      BY <1>33, OnMember, ActorFacts DEF Cancels, FinishPlaces
    <3>2. QED
      BY <1>33, <3>1, ActorFacts, Typed DEF Cancels, TypeInv, PlaceType, MainPlaces,
         CreatePlaces, WaitPlaces, ThreadPlaces
  <2>4. QED
    BY <2>1, <2>2, <2>3 DEF TypeInv
<1>34. ASSUME JoinPthread PROVE TypeInv'
  <2>1. GroupType' /\ LockType' /\ MainType'
    <3>1. UNCHANGED <<size, next, mx, cmx, plock, woken, loaded, exc, round, timedOut, execs>>
      BY <1>34 DEF JoinPthread
    <3>2. QED
      BY <3>1 DEF TypeInv, GroupType, LockType, MainType
  <2>2. ThreadType'
    BY <1>34, ActorFacts, Typed DEF JoinPthread, TypeInv, ThreadType, Statuses, Messages
  <2>3. PlaceType'
    BY <1>34, ActorFacts, Typed DEF JoinPthread, TypeInv, PlaceType, MainPlaces,
       CreatePlaces, WaitPlaces, ThreadPlaces
  <2>4. OnType'
    BY <1>34, ActorFacts, Typed DEF JoinPthread, TypeInv, OnType, LoopInv, MemberPlaces,
       WaitPlaces, FinishPlaces, RoomInv, GroupType
  <2>5. QED
    BY <2>1, <2>2, <2>3, <2>4 DEF TypeInv
<1>35. ASSUME Kept PROVE TypeInv'
  BY <1>35 DEF Kept, TypeInv, GroupType, ThreadType, LockType, PlaceType, OnType, MainType
<1>36. QED
  BY <1>1, <1>2, <1>3, <1>4, <1>5, <1>6, <1>7, <1>8, <1>9, <1>10, <1>11, <1>12, <1>13,
     <1>14, <1>15, <1>16, <1>17, <1>18, <1>19, <1>20, <1>21, <1>22, <1>23, <1>24, <1>25,
     <1>26, <1>27, <1>28, <1>29, <1>30, <1>31, <1>32, <1>33, <1>34, <1>35 DEF Effect

\* Where a settled thread is; a thread that is anywhere else is one of this execution.
LEMMA SettledPlace ==
  ASSUME BaseInv, ~Finishing, NEW t \in Tids,
         pc[t] \notin Calls \cup {"token1", "token2", "hung", "awaitEnd", "absent"}
  PROVE  t <= next /\ ~Settled(t) /\ next > 0 /\ ~Waited /\ t <= size
<1>1. ~Settled(t)
  BY DEF Settled, Stuck, Halted, Done
<1>2. t <= size
  BY ActorFacts, Typed DEF BaseInv, LiveInv, ChannelInv, ChannelOK, GroupType, TypeInv
<1>3. t \in Nat /\ t > 0
  BY DEF Tids
<1>4. t <= next
  BY <1>1, <1>2, <1>3, Typed DEF BaseInv, LiveInv, OrderInv, NextSettled
<1>5. ~Waited
  BY <1>1, <1>2, <1>3, Typed DEF BaseInv, LiveInv, OrderInv, WaitedSettled
<1>6. QED
  BY <1>1, <1>2, <1>3, <1>4, <1>5, Typed DEF BaseInv

\* Every step keeps what main's place says.
LEMMA LoopStep ==
  ASSUME BaseInv, Effect \/ Kept
  PROVE  LoopInv'
<1>b. TypeInv /\ LoopInv /\ GroupType /\ PlaceType /\ MainType
  BY DEF BaseInv, TypeInv
<1>1. ASSUME NEW a \in Actors, Chooses(a) PROVE LoopInv'
  <2>1. pc' = [pc EXCEPT ![a] = "start"] /\ on' = [on EXCEPT ![a] = next + 1]
          /\ pc[a] = "create"
        /\ size' >= size /\ size' \in Nat /\ next' = next + 1
        /\ UNCHANGED <<status, exc, loaded, round, timedOut, execs>>
    BY <1>1, Typed, <1>b DEF Chooses
  <2>2. CASE a = Main
    BY <2>1, <2>2, <1>b, ActorFacts, Typed DEF LoopInv, StartPlaces, MemberPlaces,
       FinishPlaces, CreatePlaces, WaitPlaces, PlaceType, OnType, TypeInv, Driver
  <2>3. CASE a \in Tids
    <3>1. pc[Main] \in {"begin", "create"} => Finishing
      BY SettledPlace, <2>1, <2>3, <1>b DEF LoopInv, Waited, Calls, Finishing
    <3>2. pc[Main] # "create" /\ pc'[Main] = pc[Main] /\ on'[Main] = on[Main]
      BY <3>1, <2>1, <2>3, ActorFacts, <1>b DEF Finishing, TypeInv, PlaceType, OnType
    <3>3. QED
      BY <3>2, <2>1, <1>b, ActorFacts, Typed DEF LoopInv
  <2>4. QED
    BY <2>2, <2>3, ActorFacts
<1>2. ASSUME NEW a \in Actors, Spawns(a) PROVE LoopInv'
  BY <1>b, <1>2, ActorFacts, Typed DEF Spawns, LoopInv, StartPlaces, MemberPlaces,
     FinishPlaces, CreatePlaces, WaitPlaces, GroupType, MainType, PlaceType
<1>3. ASSUME NEW a \in Actors, Restarts(a) PROVE LoopInv'
  BY <1>b, <1>3, ActorFacts, Typed DEF Restarts, LoopInv, StartPlaces, MemberPlaces,
     FinishPlaces, CreatePlaces, WaitPlaces, GroupType, MainType, PlaceType
<1>4. ASSUME NEW a \in Actors, TakesStarted(a) PROVE LoopInv'
  BY <1>b, <1>4, ActorFacts, Typed DEF TakesStarted, LoopInv, StartPlaces, MemberPlaces,
     FinishPlaces, CreatePlaces, WaitPlaces, GroupType, MainType, PlaceType
<1>5. ASSUME NEW a \in Actors, FirstSignal(a) PROVE LoopInv'
  BY <1>b, <1>5, ActorFacts, Typed DEF FirstSignal, LoopInv, StartPlaces, MemberPlaces,
     FinishPlaces, CreatePlaces, WaitPlaces, GroupType, MainType, PlaceType
<1>6. ASSUME NEW a \in Actors, SendsTransfer(a) PROVE LoopInv'
  BY <1>b, <1>6, ActorFacts, Typed DEF SendsTransfer, LoopInv, StartPlaces, MemberPlaces,
     FinishPlaces, CreatePlaces, WaitPlaces, GroupType, MainType, PlaceType
<1>7. ASSUME NEW a \in Actors, BeginsWait(a) PROVE LoopInv'
  BY <1>b, <1>7, ActorFacts, Typed DEF BeginsWait, LoopInv, StartPlaces, MemberPlaces,
     FinishPlaces, CreatePlaces, WaitPlaces, GroupType, MainType, PlaceType
<1>8. ASSUME NEW a \in Actors, TakeToken(a) PROVE LoopInv'
  BY <1>b, <1>8, ActorFacts, Typed DEF TakeToken, LoopInv, StartPlaces, MemberPlaces,
     FinishPlaces, CreatePlaces, WaitPlaces, GroupType, MainType, PlaceType
<1>9. ASSUME NEW a \in Actors, GiveBack(a) PROVE LoopInv'
  BY <1>b, <1>9, ActorFacts, Typed DEF GiveBack, LoopInv, StartPlaces, MemberPlaces,
     FinishPlaces, CreatePlaces, WaitPlaces, GroupType, MainType, PlaceType
<1>10. ASSUME NEW t \in Tids, JoinReturns(t) PROVE LoopInv'
  BY <1>b, <1>10, ActorFacts, Typed DEF JoinReturns, LoopInv, StartPlaces, MemberPlaces,
     FinishPlaces, CreatePlaces, WaitPlaces, GroupType, MainType, PlaceType
<1>11. ASSUME NEW t \in Tids, LockPthread(t, "callCreate", "create") PROVE LoopInv'
  BY <1>b, <1>11, ActorFacts, Typed DEF LockPthread, LoopInv, StartPlaces, MemberPlaces,
     FinishPlaces, CreatePlaces, WaitPlaces, GroupType, MainType, PlaceType
<1>12. ASSUME NEW t \in Tids, LockPthread(t, "callJoin", "wait") PROVE LoopInv'
  BY <1>b, <1>12, ActorFacts, Typed DEF LockPthread, LoopInv, StartPlaces, MemberPlaces,
     FinishPlaces, CreatePlaces, WaitPlaces, GroupType, MainType, PlaceType
<1>13. ASSUME NEW t \in Tids, SutMoves(t) PROVE LoopInv'
  BY <1>b, <1>13, ActorFacts, Typed DEF SutMoves, LoopInv, StartPlaces, MemberPlaces,
     FinishPlaces, CreatePlaces, WaitPlaces, GroupType, MainType, PlaceType
<1>14. ASSUME NEW t \in Tids, CallCreate(t) PROVE LoopInv'
  BY <1>b, <1>14, ActorFacts, Typed DEF CallCreate, LoopInv, StartPlaces, MemberPlaces,
     FinishPlaces, CreatePlaces, WaitPlaces, GroupType, MainType, PlaceType
<1>15. ASSUME NEW t \in Tids, SetsStarted(t) PROVE LoopInv'
  BY <1>b, <1>15, ActorFacts, Typed DEF SetsStarted, LoopInv, StartPlaces, MemberPlaces,
     FinishPlaces, CreatePlaces, WaitPlaces, GroupType, MainType, PlaceType
<1>16. ASSUME NEW t \in Tids, SendsStarted(t) PROVE LoopInv'
  BY <1>b, <1>16, ActorFacts, Typed DEF SendsStarted, LoopInv, StartPlaces, MemberPlaces,
     FinishPlaces, CreatePlaces, WaitPlaces, GroupType, MainType, PlaceType
<1>17. ASSUME NEW t \in Tids, Receives(t) PROVE LoopInv'
  BY <1>b, <1>17, ActorFacts, Typed DEF Receives, LoopInv, StartPlaces, MemberPlaces,
     FinishPlaces, CreatePlaces, WaitPlaces, GroupType, MainType, PlaceType
<1>18. ASSUME NEW t \in Tids, Enable(t) PROVE LoopInv'
  <2>1. pc'[Main] = pc[Main] /\ UNCHANGED <<size, next, on, timedOut, round>>
    BY <1>18, ActorFacts, <1>b DEF Enable, TypeInv, PlaceType
  <2>2. \A s \in Tids : status[s] # Passive => status'[s] # Passive
    BY <1>18, <1>b DEF Enable, TypeInv, ThreadType
  <2>3. status[t] # Terminated
    BY <1>18 DEF Enable, BaseInv, StatusInv, StatusOf, Running, Calls
  <2>4. \A s \in Tids : status[s] = Terminated => status'[s] = Terminated
    BY <1>18, <2>3, <1>b DEF Enable, TypeInv, ThreadType
  <2>5. pc[Main] \in WaitPlaces \cup FinishPlaces => on[Main] \in Tids
    BY <1>b, OnMember, ActorFacts
  <2>6. QED
    BY <2>1, <2>2, <2>4, <2>5, <1>b DEF LoopInv, FinishPlaces
<1>19. ASSUME NEW t \in Tids, SetEnded(t) PROVE LoopInv'
  <2>1. pc'[Main] = pc[Main] /\ UNCHANGED <<size, next, on, timedOut, round>>
    BY <1>19, ActorFacts, <1>b DEF SetEnded, TypeInv, PlaceType
  <2>2. \A s \in Tids : status[s] # Passive => status'[s] # Passive
    BY <1>19, <1>b DEF SetEnded, TypeInv, ThreadType
  <2>3. status[t] # Terminated
    BY <1>19 DEF SetEnded, BaseInv, StatusInv, StatusOf, Running, Calls
  <2>4. \A s \in Tids : status[s] = Terminated => status'[s] = Terminated
    BY <1>19, <2>3, <1>b DEF SetEnded, TypeInv, ThreadType
  <2>5. pc[Main] \in WaitPlaces \cup FinishPlaces => on[Main] \in Tids
    BY <1>b, OnMember, ActorFacts
  <2>6. QED
    BY <2>1, <2>2, <2>4, <2>5, <1>b DEF LoopInv, FinishPlaces
<1>20. ASSUME NEW t \in Tids, SecondSignal(t) PROVE LoopInv'
  BY <1>b, <1>20, ActorFacts, Typed DEF SecondSignal, LoopInv, StartPlaces, MemberPlaces,
     FinishPlaces, CreatePlaces, WaitPlaces, GroupType, MainType, PlaceType
<1>21. ASSUME NEW t \in Tids, Terminate(t) PROVE LoopInv'
  BY <1>b, <1>21, ActorFacts, Typed DEF Terminate, LoopInv, StartPlaces, MemberPlaces,
     FinishPlaces, CreatePlaces, WaitPlaces, GroupType, MainType, PlaceType
<1>22. ASSUME NEW t \in Tids, NEW u \in Tids, Joins(t, u) PROVE LoopInv'
  BY <1>b, <1>22, ActorFacts, Typed DEF Joins, LoopInv, StartPlaces, MemberPlaces,
     FinishPlaces, CreatePlaces, WaitPlaces, GroupType, MainType, PlaceType
<1>23. ASSUME MainPasses PROVE LoopInv'
  BY <1>b, <1>23, ActorFacts, Typed DEF MainPasses, LoopInv, StartPlaces, MemberPlaces,
     FinishPlaces, CreatePlaces, WaitPlaces, GroupType, MainType, PlaceType
<1>24. ASSUME WaitTimeout PROVE LoopInv'
  <2>1. pc'[Main] = "member" /\ timedOut' = timedOut + 1 /\ on'[Main] = on[Main] + 1
    BY <1>24, <1>b, ActorFacts DEF WaitTimeout, TypeInv, PlaceType, OnType
  <2>2. /\ on[Main] <= size /\ timedOut < on[Main] /\ round \in 0..(MaxTimeOuts - 1)
             /\ next > 0
    BY <1>24, <1>b DEF WaitTimeout, LoopInv, MemberPlaces, WaitPlaces
  <2>3. UNCHANGED <<size, next, round, status>>
    BY <1>24 DEF WaitTimeout
  <2>4. QED
    BY <2>1, <2>2, <2>3, <1>b, Typed, ActorFacts DEF LoopInv, StartPlaces, MemberPlaces,
       FinishPlaces, CreatePlaces, WaitPlaces, MainType
<1>25. ASSUME Begin PROVE LoopInv'
  BY <1>b, <1>25, ActorFacts, Typed DEF Begin, RestartGroup, LoopInv, StartPlaces,
     MemberPlaces, FinishPlaces, CreatePlaces, WaitPlaces, GroupType, MainType, PlaceType
<1>26. ASSUME DriverLoaded PROVE LoopInv'
  BY <1>b, <1>26, ActorFacts, Typed DEF DriverLoaded, LoopInv, StartPlaces, MemberPlaces,
     FinishPlaces, CreatePlaces, WaitPlaces, GroupType, MainType, PlaceType
<1>27. ASSUME NEW b \in BOOLEAN, ScriptEnds(b) PROVE LoopInv'
  BY <1>b, <1>27, ActorFacts, Typed DEF ScriptEnds, LoopInv, StartPlaces, MemberPlaces,
     FinishPlaces, CreatePlaces, WaitPlaces, GroupType, MainType, PlaceType
<1>28. ASSUME JoinAllThreads PROVE LoopInv'
  <2>1. next > 0 /\ round < MaxTimeOuts
    BY <1>28, <1>b DEF JoinAllThreads, LoopInv
  <2>2. UNCHANGED <<size, next, status>>
    BY <1>28 DEF JoinAllThreads
  <2>3. CASE pc'[Main] = "backtrack"
    BY <2>1, <2>2, <2>3 DEF LoopInv, StartPlaces, MemberPlaces, FinishPlaces,
       CreatePlaces, WaitPlaces
  <2>4. CASE pc'[Main] = "member" /\ on'[Main] = 1 /\ timedOut' = 0
          /\ round' = round + 1 /\ round + 1 < MaxTimeOuts
    BY <2>1, <2>2, <2>4, <1>b, Typed, ActorFacts DEF LoopInv, StartPlaces, MemberPlaces,
       FinishPlaces, CreatePlaces, WaitPlaces, MainType
  <2>5. QED
    BY <1>28, <2>3, <2>4, <1>b, ActorFacts DEF JoinAllThreads, TypeInv, PlaceType, OnType
<1>29. ASSUME LooksAtMember PROVE LoopInv'
  <2>1. next > 0 /\ on[Main] <= size + 1 /\ timedOut < on[Main]
          /\ round \in 0..(MaxTimeOuts - 1)
    BY <1>29, <1>b DEF LooksAtMember, LoopInv, MemberPlaces
  <2>2. UNCHANGED <<size, next, status, timedOut, round>>
    BY <1>29 DEF LooksAtMember
  <2>3. CASE pc'[Main] \in {"backtrack", "joinAll"}
    BY <2>1, <2>2, <2>3, ActorFacts DEF LoopInv, StartPlaces, MemberPlaces, FinishPlaces,
       CreatePlaces, WaitPlaces
  <2>4. CASE pc'[Main] = "wait" /\ on' = on /\ on[Main] <= size
          /\ status[on[Main]] # Passive
    BY <2>1, <2>2, <2>4, Typed, ActorFacts DEF LoopInv, StartPlaces, MemberPlaces,
       FinishPlaces, CreatePlaces, WaitPlaces
  <2>5. CASE pc'[Main] = "member" /\ on[Main] <= size /\ on'[Main] = on[Main] + 1
    BY <2>1, <2>2, <2>5, <1>b, Typed, ActorFacts DEF LoopInv, StartPlaces, MemberPlaces,
       FinishPlaces, CreatePlaces, WaitPlaces, MainType
  <2>6. QED
    BY <1>29, <2>3, <2>4, <2>5, <1>b, ActorFacts DEF LooksAtMember, TypeInv, PlaceType,
       OnType
<1>30. ASSUME Backtrack PROVE LoopInv'
  <2>1. next > 0
    BY <1>30, <1>b DEF Backtrack, LoopInv
  <2>2. UNCHANGED <<size, next, status, timedOut, round>>
    BY <1>30 DEF Backtrack
  <2>3. pc'[Main] = "begin" \/ (pc'[Main] = "finish" /\ on'[Main] = 1)
    BY <1>30, <1>b, ActorFacts DEF Backtrack, TypeInv, PlaceType, OnType, Driver
  <2>4. QED
    BY <2>1, <2>2, <2>3, Typed, ActorFacts, <1>b DEF LoopInv, StartPlaces, MemberPlaces,
       FinishPlaces, CreatePlaces, WaitPlaces
<1>31. ASSUME FinishesMember PROVE LoopInv'
  BY <1>b, <1>31, ActorFacts, Typed DEF FinishesMember, LoopInv, StartPlaces,
     MemberPlaces, FinishPlaces, CreatePlaces, WaitPlaces, GroupType, MainType, PlaceType
<1>32. ASSUME SendsTerminate PROVE LoopInv'
  BY <1>b, <1>32, ActorFacts, Typed DEF SendsTerminate, LoopInv, StartPlaces,
     MemberPlaces, FinishPlaces, CreatePlaces, WaitPlaces, GroupType, MainType, PlaceType
<1>33. ASSUME Cancels PROVE LoopInv'
  BY <1>b, <1>33, ActorFacts, Typed DEF Cancels, LoopInv, StartPlaces, MemberPlaces,
     FinishPlaces, CreatePlaces, WaitPlaces, GroupType, MainType, PlaceType
<1>34. ASSUME JoinPthread PROVE LoopInv'
  BY <1>b, <1>34, ActorFacts, Typed DEF JoinPthread, LoopInv, StartPlaces, MemberPlaces,
     FinishPlaces, CreatePlaces, WaitPlaces, GroupType, MainType, PlaceType
<1>35. ASSUME Kept PROVE LoopInv'
  BY <1>b, <1>35 DEF Kept, LoopInv, StartPlaces, MemberPlaces, FinishPlaces, CreatePlaces,
     WaitPlaces, GroupType, MainType, PlaceType
<1>36. QED
  BY <1>1, <1>2, <1>3, <1>4, <1>5, <1>6, <1>7, <1>8, <1>9, <1>10, <1>11, <1>12, <1>13,
     <1>14, <1>15, <1>16, <1>17, <1>18, <1>19, <1>20, <1>21, <1>22, <1>23, <1>24, <1>25,
     <1>26, <1>27, <1>28, <1>29, <1>30, <1>31, <1>32, <1>33, <1>34, <1>35 DEF Effect

\* A signal wakes one of those that wait on the channel, if there are any.
LEMMA SignalEffect ==
  ASSUME NEW s, Signal(s)
  PROVE  \/ /\ woken' = woken
            /\ \A w \in Actors : w \notin woken /\ pc[w] \in InWait => ChannelOf(w) # s
         \/ \E w \in Actors : /\ w \notin woken /\ pc[w] \in InWait /\ ChannelOf(w) = s
                             /\ woken' = woken \cup {w}
BY DEF Signal

\* Whoever a signal wakes waits on that channel.
LEMMA SignalWakesWaiter ==
  ASSUME NEW s, Signal(s)
  PROVE  woken \subseteq woken' /\ \A a \in woken' : a \in woken \/ (a \in Actors
           /\ pc[a] \in InWait /\ ChannelOf(a) = s)
BY SignalEffect

\* Every step keeps the owners of the locks.
LEMMA OwnerStep ==
  ASSUME BaseInv, Effect \/ Kept
  PROVE  OwnerInv'
<1>b. TypeInv /\ LoopInv /\ OwnerInv /\ PlaceType /\ OnType /\ LockType /\ StatusInv
  BY DEF BaseInv, TypeInv
<1>1. ASSUME NEW a \in Actors, Chooses(a) PROVE OwnerInv'
  BY <1>b, <1>1, ActorFacts, Typed DEF Chooses, OwnerInv, PlaceType, OnType, LockType,
     StartPlaces, CreatePlaces, WaitPlaces, InWait
<1>2. ASSUME NEW a \in Actors, Spawns(a) PROVE OwnerInv'
  <2>1. on[a] \in Tids /\ on[a] \in Actors
    BY <1>2, <1>b, OnMember, ActorFacts DEF Spawns, StartPlaces, CreatePlaces
  <2>2. pc[on[a]] \in {"absent", "entry", "dead"}
    BY <1>2, <2>1, <1>b DEF Spawns, StatusInv, StatusOf
  <2>3. QED
    BY <1>2, <2>1, <2>2, <1>b, ActorFacts DEF Spawns, OwnerInv, PlaceType, OnType,
       LockType, StartPlaces, CreatePlaces, WaitPlaces, InWait
<1>3. ASSUME NEW a \in Actors, Restarts(a) PROVE OwnerInv'
  <2>1. \A b \in woken' : b \in woken \/ (b \in Actors /\ pc[b] \in InWait)
    BY <1>3, SignalWakesWaiter DEF Restarts, Put
  <2>2. \A b \in woken' : pc'[b] \in InWait
    BY <1>3, <2>1, <1>b, ActorFacts DEF Restarts, OwnerInv, PlaceType, OnType, LockType,
       StartPlaces, CreatePlaces, WaitPlaces, InWait
  <2>3. QED
    BY <1>3, <2>2, <1>b, ActorFacts DEF Restarts, OwnerInv, PlaceType, OnType, LockType,
       StartPlaces, CreatePlaces, WaitPlaces
<1>4. ASSUME NEW a \in Actors, TakesStarted(a) PROVE OwnerInv'
  BY <1>b, <1>4, ActorFacts, Typed DEF TakesStarted, OwnerInv, PlaceType, OnType,
     LockType, StartPlaces, CreatePlaces, WaitPlaces, InWait
<1>5. ASSUME NEW a \in Actors, FirstSignal(a) PROVE OwnerInv'
  BY <1>b, <1>5, ActorFacts, Typed DEF FirstSignal, OwnerInv, PlaceType, OnType, LockType,
     StartPlaces, CreatePlaces, WaitPlaces, InWait
<1>6. ASSUME NEW a \in Actors, SendsTransfer(a) PROVE OwnerInv'
  <2>1. \A b \in woken' : b \in woken \/ (b \in Actors /\ pc[b] \in InWait)
    BY <1>6, SignalWakesWaiter DEF SendsTransfer, Put
  <2>2. \A b \in woken' : pc'[b] \in InWait
    BY <1>6, <2>1, <1>b, ActorFacts DEF SendsTransfer, OwnerInv, PlaceType, OnType,
       LockType, StartPlaces, CreatePlaces, WaitPlaces, InWait
  <2>3. QED
    BY <1>6, <2>2, <1>b, ActorFacts DEF SendsTransfer, OwnerInv, PlaceType, OnType,
       LockType, StartPlaces, CreatePlaces, WaitPlaces
<1>7. ASSUME NEW a \in Actors, BeginsWait(a) PROVE OwnerInv'
  BY <1>b, <1>7, ActorFacts, Typed DEF BeginsWait, OwnerInv, PlaceType, OnType, LockType,
     StartPlaces, CreatePlaces, WaitPlaces, InWait
<1>8. ASSUME NEW a \in Actors, TakeToken(a) PROVE OwnerInv'
  BY <1>b, <1>8, ActorFacts, Typed DEF TakeToken, OwnerInv, PlaceType, OnType, LockType,
     StartPlaces, CreatePlaces, WaitPlaces, InWait
<1>9. ASSUME NEW a \in Actors, GiveBack(a) PROVE OwnerInv'
  BY <1>b, <1>9, ActorFacts, Typed DEF GiveBack, OwnerInv, PlaceType, OnType, LockType,
     StartPlaces, CreatePlaces, WaitPlaces, InWait
<1>10. ASSUME NEW t \in Tids, JoinReturns(t) PROVE OwnerInv'
  BY <1>b, <1>10, ActorFacts, Typed DEF JoinReturns, OwnerInv, PlaceType, OnType,
     LockType, StartPlaces, CreatePlaces, WaitPlaces, InWait
<1>11. ASSUME NEW t \in Tids, LockPthread(t, "callCreate", "create") PROVE OwnerInv'
  BY <1>b, <1>11, ActorFacts, Typed DEF LockPthread, OwnerInv, PlaceType, OnType,
     LockType, StartPlaces, CreatePlaces, WaitPlaces, InWait
<1>12. ASSUME NEW t \in Tids, LockPthread(t, "callJoin", "wait") PROVE OwnerInv'
  BY <1>b, <1>12, ActorFacts, Typed DEF LockPthread, OwnerInv, PlaceType, OnType,
     LockType, StartPlaces, CreatePlaces, WaitPlaces, InWait
<1>13. ASSUME NEW t \in Tids, SutMoves(t) PROVE OwnerInv'
  BY <1>b, <1>13, ActorFacts, Typed DEF SutMoves, OwnerInv, PlaceType, OnType, LockType,
     StartPlaces, CreatePlaces, WaitPlaces, InWait
<1>14. ASSUME NEW t \in Tids, CallCreate(t) PROVE OwnerInv'
  BY <1>b, <1>14, ActorFacts, Typed DEF CallCreate, OwnerInv, PlaceType, OnType, LockType,
     StartPlaces, CreatePlaces, WaitPlaces, InWait
<1>15. ASSUME NEW t \in Tids, SetsStarted(t) PROVE OwnerInv'
  BY <1>b, <1>15, ActorFacts, Typed DEF SetsStarted, OwnerInv, PlaceType, OnType,
     LockType, StartPlaces, CreatePlaces, WaitPlaces, InWait
<1>16. ASSUME NEW t \in Tids, SendsStarted(t) PROVE OwnerInv'
  <2>1. \A b \in woken' : b \in woken \/ (b \in Actors /\ pc[b] \in InWait)
    BY <1>16, SignalWakesWaiter DEF SendsStarted, Put
  <2>2. \A b \in woken' : pc'[b] \in InWait
    BY <1>16, <2>1, <1>b, ActorFacts DEF SendsStarted, OwnerInv, PlaceType, OnType,
       LockType, StartPlaces, CreatePlaces, WaitPlaces, InWait
  <2>3. QED
    BY <1>16, <2>2, <1>b, ActorFacts DEF SendsStarted, OwnerInv, PlaceType, OnType,
       LockType, StartPlaces, CreatePlaces, WaitPlaces
<1>17. ASSUME NEW t \in Tids, Receives(t) PROVE OwnerInv'
  BY <1>b, <1>17, ActorFacts, Typed DEF Receives, OwnerInv, PlaceType, OnType, LockType,
     StartPlaces, CreatePlaces, WaitPlaces, InWait
<1>18. ASSUME NEW t \in Tids, Enable(t) PROVE OwnerInv'
  BY <1>b, <1>18, ActorFacts, Typed DEF Enable, OwnerInv, PlaceType, OnType, LockType,
     StartPlaces, CreatePlaces, WaitPlaces, InWait
<1>19. ASSUME NEW t \in Tids, SetEnded(t) PROVE OwnerInv'
  BY <1>b, <1>19, ActorFacts, Typed DEF SetEnded, OwnerInv, PlaceType, OnType, LockType,
     StartPlaces, CreatePlaces, WaitPlaces, InWait
<1>20. ASSUME NEW t \in Tids, SecondSignal(t) PROVE OwnerInv'
  BY <1>b, <1>20, ActorFacts, Typed DEF SecondSignal, OwnerInv, PlaceType, OnType,
     LockType, StartPlaces, CreatePlaces, WaitPlaces, InWait
<1>21. ASSUME NEW t \in Tids, Terminate(t) PROVE OwnerInv'
  BY <1>b, <1>21, ActorFacts, Typed DEF Terminate, OwnerInv, PlaceType, OnType, LockType,
     StartPlaces, CreatePlaces, WaitPlaces, InWait
<1>22. ASSUME NEW t \in Tids, NEW u \in Tids, Joins(t, u) PROVE OwnerInv'
  BY <1>b, <1>22, ActorFacts, Typed DEF Joins, OwnerInv, PlaceType, OnType, LockType,
     StartPlaces, CreatePlaces, WaitPlaces, InWait
<1>23. ASSUME MainPasses PROVE OwnerInv'
  BY <1>b, <1>23, ActorFacts, Typed DEF MainPasses, OwnerInv, PlaceType, OnType, LockType,
     StartPlaces, CreatePlaces, WaitPlaces, InWait
<1>24. ASSUME WaitTimeout PROVE OwnerInv'
  BY <1>b, <1>24, ActorFacts, Typed DEF WaitTimeout, OwnerInv, PlaceType, OnType,
     LockType, StartPlaces, CreatePlaces, WaitPlaces, InWait
<1>25. ASSUME Begin PROVE OwnerInv'
  <2>1. ~Finishing /\ Waited
    BY <1>25 DEF Begin, Finishing, Waited
  <2>2. cmx = Nobody
    <3>1. ASSUME cmx # Nobody PROVE FALSE
      <4>1. cmx \in Actors /\ pc[cmx] \in StartPlaces /\ cmx # Main
        BY <1>25, <3>1, <1>b, ActorFacts DEF Begin, OwnerInv, LockType, StartPlaces,
           CreatePlaces
      <4>2. QED
        BY <4>1, <2>1, SettledPlace, ActorFacts DEF StartPlaces, CreatePlaces, Calls
    <3>2. QED
      BY <3>1
  <2>3. QED
    BY <1>25, <2>2, <1>b, ActorFacts DEF Begin, OwnerInv, PlaceType, OnType, LockType,
       StartPlaces, CreatePlaces, WaitPlaces, InWait
<1>26. ASSUME DriverLoaded PROVE OwnerInv'
  BY <1>b, <1>26, ActorFacts, Typed DEF DriverLoaded, OwnerInv, PlaceType, OnType,
     LockType, StartPlaces, CreatePlaces, WaitPlaces, InWait
<1>27. ASSUME NEW b \in BOOLEAN, ScriptEnds(b) PROVE OwnerInv'
  BY <1>b, <1>27, ActorFacts, Typed DEF ScriptEnds, OwnerInv, PlaceType, OnType, LockType,
     StartPlaces, CreatePlaces, WaitPlaces, InWait
<1>28. ASSUME JoinAllThreads PROVE OwnerInv'
  BY <1>b, <1>28, ActorFacts, Typed DEF JoinAllThreads, OwnerInv, PlaceType, OnType,
     LockType, StartPlaces, CreatePlaces, WaitPlaces, InWait
<1>29. ASSUME LooksAtMember PROVE OwnerInv'
  BY <1>b, <1>29, ActorFacts, Typed DEF LooksAtMember, OwnerInv, PlaceType, OnType,
     LockType, StartPlaces, CreatePlaces, WaitPlaces, InWait
<1>30. ASSUME Backtrack PROVE OwnerInv'
  BY <1>b, <1>30, ActorFacts, Typed DEF Backtrack, OwnerInv, PlaceType, OnType, LockType,
     StartPlaces, CreatePlaces, WaitPlaces, InWait
<1>31. ASSUME FinishesMember PROVE OwnerInv'
  BY <1>b, <1>31, ActorFacts, Typed DEF FinishesMember, OwnerInv, PlaceType, OnType,
     LockType, StartPlaces, CreatePlaces, WaitPlaces, InWait
<1>32. ASSUME SendsTerminate PROVE OwnerInv'
  <2>1. \A b \in woken' : b \in woken \/ (b \in Actors /\ pc[b] \in InWait)
    BY <1>32, SignalWakesWaiter DEF SendsTerminate, Put
  <2>2. \A b \in woken' : pc'[b] \in InWait
    BY <1>32, <2>1, <1>b, ActorFacts DEF SendsTerminate, OwnerInv, PlaceType, OnType,
       LockType, StartPlaces, CreatePlaces, WaitPlaces, InWait
  <2>3. QED
    BY <1>32, <2>2, <1>b, ActorFacts DEF SendsTerminate, OwnerInv, PlaceType, OnType,
       LockType, StartPlaces, CreatePlaces, WaitPlaces
<1>33. ASSUME Cancels PROVE OwnerInv'
  BY <1>b, <1>33, ActorFacts, Typed DEF Cancels, OwnerInv, PlaceType, OnType, LockType,
     StartPlaces, CreatePlaces, WaitPlaces, InWait
<1>34. ASSUME JoinPthread PROVE OwnerInv'
  BY <1>b, <1>34, ActorFacts, Typed DEF JoinPthread, OwnerInv, PlaceType, OnType,
     LockType, StartPlaces, CreatePlaces, WaitPlaces, InWait
<1>35. ASSUME Kept PROVE OwnerInv'
  BY <1>b, <1>35 DEF Kept, OwnerInv, PlaceType, OnType, LockType, StartPlaces,
     CreatePlaces, WaitPlaces, InWait
<1>36. QED
  BY <1>1, <1>2, <1>3, <1>4, <1>5, <1>6, <1>7, <1>8, <1>9, <1>10, <1>11, <1>12, <1>13,
     <1>14, <1>15, <1>16, <1>17, <1>18, <1>19, <1>20, <1>21, <1>22, <1>23, <1>24, <1>25,
     <1>26, <1>27, <1>28, <1>29, <1>30, <1>31, <1>32, <1>33, <1>34, <1>35 DEF Effect

\* There are finitely many callers; one more or one less counts as such.
LEMMA CallersFinite ==
  ASSUME NEW S, S \subseteq Tids
  PROVE  /\ IsFiniteSet(S) /\ Cardinality(S) \in Nat
         /\ \A t \in Tids : t \notin S => Cardinality(S \cup {t}) = Cardinality(S) + 1
         /\ \A t \in Tids : t \in S => Cardinality(S \ {t}) = Cardinality(S) - 1
<1>1. IsFiniteSet(Tids)
  BY FS_Interval, ActorFacts DEF Tids
<1>2. IsFiniteSet(S)
  BY <1>1, FS_Subset
<1>3. QED
  BY <1>2, FS_CardinalityType, FS_AddElement, FS_RemoveElement

\* Every step leaves a place for each caller of pthread_create.
LEMMA RoomStep ==
  ASSUME BaseInv, Effect \/ Kept
  PROVE  RoomInv'
<1>b. TypeInv /\ LoopInv /\ RoomInv /\ PlaceType /\ StatusInv
  BY DEF BaseInv, TypeInv
<1>c. Callers \subseteq Tids /\ Cardinality(Callers) \in Nat
  BY CallersFinite DEF Callers
<1>1. ASSUME NEW a \in Actors, Chooses(a) PROVE RoomInv'
  <2>1. next' = next + 1
    BY <1>1 DEF Chooses
  <2>2. CASE a = Main
    <3>1. Callers' = Callers
      BY <1>1, <2>2, <1>b, ActorFacts DEF Chooses, Callers, PlaceType
    <3>2. next = 0
      BY <1>1, <2>2, <1>b DEF Chooses, LoopInv
    <3>3. QED
      BY <2>1, <3>1, <3>2, <1>b, <1>c, ActorFacts DEF RoomInv
  <2>3. CASE a \in Tids
    <3>1. Callers' = Callers \ {a} /\ a \in Callers
      BY <1>1, <2>3, <1>b, ActorFacts DEF Chooses, Callers, PlaceType
    <3>2. Cardinality(Callers') = Cardinality(Callers) - 1
      BY <3>1, <2>3, <1>c, CallersFinite
    <3>3. QED
      BY <2>1, <3>2, <1>b, <1>c, Typed, ActorFacts DEF RoomInv
  <2>4. QED
    BY <2>2, <2>3, ActorFacts
<1>2. ASSUME NEW a \in Actors, Spawns(a) PROVE RoomInv'
  <2>1. on[a] \in Tids /\ on[a] \in Actors
    BY <1>2, <1>b, OnMember, ActorFacts DEF Spawns, StartPlaces, CreatePlaces
  <2>2. pc[on[a]] \in {"absent", "entry", "dead"}
    BY <1>2, <2>1, <1>b DEF Spawns, StatusInv, StatusOf
  <2>3. Callers' = Callers
    BY <1>2, <2>1, <2>2, <1>b, ActorFacts DEF Spawns, Callers, PlaceType
  <2>4. next' = next
    BY <1>2 DEF Spawns
  <2>5. QED
    BY <2>3, <2>4, <1>b DEF RoomInv
<1>3. ASSUME NEW a \in Actors, Restarts(a) PROVE RoomInv'
  <2>1. Callers' = Callers
    BY <1>3, <1>b, ActorFacts DEF Restarts, Callers, PlaceType
  <2>2. next' = next
    BY <1>3 DEF Restarts, Put
  <2>3. QED
    BY <2>1, <2>2, <1>b DEF RoomInv
<1>4. ASSUME NEW a \in Actors, TakesStarted(a) PROVE RoomInv'
  <2>1. Callers' = Callers
    BY <1>4, <1>b, ActorFacts DEF TakesStarted, Callers, PlaceType
  <2>2. next' = next
    BY <1>4 DEF TakesStarted, Put
  <2>3. QED
    BY <2>1, <2>2, <1>b DEF RoomInv
<1>5. ASSUME NEW a \in Actors, FirstSignal(a) PROVE RoomInv'
  <2>1. Callers' = Callers
    BY <1>5, <1>b, ActorFacts DEF FirstSignal, Callers, PlaceType
  <2>2. next' = next
    BY <1>5 DEF FirstSignal
  <2>3. QED
    BY <2>1, <2>2, <1>b DEF RoomInv
<1>6. ASSUME NEW a \in Actors, SendsTransfer(a) PROVE RoomInv'
  <2>1. Callers' = Callers
    BY <1>6, <1>b, ActorFacts DEF SendsTransfer, Callers, PlaceType
  <2>2. next' = next
    BY <1>6 DEF SendsTransfer, Put
  <2>3. QED
    BY <2>1, <2>2, <1>b DEF RoomInv
<1>7. ASSUME NEW a \in Actors, BeginsWait(a) PROVE RoomInv'
  <2>1. Callers' = Callers
    BY <1>7, <1>b, ActorFacts DEF BeginsWait, Callers, PlaceType
  <2>2. next' = next
    BY <1>7 DEF BeginsWait
  <2>3. QED
    BY <2>1, <2>2, <1>b DEF RoomInv
<1>8. ASSUME NEW a \in Actors, TakeToken(a) PROVE RoomInv'
  <2>1. Callers' = Callers
    BY <1>8, <1>b, ActorFacts DEF TakeToken, Callers, PlaceType
  <2>2. next' = next
    BY <1>8 DEF TakeToken
  <2>3. QED
    BY <2>1, <2>2, <1>b DEF RoomInv
<1>9. ASSUME NEW a \in Actors, GiveBack(a) PROVE RoomInv'
  <2>1. Callers' = Callers
    BY <1>9, <1>b, ActorFacts DEF GiveBack, Callers, PlaceType
  <2>2. next' = next
    BY <1>9 DEF GiveBack
  <2>3. QED
    BY <2>1, <2>2, <1>b DEF RoomInv
<1>10. ASSUME NEW t \in Tids, JoinReturns(t) PROVE RoomInv'
  <2>1. Callers' = Callers
    BY <1>10, <1>b, ActorFacts DEF JoinReturns, Callers, PlaceType
  <2>2. next' = next
    BY <1>10 DEF JoinReturns
  <2>3. QED
    BY <2>1, <2>2, <1>b DEF RoomInv
<1>11. ASSUME NEW t \in Tids, LockPthread(t, "callCreate", "create") PROVE RoomInv'
  <2>1. Callers' = Callers
    BY <1>11, <1>b, ActorFacts DEF LockPthread, Callers, PlaceType
  <2>2. next' = next
    BY <1>11 DEF LockPthread
  <2>3. QED
    BY <2>1, <2>2, <1>b DEF RoomInv
<1>12. ASSUME NEW t \in Tids, LockPthread(t, "callJoin", "wait") PROVE RoomInv'
  <2>1. Callers' = Callers
    BY <1>12, <1>b, ActorFacts DEF LockPthread, Callers, PlaceType
  <2>2. next' = next
    BY <1>12 DEF LockPthread
  <2>3. QED
    BY <2>1, <2>2, <1>b DEF RoomInv
<1>13. ASSUME NEW t \in Tids, SutMoves(t) PROVE RoomInv'
  <2>1. Callers' = Callers
    BY <1>13, <1>b, ActorFacts DEF SutMoves, Callers, PlaceType
  <2>2. next' = next
    BY <1>13 DEF SutMoves
  <2>3. QED
    BY <2>1, <2>2, <1>b DEF RoomInv
<1>14. ASSUME NEW t \in Tids, CallCreate(t) PROVE RoomInv'
  <2>1. Callers' = Callers \cup {t} /\ t \notin Callers
    BY <1>14, <1>b, ActorFacts DEF CallCreate, Callers, PlaceType
  <2>2. Cardinality(Callers') = Cardinality(Callers) + 1
    BY <2>1, <1>c, CallersFinite
  <2>3. next' = next /\ next + Cardinality(Callers) < MaxThreads
    BY <1>14 DEF CallCreate, Callers
  <2>4. next > 0
    BY <1>14, SettledPlace, <1>b DEF CallCreate, Calls, LoopInv, Finishing
  <2>5. QED
    BY <2>2, <2>3, <2>4, <1>c, Typed, <1>b, ActorFacts DEF RoomInv
<1>15. ASSUME NEW t \in Tids, SetsStarted(t) PROVE RoomInv'
  <2>1. Callers' = Callers
    BY <1>15, <1>b, ActorFacts DEF SetsStarted, Callers, PlaceType
  <2>2. next' = next
    BY <1>15 DEF SetsStarted
  <2>3. QED
    BY <2>1, <2>2, <1>b DEF RoomInv
<1>16. ASSUME NEW t \in Tids, SendsStarted(t) PROVE RoomInv'
  <2>1. Callers' = Callers
    BY <1>16, <1>b, ActorFacts DEF SendsStarted, Callers, PlaceType
  <2>2. next' = next
    BY <1>16 DEF SendsStarted, Put
  <2>3. QED
    BY <2>1, <2>2, <1>b DEF RoomInv
<1>17. ASSUME NEW t \in Tids, Receives(t) PROVE RoomInv'
  <2>1. Callers' = Callers
    BY <1>17, <1>b, ActorFacts DEF Receives, Callers, PlaceType
  <2>2. next' = next
    BY <1>17 DEF Receives, Put
  <2>3. QED
    BY <2>1, <2>2, <1>b DEF RoomInv
<1>18. ASSUME NEW t \in Tids, Enable(t) PROVE RoomInv'
  <2>1. Callers' = Callers
    BY <1>18, <1>b, ActorFacts DEF Enable, Callers, PlaceType
  <2>2. next' = next
    BY <1>18 DEF Enable
  <2>3. QED
    BY <2>1, <2>2, <1>b DEF RoomInv
<1>19. ASSUME NEW t \in Tids, SetEnded(t) PROVE RoomInv'
  <2>1. Callers' = Callers
    BY <1>19, <1>b, ActorFacts DEF SetEnded, Callers, PlaceType
  <2>2. next' = next
    BY <1>19 DEF SetEnded
  <2>3. QED
    BY <2>1, <2>2, <1>b DEF RoomInv
<1>20. ASSUME NEW t \in Tids, SecondSignal(t) PROVE RoomInv'
  <2>1. Callers' = Callers
    BY <1>20, <1>b, ActorFacts DEF SecondSignal, Callers, PlaceType
  <2>2. next' = next
    BY <1>20 DEF SecondSignal
  <2>3. QED
    BY <2>1, <2>2, <1>b DEF RoomInv
<1>21. ASSUME NEW t \in Tids, Terminate(t) PROVE RoomInv'
  <2>1. Callers' = Callers
    BY <1>21, <1>b, ActorFacts DEF Terminate, Callers, PlaceType
  <2>2. next' = next
    BY <1>21 DEF Terminate
  <2>3. QED
    BY <2>1, <2>2, <1>b DEF RoomInv
<1>22. ASSUME NEW t \in Tids, NEW u \in Tids, Joins(t, u) PROVE RoomInv'
  <2>1. Callers' = Callers
    BY <1>22, <1>b, ActorFacts DEF Joins, Callers, PlaceType
  <2>2. next' = next
    BY <1>22 DEF Joins
  <2>3. QED
    BY <2>1, <2>2, <1>b DEF RoomInv
<1>23. ASSUME MainPasses PROVE RoomInv'
  <2>1. Callers' = Callers
    BY <1>23, <1>b, ActorFacts DEF MainPasses, Callers, PlaceType
  <2>2. next' = next
    BY <1>23 DEF MainPasses
  <2>3. QED
    BY <2>1, <2>2, <1>b DEF RoomInv
<1>24. ASSUME WaitTimeout PROVE RoomInv'
  <2>1. Callers' = Callers
    BY <1>24, <1>b, ActorFacts DEF WaitTimeout, Callers, PlaceType
  <2>2. next' = next
    BY <1>24 DEF WaitTimeout
  <2>3. QED
    BY <2>1, <2>2, <1>b DEF RoomInv
<1>25. ASSUME Begin PROVE RoomInv'
  <2>1. Callers' = Callers
    BY <1>25, <1>b, ActorFacts DEF Begin, Callers, PlaceType
  <2>2. next' = 0
    BY <1>25 DEF Begin, RestartGroup
  <2>3. QED
    BY <2>1, <2>2, <1>b, <1>c, ActorFacts DEF RoomInv
<1>26. ASSUME DriverLoaded PROVE RoomInv'
  <2>1. Callers' = Callers
    BY <1>26, <1>b, ActorFacts DEF DriverLoaded, Callers, PlaceType
  <2>2. next' = next
    BY <1>26 DEF DriverLoaded
  <2>3. QED
    BY <2>1, <2>2, <1>b DEF RoomInv
<1>27. ASSUME NEW b \in BOOLEAN, ScriptEnds(b) PROVE RoomInv'
  <2>1. Callers' = Callers
    BY <1>27, <1>b, ActorFacts DEF ScriptEnds, Callers, PlaceType
  <2>2. next' = next
    BY <1>27 DEF ScriptEnds
  <2>3. QED
    BY <2>1, <2>2, <1>b DEF RoomInv
<1>28. ASSUME JoinAllThreads PROVE RoomInv'
  <2>1. Callers' = Callers
    BY <1>28, <1>b, ActorFacts DEF JoinAllThreads, Callers, PlaceType
  <2>2. next' = next
    BY <1>28 DEF JoinAllThreads
  <2>3. QED
    BY <2>1, <2>2, <1>b DEF RoomInv
<1>29. ASSUME LooksAtMember PROVE RoomInv'
  <2>1. Callers' = Callers
    BY <1>29, <1>b, ActorFacts DEF LooksAtMember, Callers, PlaceType
  <2>2. next' = next
    BY <1>29 DEF LooksAtMember
  <2>3. QED
    BY <2>1, <2>2, <1>b DEF RoomInv
<1>30. ASSUME Backtrack PROVE RoomInv'
  <2>1. Callers' = Callers
    BY <1>30, <1>b, ActorFacts DEF Backtrack, Callers, PlaceType
  <2>2. next' = next
    BY <1>30 DEF Backtrack
  <2>3. QED
    BY <2>1, <2>2, <1>b DEF RoomInv
<1>31. ASSUME FinishesMember PROVE RoomInv'
  <2>1. Callers' = Callers
    BY <1>31, <1>b, ActorFacts DEF FinishesMember, Callers, PlaceType
  <2>2. next' = next
    BY <1>31 DEF FinishesMember
  <2>3. QED
    BY <2>1, <2>2, <1>b DEF RoomInv
<1>32. ASSUME SendsTerminate PROVE RoomInv'
  <2>1. Callers' = Callers
    BY <1>32, <1>b, ActorFacts DEF SendsTerminate, Callers, PlaceType
  <2>2. next' = next
    BY <1>32 DEF SendsTerminate, Put
  <2>3. QED
    BY <2>1, <2>2, <1>b DEF RoomInv
<1>33. ASSUME Cancels PROVE RoomInv'
  <2>1. Callers' \subseteq Callers
    BY <1>33, <1>b, ActorFacts DEF Cancels, Callers, PlaceType
  <2>2. Cardinality(Callers') <= Cardinality(Callers) /\ Cardinality(Callers') \in Nat
    BY <2>1, <1>c, CallersFinite, FS_Subset
  <2>3. next' = next
    BY <1>33 DEF Cancels
  <2>4. QED
    BY <2>2, <2>3, <1>b, <1>c, Typed, ActorFacts DEF RoomInv
<1>34. ASSUME JoinPthread PROVE RoomInv'
  <2>1. Callers' = Callers
    BY <1>34, <1>b, ActorFacts DEF JoinPthread, Callers, PlaceType
  <2>2. next' = next
    BY <1>34 DEF JoinPthread
  <2>3. QED
    BY <2>1, <2>2, <1>b DEF RoomInv
<1>35. ASSUME Kept PROVE RoomInv'
  BY <1>b, <1>35 DEF Kept, RoomInv, Callers
<1>36. QED
  BY <1>1, <1>2, <1>3, <1>4, <1>5, <1>6, <1>7, <1>8, <1>9, <1>10, <1>11, <1>12, <1>13,
     <1>14, <1>15, <1>16, <1>17, <1>18, <1>19, <1>20, <1>21, <1>22, <1>23, <1>24, <1>25,
     <1>26, <1>27, <1>28, <1>29, <1>30, <1>31, <1>32, <1>33, <1>34, <1>35 DEF Effect

\* Every step keeps status, channel and place of a thread in line.
LEMMA StatusStep ==
  ASSUME BaseInv, Effect \/ Kept
  PROVE  StatusInv'
<1>b. TypeInv /\ LoopInv /\ OwnerInv /\ StatusInv /\ PlaceType /\ OnType /\ LockType
        /\ ThreadType
  BY DEF BaseInv, TypeInv
<1>c. \A s \in Tids : StatusOf(s)
  BY <1>b DEF StatusInv
<1>1. ASSUME NEW a \in Actors, Chooses(a) PROVE StatusInv'
  <2>1. ASSUME NEW s \in Tids PROVE StatusOf(s)'
    BY <1>1, <1>b, <1>c, ActorFacts DEF Chooses, StatusOf, CreatedAt, PlaceType, OnType,
       LockType, ThreadType, Running, Calls, CreatePlaces, WaitPlaces
  <2>2. QED
    BY <2>1 DEF StatusInv
<1>2. ASSUME NEW a \in Actors, Spawns(a) PROVE StatusInv'
  <2>1. cmx = a /\ on[a] \in Tids /\ on[a] \in Actors
    BY <1>2, <1>b, OnMember, ActorFacts DEF Spawns, OwnerInv, StartPlaces, CreatePlaces
  <2>2. StatusOf(on[a])
    BY <1>c, <2>1
  <2>3. ASSUME NEW s \in Tids PROVE StatusOf(s)'
    <3>1. StatusOf(s)
      BY <1>c
    <3>2. QED
      BY <1>2, <2>1, <2>2, <2>3, <3>1, <1>b, ActorFacts DEF Spawns, StatusOf, CreatedAt,
         PlaceType, OnType, LockType, ThreadType, Running, Calls, CreatePlaces, WaitPlaces
  <2>4. QED
    BY <2>3 DEF StatusInv
<1>3. ASSUME NEW a \in Actors, Restarts(a) PROVE StatusInv'
  <2>1. cmx = a /\ on[a] \in Tids /\ on[a] \in Actors
    BY <1>3, <1>b, OnMember, ActorFacts DEF Restarts, OwnerInv, StartPlaces, CreatePlaces
  <2>2. StatusOf(on[a])
    BY <1>c, <2>1
  <2>3. ASSUME NEW s \in Tids PROVE StatusOf(s)'
    <3>1. StatusOf(s)
      BY <1>c
    <3>2. QED
      BY <1>3, <2>1, <2>2, <2>3, <3>1, <1>b, ActorFacts DEF Restarts, Put, StatusOf,
         CreatedAt, PlaceType, OnType, LockType, ThreadType, Running, Calls, CreatePlaces,
         WaitPlaces
  <2>4. QED
    BY <2>3 DEF StatusInv
<1>4. ASSUME NEW a \in Actors, TakesStarted(a) PROVE StatusInv'
  <2>1. ASSUME NEW s \in Tids PROVE StatusOf(s)'
    BY <1>4, <1>b, <1>c, ActorFacts DEF TakesStarted, StatusOf, CreatedAt, PlaceType,
       OnType, LockType, ThreadType, Running, Calls, CreatePlaces, WaitPlaces
  <2>2. QED
    BY <2>1 DEF StatusInv
<1>5. ASSUME NEW a \in Actors, FirstSignal(a) PROVE StatusInv'
  <2>1. ASSUME NEW s \in Tids PROVE StatusOf(s)'
    BY <1>5, <1>b, <1>c, ActorFacts DEF FirstSignal, StatusOf, CreatedAt, PlaceType,
       OnType, LockType, ThreadType, Running, Calls, CreatePlaces, WaitPlaces
  <2>2. QED
    BY <2>1 DEF StatusInv
<1>6. ASSUME NEW a \in Actors, SendsTransfer(a) PROVE StatusInv'
  <2>1. cmx = a /\ on[a] \in Tids /\ on[a] \in Actors
    BY <1>6, <1>b, OnMember, ActorFacts DEF SendsTransfer, OwnerInv, StartPlaces,
       CreatePlaces
  <2>2. StatusOf(on[a])
    BY <1>c, <2>1
  <2>3. ASSUME NEW s \in Tids PROVE StatusOf(s)'
    <3>1. StatusOf(s)
      BY <1>c
    <3>2. QED
      BY <1>6, <2>1, <2>2, <2>3, <3>1, <1>b, ActorFacts DEF SendsTransfer, Put, StatusOf,
         CreatedAt, PlaceType, OnType, LockType, ThreadType, Running, Calls, CreatePlaces,
         WaitPlaces
  <2>4. QED
    BY <2>3 DEF StatusInv
<1>7. ASSUME NEW a \in Actors, BeginsWait(a) PROVE StatusInv'
  <2>1. ASSUME NEW s \in Tids PROVE StatusOf(s)'
    BY <1>7, <1>b, <1>c, ActorFacts DEF BeginsWait, StatusOf, CreatedAt, PlaceType,
       OnType, LockType, ThreadType, Running, Calls, CreatePlaces, WaitPlaces
  <2>2. QED
    BY <2>1 DEF StatusInv
<1>8. ASSUME NEW a \in Actors, TakeToken(a) PROVE StatusInv'
  <2>1. ASSUME NEW s \in Tids PROVE StatusOf(s)'
    BY <1>8, <1>b, <1>c, ActorFacts DEF TakeToken, StatusOf, CreatedAt, PlaceType, OnType,
       LockType, ThreadType, Running, Calls, CreatePlaces, WaitPlaces
  <2>2. QED
    BY <2>1 DEF StatusInv
<1>9. ASSUME NEW a \in Actors, GiveBack(a) PROVE StatusInv'
  <2>1. ASSUME NEW s \in Tids PROVE StatusOf(s)'
    BY <1>9, <1>b, <1>c, ActorFacts DEF GiveBack, StatusOf, CreatedAt, PlaceType, OnType,
       LockType, ThreadType, Running, Calls, CreatePlaces, WaitPlaces
  <2>2. QED
    BY <2>1 DEF StatusInv
<1>10. ASSUME NEW t \in Tids, JoinReturns(t) PROVE StatusInv'
  <2>1. ASSUME NEW s \in Tids PROVE StatusOf(s)'
    BY <1>10, <1>b, <1>c, ActorFacts DEF JoinReturns, StatusOf, CreatedAt, PlaceType,
       OnType, LockType, ThreadType, Running, Calls, CreatePlaces, WaitPlaces
  <2>2. QED
    BY <2>1 DEF StatusInv
<1>11. ASSUME NEW t \in Tids, LockPthread(t, "callCreate", "create") PROVE StatusInv'
  <2>1. ASSUME NEW s \in Tids PROVE StatusOf(s)'
    BY <1>11, <1>b, <1>c, ActorFacts DEF LockPthread, StatusOf, CreatedAt, PlaceType,
       OnType, LockType, ThreadType, Running, Calls, CreatePlaces, WaitPlaces
  <2>2. QED
    BY <2>1 DEF StatusInv
<1>12. ASSUME NEW t \in Tids, LockPthread(t, "callJoin", "wait") PROVE StatusInv'
  <2>1. ASSUME NEW s \in Tids PROVE StatusOf(s)'
    BY <1>12, <1>b, <1>c, ActorFacts DEF LockPthread, StatusOf, CreatedAt, PlaceType,
       OnType, LockType, ThreadType, Running, Calls, CreatePlaces, WaitPlaces
  <2>2. QED
    BY <2>1 DEF StatusInv
<1>13. ASSUME NEW t \in Tids, SutMoves(t) PROVE StatusInv'
  <2>1. ASSUME NEW s \in Tids PROVE StatusOf(s)'
    BY <1>13, <1>b, <1>c, ActorFacts DEF SutMoves, StatusOf, CreatedAt, PlaceType, OnType,
       LockType, ThreadType, Running, Calls, CreatePlaces, WaitPlaces
  <2>2. QED
    BY <2>1 DEF StatusInv
<1>14. ASSUME NEW t \in Tids, CallCreate(t) PROVE StatusInv'
  <2>1. ASSUME NEW s \in Tids PROVE StatusOf(s)'
    BY <1>14, <1>b, <1>c, ActorFacts DEF CallCreate, StatusOf, CreatedAt, PlaceType,
       OnType, LockType, ThreadType, Running, Calls, CreatePlaces, WaitPlaces
  <2>2. QED
    BY <2>1 DEF StatusInv
<1>15. ASSUME NEW t \in Tids, SetsStarted(t) PROVE StatusInv'
  <2>1. ASSUME NEW s \in Tids PROVE StatusOf(s)'
    BY <1>15, <1>b, <1>c, ActorFacts DEF SetsStarted, StatusOf, CreatedAt, PlaceType,
       OnType, LockType, ThreadType, Running, Calls, CreatePlaces, WaitPlaces
  <2>2. QED
    BY <2>1 DEF StatusInv
<1>16. ASSUME NEW t \in Tids, SendsStarted(t) PROVE StatusInv'
  <2>1. ASSUME NEW s \in Tids PROVE StatusOf(s)'
    BY <1>16, <1>b, <1>c, ActorFacts DEF SendsStarted, Put, StatusOf, CreatedAt,
       PlaceType, OnType, LockType, ThreadType, Running, Calls, CreatePlaces, WaitPlaces
  <2>2. QED
    BY <2>1 DEF StatusInv
<1>17. ASSUME NEW t \in Tids, Receives(t) PROVE StatusInv'
  <2>1. ASSUME NEW s \in Tids PROVE StatusOf(s)'
    BY <1>17, <1>b, <1>c, ActorFacts DEF Receives, StatusOf, CreatedAt, PlaceType, OnType,
       LockType, ThreadType, Running, Calls, CreatePlaces, WaitPlaces
  <2>2. QED
    BY <2>1 DEF StatusInv
<1>18. ASSUME NEW t \in Tids, Enable(t) PROVE StatusInv'
  <2>1. ASSUME NEW s \in Tids PROVE StatusOf(s)'
    BY <1>18, <1>b, <1>c, ActorFacts DEF Enable, StatusOf, CreatedAt, PlaceType, OnType,
       LockType, ThreadType, Running, Calls, CreatePlaces, WaitPlaces
  <2>2. QED
    BY <2>1 DEF StatusInv
<1>19. ASSUME NEW t \in Tids, SetEnded(t) PROVE StatusInv'
  <2>1. ASSUME NEW s \in Tids PROVE StatusOf(s)'
    BY <1>19, <1>b, <1>c, ActorFacts DEF SetEnded, StatusOf, CreatedAt, PlaceType, OnType,
       LockType, ThreadType, Running, Calls, CreatePlaces, WaitPlaces
  <2>2. QED
    BY <2>1 DEF StatusInv
<1>20. ASSUME NEW t \in Tids, SecondSignal(t) PROVE StatusInv'
  <2>1. ASSUME NEW s \in Tids PROVE StatusOf(s)'
    BY <1>20, <1>b, <1>c, ActorFacts DEF SecondSignal, StatusOf, CreatedAt, PlaceType,
       OnType, LockType, ThreadType, Running, Calls, CreatePlaces, WaitPlaces
  <2>2. QED
    BY <2>1 DEF StatusInv
<1>21. ASSUME NEW t \in Tids, Terminate(t) PROVE StatusInv'
  <2>1. ASSUME NEW s \in Tids PROVE StatusOf(s)'
    BY <1>21, <1>b, <1>c, ActorFacts DEF Terminate, StatusOf, CreatedAt, PlaceType,
       OnType, LockType, ThreadType, Running, Calls, CreatePlaces, WaitPlaces
  <2>2. QED
    BY <2>1 DEF StatusInv
<1>22. ASSUME NEW t \in Tids, NEW u \in Tids, Joins(t, u) PROVE StatusInv'
  <2>1. ASSUME NEW s \in Tids PROVE StatusOf(s)'
    BY <1>22, <1>b, <1>c, ActorFacts DEF Joins, StatusOf, CreatedAt, PlaceType, OnType,
       LockType, ThreadType, Running, Calls, CreatePlaces, WaitPlaces
  <2>2. QED
    BY <2>1 DEF StatusInv
<1>23. ASSUME MainPasses PROVE StatusInv'
  <2>1. ASSUME NEW s \in Tids PROVE StatusOf(s)'
    BY <1>23, <1>b, <1>c, ActorFacts DEF MainPasses, StatusOf, CreatedAt, PlaceType,
       OnType, LockType, ThreadType, Running, Calls, CreatePlaces, WaitPlaces
  <2>2. QED
    BY <2>1 DEF StatusInv
<1>24. ASSUME WaitTimeout PROVE StatusInv'
  <2>1. ASSUME NEW s \in Tids PROVE StatusOf(s)'
    BY <1>24, <1>b, <1>c, ActorFacts DEF WaitTimeout, StatusOf, CreatedAt, PlaceType,
       OnType, LockType, ThreadType, Running, Calls, CreatePlaces, WaitPlaces
  <2>2. QED
    BY <2>1 DEF StatusInv
<1>25. ASSUME Begin PROVE StatusInv'
  <2>1. ASSUME NEW s \in Tids PROVE StatusOf(s)'
    BY <1>25, <1>b, <1>c, ActorFacts DEF Begin, RestartGroup, StatusOf, CreatedAt,
       PlaceType, OnType, LockType, ThreadType, Running, Calls, CreatePlaces, WaitPlaces
  <2>2. QED
    BY <2>1 DEF StatusInv
<1>26. ASSUME DriverLoaded PROVE StatusInv'
  <2>1. ASSUME NEW s \in Tids PROVE StatusOf(s)'
    BY <1>26, <1>b, <1>c, ActorFacts DEF DriverLoaded, StatusOf, CreatedAt, PlaceType,
       OnType, LockType, ThreadType, Running, Calls, CreatePlaces, WaitPlaces
  <2>2. QED
    BY <2>1 DEF StatusInv
<1>27. ASSUME NEW b \in BOOLEAN, ScriptEnds(b) PROVE StatusInv'
  <2>1. ASSUME NEW s \in Tids PROVE StatusOf(s)'
    BY <1>27, <1>b, <1>c, ActorFacts DEF ScriptEnds, StatusOf, CreatedAt, PlaceType,
       OnType, LockType, ThreadType, Running, Calls, CreatePlaces, WaitPlaces
  <2>2. QED
    BY <2>1 DEF StatusInv
<1>28. ASSUME JoinAllThreads PROVE StatusInv'
  <2>1. ASSUME NEW s \in Tids PROVE StatusOf(s)'
    BY <1>28, <1>b, <1>c, ActorFacts DEF JoinAllThreads, StatusOf, CreatedAt, PlaceType,
       OnType, LockType, ThreadType, Running, Calls, CreatePlaces, WaitPlaces
  <2>2. QED
    BY <2>1 DEF StatusInv
<1>29. ASSUME LooksAtMember PROVE StatusInv'
  <2>1. ASSUME NEW s \in Tids PROVE StatusOf(s)'
    BY <1>29, <1>b, <1>c, ActorFacts DEF LooksAtMember, StatusOf, CreatedAt, PlaceType,
       OnType, LockType, ThreadType, Running, Calls, CreatePlaces, WaitPlaces
  <2>2. QED
    BY <2>1 DEF StatusInv
<1>30. ASSUME Backtrack PROVE StatusInv'
  <2>1. ASSUME NEW s \in Tids PROVE StatusOf(s)'
    BY <1>30, <1>b, <1>c, ActorFacts DEF Backtrack, StatusOf, CreatedAt, PlaceType,
       OnType, LockType, ThreadType, Running, Calls, CreatePlaces, WaitPlaces
  <2>2. QED
    BY <2>1 DEF StatusInv
<1>31. ASSUME FinishesMember PROVE StatusInv'
  <2>1. ASSUME NEW s \in Tids PROVE StatusOf(s)'
    BY <1>31, <1>b, <1>c, ActorFacts DEF FinishesMember, StatusOf, CreatedAt, PlaceType,
       OnType, LockType, ThreadType, Running, Calls, CreatePlaces, WaitPlaces
  <2>2. QED
    BY <2>1 DEF StatusInv
<1>32. ASSUME SendsTerminate PROVE StatusInv'
  <2>1. on[Main] \in Tids /\ on[Main] \in Actors /\ status[on[Main]] # Passive
    BY <1>32, <1>b, OnMember, ActorFacts DEF SendsTerminate, LoopInv, FinishPlaces
  <2>2. StatusOf(on[Main])
    BY <1>c, <2>1
  <2>3. ASSUME NEW s \in Tids PROVE StatusOf(s)'
    <3>1. StatusOf(s)
      BY <1>c
    <3>2. QED
      BY <1>32, <2>1, <2>2, <2>3, <3>1, <1>b, ActorFacts DEF SendsTerminate, Put,
         StatusOf, CreatedAt, PlaceType, OnType, LockType, ThreadType, Running, Calls,
         CreatePlaces, WaitPlaces
  <2>4. QED
    BY <2>3 DEF StatusInv
<1>33. ASSUME Cancels PROVE StatusInv'
  <2>1. on[Main] \in Tids /\ on[Main] \in Actors /\ status[on[Main]] # Passive
    BY <1>33, <1>b, OnMember, ActorFacts DEF Cancels, LoopInv, FinishPlaces
  <2>2. StatusOf(on[Main])
    BY <1>c, <2>1
  <2>3. ASSUME NEW s \in Tids PROVE StatusOf(s)'
    <3>1. StatusOf(s)
      BY <1>c
    <3>2. QED
      BY <1>33, <2>1, <2>2, <2>3, <3>1, <1>b, ActorFacts DEF Cancels, InWait, StatusOf,
         CreatedAt, PlaceType, OnType, LockType, ThreadType, Running, Calls, CreatePlaces,
         WaitPlaces
  <2>4. QED
    BY <2>3 DEF StatusInv
<1>34. ASSUME JoinPthread PROVE StatusInv'
  <2>1. on[Main] \in Tids /\ on[Main] \in Actors /\ status[on[Main]] # Passive
    BY <1>34, <1>b, OnMember, ActorFacts DEF JoinPthread, LoopInv, FinishPlaces
  <2>2. pc[on[Main]] = "dead" \/ status[on[Main]] = Terminated
    BY <1>34, <1>b DEF JoinPthread, LoopInv
  <2>3. ASSUME NEW s \in Tids PROVE StatusOf(s)'
    <3>1. StatusOf(s)
      BY <1>c
    <3>2. QED
      BY <1>34, <2>1, <2>2, <2>3, <3>1, <1>b, ActorFacts DEF JoinPthread, StatusOf,
         CreatedAt, PlaceType, OnType, LockType, ThreadType, Running, Calls, CreatePlaces,
         WaitPlaces
  <2>4. QED
    BY <2>3 DEF StatusInv
<1>35. ASSUME Kept PROVE StatusInv'
  BY <1>b, <1>35 DEF Kept, StatusInv, StatusOf, CreatedAt
<1>36. QED
  BY <1>1, <1>2, <1>3, <1>4, <1>5, <1>6, <1>7, <1>8, <1>9, <1>10, <1>11, <1>12, <1>13,
     <1>14, <1>15, <1>16, <1>17, <1>18, <1>19, <1>20, <1>21, <1>22, <1>23, <1>24, <1>25,
     <1>26, <1>27, <1>28, <1>29, <1>30, <1>31, <1>32, <1>33, <1>34, <1>35 DEF Effect

\* Main waits only for members before the one that a thread is creating.
LEMMA MainBehind ==
  ASSUME BaseInv, pc[Main] \in MemberPlaces, cmx # Nobody
  PROVE  on[Main] < next /\ cmx \in Tids /\ plock = cmx
<1>1. cmx \in Actors /\ pc[cmx] \in StartPlaces /\ on[cmx] = next
  BY DEF BaseInv, TypeInv, LockType, OwnerInv
<1>2. cmx # Main /\ ~Finishing
  BY <1>1 DEF MemberPlaces, StartPlaces, CreatePlaces, WaitPlaces, Finishing
<1>3. cmx \in Tids /\ pc[cmx] \in StartPlaces
  BY <1>1, <1>2, ActorFacts
<1>4. cmx <= next /\ ~Settled(cmx) /\ plock = cmx
  BY <1>2, <1>3, SettledPlace DEF StartPlaces, CreatePlaces, Calls, BaseInv, OwnerInv
<1>5. ~(cmx < on[Main])
  BY <1>2, <1>3, <1>4, Typed, ActorFacts DEF BaseInv, LiveInv, OrderInv, PassedSettled
<1>6. cmx # next
  <2>1. ASSUME cmx = next PROVE FALSE
    <3>1. ChannelOK(cmx) /\ (CreatedAt(cmx, {"start"}) => Settled(cmx)
            \/ pc[cmx] = "absent")
      BY <1>2, <1>3 DEF BaseInv, LiveInv, ChannelInv, OrderInv, StartSettled
    <3>2. QED
      BY <3>1, <1>1, <1>4, <2>1 DEF ChannelOK, CreatedAt, StartPlaces, CreatePlaces
  <2>2. QED
    BY <2>1
<1>7. QED
  BY <1>3, <1>4, <1>5, <1>6, Typed, ActorFacts DEF BaseInv

\* Nobody has a token of a thread whose semaphore is about to be set to zero.
LEMMA NoShareWhenStarted ==
  ASSUME BaseInv, NEW s \in Tids, CreatedAt(s, ResetPlaces)
  PROVE  Share(Main, s) = 0 /\ JoinShare(s) = 0
<1>b. /\ cmx \in Actors /\ on[cmx] = s /\ s = next /\ pc[cmx] \in ResetPlaces
      /\ plock \in Tids \cup {Nobody}
  BY DEF CreatedAt, BaseInv, OwnerInv, TypeInv, LockType
<1>1. CASE cmx = Main
  <2>1. s = Driver /\ Share(Main, s) = 0
    BY <1>b, <1>1 DEF BaseInv, LoopInv, StartPlaces, CreatePlaces, ResetPlaces, Share
  <2>2. ASSUME plock # Nobody PROVE Share(plock, s) = 0
    <3>1. StatusOf(plock)
      BY <1>b, <2>2 DEF BaseInv, StatusInv
    <3>2. QED
      BY <3>1, <2>1 DEF StatusOf, Share, WaitPlaces
  <2>3. QED
    BY <2>1, <2>2 DEF JoinShare
<1>2. CASE cmx \in Tids
  <2>1. plock = cmx /\ Share(plock, s) = 0
    BY <1>b, <1>2 DEF BaseInv, OwnerInv, ResetPlaces, CreatePlaces, Share
  <2>2. Share(Main, s) = 0
    <3>1. CASE pc[Main] \in MemberPlaces
      <4>1. on[Main] < next
        BY <3>1, <1>b, MainBehind, ActorFacts
      <4>2. QED
        BY <4>1, <1>b, Typed, ActorFacts DEF Share, BaseInv
    <3>2. CASE pc[Main] \notin MemberPlaces
      BY <3>2 DEF Share, MemberPlaces, WaitPlaces
    <3>3. QED
      BY <3>1, <3>2
  <2>3. QED
    BY <2>1, <2>2 DEF JoinShare
<1>3. QED
  BY <1>b, <1>1, <1>2, ActorFacts

\* A share is at most two tokens.
LEMMA ShareNat ==
  ASSUME BaseInv, NEW s \in Tids
  PROVE  /\ Share(Main, s) \in {0, 1, 2} /\ JoinShare(s) \in {0, 1, 2}
         /\ sem[s] \in Nat /\ Tokens(s) \in Nat /\ Tokens(s) >= sem[s]
<1>1. Share(Main, s) \in {0, 1, 2} /\ JoinShare(s) \in {0, 1, 2}
  BY DEF Share, JoinShare
<1>2. sem[s] \in Nat
  BY Typed DEF BaseInv
<1>3. QED
  BY <1>1, <1>2 DEF Tokens

\* Every step keeps the bounds of the tokens.
LEMMA TokenStep ==
  ASSUME BaseInv, Effect \/ Kept
  PROVE  TokenInv'
<1>b. TypeInv /\ LoopInv /\ OwnerInv /\ StatusInv /\ TokenInv /\ PlaceType /\ OnType
        /\ LockType /\ ThreadType
  BY DEF BaseInv, TypeInv
<1>c. \A s \in Tids : StatusOf(s) /\ TokensOf(s) /\ Tokens(s) \in Nat
  BY <1>b, ShareNat DEF StatusInv, TokenInv
<1>1. ASSUME NEW a \in Actors, Chooses(a) PROVE TokenInv'
  <2>1. ASSUME NEW s \in Tids PROVE Tokens(s)' = Tokens(s)
    BY <1>1, <2>1, <1>b, ActorFacts DEF Chooses, Tokens, JoinShare, Share, PlaceType,
       OnType, LockType, ThreadType, OwnerInv, CreatePlaces, WaitPlaces
  <2>2. ASSUME NEW s \in Tids PROVE TokensOf(s)'
    <3>1. TokensOf(s) /\ StatusOf(s) /\ Tokens(s) \in Nat
      BY <1>c
    <3>2. QED
      BY <1>1, <2>1, <2>2, <3>1, <1>b, ActorFacts DEF Chooses, TokensOf, StatusOf,
         CreatedAt, PlaceType, OnType, LockType, ThreadType, Running, Calls, CreatePlaces,
         WaitPlaces, OwnerInv
  <2>3. QED
    BY <2>2 DEF TokenInv
<1>2. ASSUME NEW a \in Actors, Spawns(a) PROVE TokenInv'
  <2>1. cmx = a /\ on[a] \in Tids /\ on[a] \in Actors
    BY <1>2, <1>b, OnMember, ActorFacts DEF Spawns, OwnerInv, StartPlaces, CreatePlaces
  <2>2. StatusOf(on[a]) /\ TokensOf(on[a])
    BY <1>c, <2>1
  <2>3. pc[on[a]] \in {"absent", "entry", "dead"} /\ on[a] # plock
    BY <1>2, <1>b, <2>1, <2>2 DEF Spawns, StatusOf, OwnerInv, CreatePlaces, WaitPlaces
  <2>4. ASSUME NEW s \in Tids PROVE Tokens(s)' = Tokens(s)
    BY <1>2, <2>1, <2>2, <2>3, <2>4, <1>b, ActorFacts DEF Spawns, Tokens, JoinShare,
       Share, PlaceType, OnType, LockType, ThreadType, OwnerInv, CreatePlaces, WaitPlaces
  <2>5. ASSUME NEW s \in Tids PROVE TokensOf(s)'
    <3>1. TokensOf(s) /\ StatusOf(s) /\ Tokens(s) \in Nat
      BY <1>c
    <3>2. QED
      BY <1>2, <2>1, <2>2, <2>3, <2>4, <2>5, <3>1, <1>b, ActorFacts DEF Spawns, TokensOf,
         StatusOf, CreatedAt, PlaceType, OnType, LockType, ThreadType, Running, Calls,
         CreatePlaces, WaitPlaces, OwnerInv
  <2>6. QED
    BY <2>5 DEF TokenInv
<1>3. ASSUME NEW a \in Actors, Restarts(a) PROVE TokenInv'
  <2>1. cmx = a /\ on[a] \in Tids /\ on[a] \in Actors
    BY <1>3, <1>b, OnMember, ActorFacts DEF Restarts, OwnerInv, StartPlaces, CreatePlaces
  <2>2. StatusOf(on[a]) /\ TokensOf(on[a])
    BY <1>c, <2>1
  <2>3. ASSUME NEW s \in Tids PROVE Tokens(s)' = Tokens(s)
    BY <1>3, <2>1, <2>2, <2>3, <1>b, ActorFacts DEF Restarts, Put, Tokens, JoinShare,
       Share, PlaceType, OnType, LockType, ThreadType, OwnerInv, CreatePlaces, WaitPlaces
  <2>4. ASSUME NEW s \in Tids PROVE TokensOf(s)'
    <3>1. TokensOf(s) /\ StatusOf(s) /\ Tokens(s) \in Nat
      BY <1>c
    <3>2. QED
      BY <1>3, <2>1, <2>2, <2>3, <2>4, <3>1, <1>b, ActorFacts DEF Restarts, Put, TokensOf,
         StatusOf, CreatedAt, PlaceType, OnType, LockType, ThreadType, Running, Calls,
         CreatePlaces, WaitPlaces, OwnerInv
  <2>5. QED
    BY <2>4 DEF TokenInv
<1>4. ASSUME NEW a \in Actors, TakesStarted(a) PROVE TokenInv'
  <2>1. cmx = a /\ on[a] \in Tids /\ on[a] \in Actors
    BY <1>4, <1>b, OnMember, ActorFacts DEF TakesStarted, OwnerInv, StartPlaces,
       CreatePlaces
  <2>2. Share(Main, on[a]) = 0 /\ JoinShare(on[a]) = 0
    BY <1>4, <2>1, NoShareWhenStarted, ActorFacts DEF TakesStarted, CreatedAt, ResetPlaces
  <2>3. StatusOf(on[a])
    BY <1>c, <2>1
  <2>4. ASSUME NEW s \in Tids PROVE Tokens(s)' = IF s = on[a] THEN 0 ELSE Tokens(s)
    BY <1>4, <2>1, <2>2, <2>3, <2>4, <1>b, ActorFacts DEF TakesStarted, Tokens, JoinShare,
       Share, PlaceType, OnType, LockType, ThreadType, OwnerInv, CreatePlaces, WaitPlaces
  <2>5. ASSUME NEW s \in Tids PROVE TokensOf(s)'
    <3>1. TokensOf(s) /\ StatusOf(s) /\ Tokens(s) \in Nat
      BY <1>c
    <3>2. QED
      BY <1>4, <2>1, <2>2, <2>3, <2>4, <2>5, <3>1, <1>b, ActorFacts DEF TakesStarted,
         TokensOf, StatusOf, CreatedAt, PlaceType, OnType, LockType, ThreadType, Running,
         Calls, CreatePlaces, WaitPlaces, OwnerInv
  <2>6. QED
    BY <2>5 DEF TokenInv
<1>5. ASSUME NEW a \in Actors, FirstSignal(a) PROVE TokenInv'
  <2>1. cmx = a /\ on[a] \in Tids /\ on[a] \in Actors
    BY <1>5, <1>b, OnMember, ActorFacts DEF FirstSignal, OwnerInv, StartPlaces, CreatePlaces
  <2>2. sem[on[a]] \in Nat
    BY <2>1, <1>b, Typed
  <2>3. Tokens(on[a]) = 0
    BY <1>5, <1>c, <2>1, ActorFacts DEF FirstSignal, TokensOf, CreatedAt
  <2>4. StatusOf(on[a])
    BY <1>c, <2>1
  <2>5. ASSUME NEW s \in Tids PROVE Tokens(s)' = IF s = on[a] THEN 1 ELSE Tokens(s)
    BY <1>5, <2>1, <2>2, <2>3, <2>4, <2>5, <1>b, ActorFacts DEF FirstSignal, Tokens,
       JoinShare, Share, PlaceType, OnType, LockType, ThreadType, OwnerInv, CreatePlaces,
       WaitPlaces
  <2>6. ASSUME NEW s \in Tids PROVE TokensOf(s)'
    <3>1. TokensOf(s) /\ StatusOf(s) /\ Tokens(s) \in Nat
      BY <1>c
    <3>2. QED
      BY <1>5, <2>1, <2>2, <2>3, <2>4, <2>5, <2>6, <3>1, <1>b, ActorFacts DEF FirstSignal,
         TokensOf, StatusOf, CreatedAt, PlaceType, OnType, LockType, ThreadType, Running,
         Calls, CreatePlaces, WaitPlaces, OwnerInv
  <2>7. QED
    BY <2>6 DEF TokenInv
<1>6. ASSUME NEW a \in Actors, SendsTransfer(a) PROVE TokenInv'
  <2>1. cmx = a /\ on[a] \in Tids /\ on[a] \in Actors
    BY <1>6, <1>b, OnMember, ActorFacts DEF SendsTransfer, OwnerInv, StartPlaces,
       CreatePlaces
  <2>2. StatusOf(on[a]) /\ TokensOf(on[a])
    BY <1>c, <2>1
  <2>3. ASSUME NEW s \in Tids PROVE Tokens(s)' = Tokens(s)
    BY <1>6, <2>1, <2>2, <2>3, <1>b, ActorFacts DEF SendsTransfer, Put, Tokens, JoinShare,
       Share, PlaceType, OnType, LockType, ThreadType, OwnerInv, CreatePlaces, WaitPlaces
  <2>4. ASSUME NEW s \in Tids PROVE TokensOf(s)'
    <3>1. TokensOf(s) /\ StatusOf(s) /\ Tokens(s) \in Nat
      BY <1>c
    <3>2. QED
      BY <1>6, <2>1, <2>2, <2>3, <2>4, <3>1, <1>b, ActorFacts DEF SendsTransfer, Put,
         TokensOf, StatusOf, CreatedAt, PlaceType, OnType, LockType, ThreadType, Running,
         Calls, CreatePlaces, WaitPlaces, OwnerInv
  <2>5. QED
    BY <2>4 DEF TokenInv
<1>7. ASSUME NEW a \in Actors, BeginsWait(a) PROVE TokenInv'
  <2>1. ASSUME NEW s \in Tids PROVE Tokens(s)' = Tokens(s)
    BY <1>7, <2>1, <1>b, ActorFacts DEF BeginsWait, Tokens, JoinShare, Share, PlaceType,
       OnType, LockType, ThreadType, OwnerInv, CreatePlaces, WaitPlaces
  <2>2. ASSUME NEW s \in Tids PROVE TokensOf(s)'
    <3>1. TokensOf(s) /\ StatusOf(s) /\ Tokens(s) \in Nat
      BY <1>c
    <3>2. QED
      BY <1>7, <2>1, <2>2, <3>1, <1>b, ActorFacts DEF BeginsWait, TokensOf, StatusOf,
         CreatedAt, PlaceType, OnType, LockType, ThreadType, Running, Calls, CreatePlaces,
         WaitPlaces, OwnerInv
  <2>3. QED
    BY <2>2 DEF TokenInv
<1>8. ASSUME NEW a \in Actors, TakeToken(a) PROVE TokenInv'
  <2>1. on[a] \in Tids /\ sem[on[a]] \in Nat
    BY <1>8, <1>b, OnMember, Typed, ActorFacts DEF TakeToken, WaitPlaces
  <2>2. ASSUME NEW s \in Tids PROVE Tokens(s)' = Tokens(s)
    BY <1>8, <2>1, <2>2, <1>b, ActorFacts DEF TakeToken, Tokens, JoinShare, Share,
       PlaceType, OnType, LockType, ThreadType, OwnerInv, CreatePlaces, WaitPlaces
  <2>3. ASSUME NEW s \in Tids PROVE TokensOf(s)'
    <3>1. TokensOf(s) /\ StatusOf(s) /\ Tokens(s) \in Nat
      BY <1>c
    <3>2. QED
      BY <1>8, <2>1, <2>2, <2>3, <3>1, <1>b, ActorFacts DEF TakeToken, TokensOf, StatusOf,
         CreatedAt, PlaceType, OnType, LockType, ThreadType, Running, Calls, CreatePlaces,
         WaitPlaces, OwnerInv
  <2>4. QED
    BY <2>3 DEF TokenInv
<1>9. ASSUME NEW a \in Actors, GiveBack(a) PROVE TokenInv'
  <2>1. on[a] \in Tids /\ sem[on[a]] \in Nat
    BY <1>9, <1>b, OnMember, Typed, ActorFacts DEF GiveBack, WaitPlaces
  <2>2. ASSUME NEW s \in Tids PROVE Tokens(s)' = Tokens(s)
    BY <1>9, <2>1, <2>2, <1>b, ActorFacts DEF GiveBack, Tokens, JoinShare, Share,
       PlaceType, OnType, LockType, ThreadType, OwnerInv, CreatePlaces, WaitPlaces
  <2>3. ASSUME NEW s \in Tids PROVE TokensOf(s)'
    <3>1. TokensOf(s) /\ StatusOf(s) /\ Tokens(s) \in Nat
      BY <1>c
    <3>2. QED
      BY <1>9, <2>1, <2>2, <2>3, <3>1, <1>b, ActorFacts DEF GiveBack, TokensOf, StatusOf,
         CreatedAt, PlaceType, OnType, LockType, ThreadType, Running, Calls, CreatePlaces,
         WaitPlaces, OwnerInv
  <2>4. QED
    BY <2>3 DEF TokenInv
<1>10. ASSUME NEW t \in Tids, JoinReturns(t) PROVE TokenInv'
  <2>1. ASSUME NEW s \in Tids PROVE Tokens(s)' = Tokens(s)
    BY <1>10, <2>1, <1>b, ActorFacts DEF JoinReturns, Tokens, JoinShare, Share, PlaceType,
       OnType, LockType, ThreadType, OwnerInv, CreatePlaces, WaitPlaces
  <2>2. ASSUME NEW s \in Tids PROVE TokensOf(s)'
    <3>1. TokensOf(s) /\ StatusOf(s) /\ Tokens(s) \in Nat
      BY <1>c
    <3>2. QED
      BY <1>10, <2>1, <2>2, <3>1, <1>b, ActorFacts DEF JoinReturns, TokensOf, StatusOf,
         CreatedAt, PlaceType, OnType, LockType, ThreadType, Running, Calls, CreatePlaces,
         WaitPlaces, OwnerInv
  <2>3. QED
    BY <2>2 DEF TokenInv
<1>11. ASSUME NEW t \in Tids, LockPthread(t, "callCreate", "create") PROVE TokenInv'
  <2>1. ASSUME NEW s \in Tids PROVE Tokens(s)' = Tokens(s)
    BY <1>11, <2>1, <1>b, ActorFacts DEF LockPthread, Tokens, JoinShare, Share, PlaceType,
       OnType, LockType, ThreadType, OwnerInv, CreatePlaces, WaitPlaces
  <2>2. ASSUME NEW s \in Tids PROVE TokensOf(s)'
    <3>1. TokensOf(s) /\ StatusOf(s) /\ Tokens(s) \in Nat
      BY <1>c
    <3>2. QED
      BY <1>11, <2>1, <2>2, <3>1, <1>b, ActorFacts DEF LockPthread, TokensOf, StatusOf,
         CreatedAt, PlaceType, OnType, LockType, ThreadType, Running, Calls, CreatePlaces,
         WaitPlaces, OwnerInv
  <2>3. QED
    BY <2>2 DEF TokenInv
<1>12. ASSUME NEW t \in Tids, LockPthread(t, "callJoin", "wait") PROVE TokenInv'
  <2>1. ASSUME NEW s \in Tids PROVE Tokens(s)' = Tokens(s)
    BY <1>12, <2>1, <1>b, ActorFacts DEF LockPthread, Tokens, JoinShare, Share, PlaceType,
       OnType, LockType, ThreadType, OwnerInv, CreatePlaces, WaitPlaces
  <2>2. ASSUME NEW s \in Tids PROVE TokensOf(s)'
    <3>1. TokensOf(s) /\ StatusOf(s) /\ Tokens(s) \in Nat
      BY <1>c
    <3>2. QED
      BY <1>12, <2>1, <2>2, <3>1, <1>b, ActorFacts DEF LockPthread, TokensOf, StatusOf,
         CreatedAt, PlaceType, OnType, LockType, ThreadType, Running, Calls, CreatePlaces,
         WaitPlaces, OwnerInv
  <2>3. QED
    BY <2>2 DEF TokenInv
<1>13. ASSUME NEW t \in Tids, SutMoves(t) PROVE TokenInv'
  <2>1. ASSUME NEW s \in Tids PROVE Tokens(s)' = Tokens(s)
    BY <1>13, <2>1, <1>b, ActorFacts DEF SutMoves, Tokens, JoinShare, Share, PlaceType,
       OnType, LockType, ThreadType, OwnerInv, CreatePlaces, WaitPlaces
  <2>2. ASSUME NEW s \in Tids PROVE TokensOf(s)'
    <3>1. TokensOf(s) /\ StatusOf(s) /\ Tokens(s) \in Nat
      BY <1>c
    <3>2. QED
      BY <1>13, <2>1, <2>2, <3>1, <1>b, ActorFacts DEF SutMoves, TokensOf, StatusOf,
         CreatedAt, PlaceType, OnType, LockType, ThreadType, Running, Calls, CreatePlaces,
         WaitPlaces, OwnerInv
  <2>3. QED
    BY <2>2 DEF TokenInv
<1>14. ASSUME NEW t \in Tids, CallCreate(t) PROVE TokenInv'
  <2>1. ASSUME NEW s \in Tids PROVE Tokens(s)' = Tokens(s)
    BY <1>14, <2>1, <1>b, ActorFacts DEF CallCreate, Tokens, JoinShare, Share, PlaceType,
       OnType, LockType, ThreadType, OwnerInv, CreatePlaces, WaitPlaces
  <2>2. ASSUME NEW s \in Tids PROVE TokensOf(s)'
    <3>1. TokensOf(s) /\ StatusOf(s) /\ Tokens(s) \in Nat
      BY <1>c
    <3>2. QED
      BY <1>14, <2>1, <2>2, <3>1, <1>b, ActorFacts DEF CallCreate, TokensOf, StatusOf,
         CreatedAt, PlaceType, OnType, LockType, ThreadType, Running, Calls, CreatePlaces,
         WaitPlaces, OwnerInv
  <2>3. QED
    BY <2>2 DEF TokenInv
<1>15. ASSUME NEW t \in Tids, SetsStarted(t) PROVE TokenInv'
  <2>1. ASSUME NEW s \in Tids PROVE Tokens(s)' = Tokens(s)
    BY <1>15, <2>1, <1>b, ActorFacts DEF SetsStarted, Tokens, JoinShare, Share, PlaceType,
       OnType, LockType, ThreadType, OwnerInv, CreatePlaces, WaitPlaces
  <2>2. ASSUME NEW s \in Tids PROVE TokensOf(s)'
    <3>1. TokensOf(s) /\ StatusOf(s) /\ Tokens(s) \in Nat
      BY <1>c
    <3>2. QED
      BY <1>15, <2>1, <2>2, <3>1, <1>b, ActorFacts DEF SetsStarted, TokensOf, StatusOf,
         CreatedAt, PlaceType, OnType, LockType, ThreadType, Running, Calls, CreatePlaces,
         WaitPlaces, OwnerInv
  <2>3. QED
    BY <2>2 DEF TokenInv
<1>16. ASSUME NEW t \in Tids, SendsStarted(t) PROVE TokenInv'
  <2>1. ASSUME NEW s \in Tids PROVE Tokens(s)' = Tokens(s)
    BY <1>16, <2>1, <1>b, ActorFacts DEF SendsStarted, Put, Tokens, JoinShare, Share,
       PlaceType, OnType, LockType, ThreadType, OwnerInv, CreatePlaces, WaitPlaces
  <2>2. ASSUME NEW s \in Tids PROVE TokensOf(s)'
    <3>1. TokensOf(s) /\ StatusOf(s) /\ Tokens(s) \in Nat
      BY <1>c
    <3>2. QED
      BY <1>16, <2>1, <2>2, <3>1, <1>b, ActorFacts DEF SendsStarted, Put, TokensOf,
         StatusOf, CreatedAt, PlaceType, OnType, LockType, ThreadType, Running, Calls,
         CreatePlaces, WaitPlaces, OwnerInv
  <2>3. QED
    BY <2>2 DEF TokenInv
<1>17. ASSUME NEW t \in Tids, Receives(t) PROVE TokenInv'
  <2>1. ASSUME NEW s \in Tids PROVE Tokens(s)' = Tokens(s)
    BY <1>17, <2>1, <1>b, ActorFacts DEF Receives, Tokens, JoinShare, Share, PlaceType,
       OnType, LockType, ThreadType, OwnerInv, CreatePlaces, WaitPlaces
  <2>2. ASSUME NEW s \in Tids PROVE TokensOf(s)'
    <3>1. TokensOf(s) /\ StatusOf(s) /\ Tokens(s) \in Nat
      BY <1>c
    <3>2. QED
      BY <1>17, <2>1, <2>2, <3>1, <1>b, ActorFacts DEF Receives, TokensOf, StatusOf,
         CreatedAt, PlaceType, OnType, LockType, ThreadType, Running, Calls, CreatePlaces,
         WaitPlaces, OwnerInv
  <2>3. QED
    BY <2>2 DEF TokenInv
<1>18. ASSUME NEW t \in Tids, Enable(t) PROVE TokenInv'
  <2>1. ASSUME NEW s \in Tids PROVE Tokens(s)' = Tokens(s)
    BY <1>18, <2>1, <1>b, ActorFacts DEF Enable, Tokens, JoinShare, Share, PlaceType,
       OnType, LockType, ThreadType, OwnerInv, CreatePlaces, WaitPlaces
  <2>2. ASSUME NEW s \in Tids PROVE TokensOf(s)'
    <3>1. TokensOf(s) /\ StatusOf(s) /\ Tokens(s) \in Nat
      BY <1>c
    <3>2. QED
      BY <1>18, <2>1, <2>2, <3>1, <1>b, ActorFacts DEF Enable, TokensOf, StatusOf,
         CreatedAt, PlaceType, OnType, LockType, ThreadType, Running, Calls, CreatePlaces,
         WaitPlaces, OwnerInv
  <2>3. QED
    BY <2>2 DEF TokenInv
<1>19. ASSUME NEW t \in Tids, SetEnded(t) PROVE TokenInv'
  <2>1. ASSUME NEW s \in Tids PROVE Tokens(s)' = Tokens(s)
    BY <1>19, <2>1, <1>b, ActorFacts DEF SetEnded, Tokens, JoinShare, Share, PlaceType,
       OnType, LockType, ThreadType, OwnerInv, CreatePlaces, WaitPlaces
  <2>2. ASSUME NEW s \in Tids PROVE TokensOf(s)'
    <3>1. TokensOf(s) /\ StatusOf(s) /\ Tokens(s) \in Nat
      BY <1>c
    <3>2. QED
      BY <1>19, <2>1, <2>2, <3>1, <1>b, ActorFacts DEF SetEnded, TokensOf, StatusOf,
         CreatedAt, PlaceType, OnType, LockType, ThreadType, Running, Calls, CreatePlaces,
         WaitPlaces, OwnerInv
  <2>3. QED
    BY <2>2 DEF TokenInv
<1>20. ASSUME NEW t \in Tids, SecondSignal(t) PROVE TokenInv'
  <2>1. sem[t] \in Nat /\ Tokens(t) <= 1
    BY <1>20, <1>b, <1>c, Typed DEF SecondSignal, TokensOf, Running
  <2>2. ASSUME NEW s \in Tids PROVE Tokens(s)' = IF s = t THEN Tokens(s) + 1 ELSE Tokens(s)
    BY <1>20, <2>1, <2>2, <1>b, ActorFacts DEF SecondSignal, Tokens, JoinShare, Share,
       PlaceType, OnType, LockType, ThreadType, OwnerInv, CreatePlaces, WaitPlaces
  <2>3. ASSUME NEW s \in Tids PROVE TokensOf(s)'
    <3>1. TokensOf(s) /\ StatusOf(s) /\ Tokens(s) \in Nat
      BY <1>c
    <3>2. QED
      BY <1>20, <2>1, <2>2, <2>3, <3>1, <1>b, ActorFacts DEF SecondSignal, TokensOf,
         StatusOf, CreatedAt, PlaceType, OnType, LockType, ThreadType, Running, Calls,
         CreatePlaces, WaitPlaces, OwnerInv
  <2>4. QED
    BY <2>3 DEF TokenInv
<1>21. ASSUME NEW t \in Tids, Terminate(t) PROVE TokenInv'
  <2>1. ASSUME NEW s \in Tids PROVE Tokens(s)' = Tokens(s)
    BY <1>21, <2>1, <1>b, ActorFacts DEF Terminate, Tokens, JoinShare, Share, PlaceType,
       OnType, LockType, ThreadType, OwnerInv, CreatePlaces, WaitPlaces
  <2>2. ASSUME NEW s \in Tids PROVE TokensOf(s)'
    <3>1. TokensOf(s) /\ StatusOf(s) /\ Tokens(s) \in Nat
      BY <1>c
    <3>2. QED
      BY <1>21, <2>1, <2>2, <3>1, <1>b, ActorFacts DEF Terminate, TokensOf, StatusOf,
         CreatedAt, PlaceType, OnType, LockType, ThreadType, Running, Calls, CreatePlaces,
         WaitPlaces, OwnerInv
  <2>3. QED
    BY <2>2 DEF TokenInv
<1>22. ASSUME NEW t \in Tids, NEW u \in Tids, Joins(t, u) PROVE TokenInv'
  <2>1. ASSUME NEW s \in Tids PROVE Tokens(s)' = Tokens(s)
    BY <1>22, <2>1, <1>b, ActorFacts DEF Joins, Tokens, JoinShare, Share, PlaceType,
       OnType, LockType, ThreadType, OwnerInv, CreatePlaces, WaitPlaces
  <2>2. ASSUME NEW s \in Tids PROVE TokensOf(s)'
    <3>1. TokensOf(s) /\ StatusOf(s) /\ Tokens(s) \in Nat
      BY <1>c
    <3>2. QED
      BY <1>22, <2>1, <2>2, <3>1, <1>b, ActorFacts DEF Joins, TokensOf, StatusOf,
         CreatedAt, PlaceType, OnType, LockType, ThreadType, Running, Calls, CreatePlaces,
         WaitPlaces, OwnerInv
  <2>3. QED
    BY <2>2 DEF TokenInv
<1>23. ASSUME MainPasses PROVE TokenInv'
  <2>1. ASSUME NEW s \in Tids PROVE Tokens(s)' = Tokens(s)
    BY <1>23, <2>1, <1>b, ActorFacts DEF MainPasses, Tokens, JoinShare, Share, PlaceType,
       OnType, LockType, ThreadType, OwnerInv, CreatePlaces, WaitPlaces
  <2>2. ASSUME NEW s \in Tids PROVE TokensOf(s)'
    <3>1. TokensOf(s) /\ StatusOf(s) /\ Tokens(s) \in Nat
      BY <1>c
    <3>2. QED
      BY <1>23, <2>1, <2>2, <3>1, <1>b, ActorFacts DEF MainPasses, TokensOf, StatusOf,
         CreatedAt, PlaceType, OnType, LockType, ThreadType, Running, Calls, CreatePlaces,
         WaitPlaces, OwnerInv
  <2>3. QED
    BY <2>2 DEF TokenInv
<1>24. ASSUME WaitTimeout PROVE TokenInv'
  <2>1. on[Main] \in Tids /\ sem[on[Main]] \in Nat
    BY <1>24, <1>b, OnMember, Typed, ActorFacts DEF WaitTimeout, WaitPlaces
  <2>2. ASSUME NEW s \in Tids PROVE Tokens(s)' = Tokens(s)
    BY <1>24, <2>1, <2>2, <1>b, ActorFacts DEF WaitTimeout, Tokens, JoinShare, Share,
       PlaceType, OnType, LockType, ThreadType, OwnerInv, CreatePlaces, WaitPlaces
  <2>3. ASSUME NEW s \in Tids PROVE TokensOf(s)'
    <3>1. TokensOf(s) /\ StatusOf(s) /\ Tokens(s) \in Nat
      BY <1>c
    <3>2. QED
      BY <1>24, <2>1, <2>2, <2>3, <3>1, <1>b, ActorFacts DEF WaitTimeout, TokensOf,
         StatusOf, CreatedAt, PlaceType, OnType, LockType, ThreadType, Running, Calls,
         CreatePlaces, WaitPlaces, OwnerInv
  <2>4. QED
    BY <2>3 DEF TokenInv
<1>25. ASSUME Begin PROVE TokenInv'
  <2>1. ASSUME NEW s \in Tids PROVE Tokens(s)' = Tokens(s)
    BY <1>25, <2>1, <1>b, ActorFacts DEF Begin, RestartGroup, Tokens, JoinShare, Share,
       PlaceType, OnType, LockType, ThreadType, OwnerInv, CreatePlaces, WaitPlaces
  <2>2. ASSUME NEW s \in Tids PROVE TokensOf(s)'
    <3>1. TokensOf(s) /\ StatusOf(s) /\ Tokens(s) \in Nat
      BY <1>c
    <3>2. QED
      BY <1>25, <2>1, <2>2, <3>1, <1>b, ActorFacts DEF Begin, RestartGroup, TokensOf,
         StatusOf, CreatedAt, PlaceType, OnType, LockType, ThreadType, Running, Calls,
         CreatePlaces, WaitPlaces, OwnerInv
  <2>3. QED
    BY <2>2 DEF TokenInv
<1>26. ASSUME DriverLoaded PROVE TokenInv'
  <2>1. ASSUME NEW s \in Tids PROVE Tokens(s)' = Tokens(s)
    BY <1>26, <2>1, <1>b, ActorFacts DEF DriverLoaded, Tokens, JoinShare, Share,
       PlaceType, OnType, LockType, ThreadType, OwnerInv, CreatePlaces, WaitPlaces
  <2>2. ASSUME NEW s \in Tids PROVE TokensOf(s)'
    <3>1. TokensOf(s) /\ StatusOf(s) /\ Tokens(s) \in Nat
      BY <1>c
    <3>2. QED
      BY <1>26, <2>1, <2>2, <3>1, <1>b, ActorFacts DEF DriverLoaded, TokensOf, StatusOf,
         CreatedAt, PlaceType, OnType, LockType, ThreadType, Running, Calls, CreatePlaces,
         WaitPlaces, OwnerInv
  <2>3. QED
    BY <2>2 DEF TokenInv
<1>27. ASSUME NEW b \in BOOLEAN, ScriptEnds(b) PROVE TokenInv'
  <2>1. ASSUME NEW s \in Tids PROVE Tokens(s)' = Tokens(s)
    BY <1>27, <2>1, <1>b, ActorFacts DEF ScriptEnds, Tokens, JoinShare, Share, PlaceType,
       OnType, LockType, ThreadType, OwnerInv, CreatePlaces, WaitPlaces
  <2>2. ASSUME NEW s \in Tids PROVE TokensOf(s)'
    <3>1. TokensOf(s) /\ StatusOf(s) /\ Tokens(s) \in Nat
      BY <1>c
    <3>2. QED
      BY <1>27, <2>1, <2>2, <3>1, <1>b, ActorFacts DEF ScriptEnds, TokensOf, StatusOf,
         CreatedAt, PlaceType, OnType, LockType, ThreadType, Running, Calls, CreatePlaces,
         WaitPlaces, OwnerInv
  <2>3. QED
    BY <2>2 DEF TokenInv
<1>28. ASSUME JoinAllThreads PROVE TokenInv'
  <2>1. ASSUME NEW s \in Tids PROVE Tokens(s)' = Tokens(s)
    BY <1>28, <2>1, <1>b, ActorFacts DEF JoinAllThreads, Tokens, JoinShare, Share,
       PlaceType, OnType, LockType, ThreadType, OwnerInv, CreatePlaces, WaitPlaces
  <2>2. ASSUME NEW s \in Tids PROVE TokensOf(s)'
    <3>1. TokensOf(s) /\ StatusOf(s) /\ Tokens(s) \in Nat
      BY <1>c
    <3>2. QED
      BY <1>28, <2>1, <2>2, <3>1, <1>b, ActorFacts DEF JoinAllThreads, TokensOf, StatusOf,
         CreatedAt, PlaceType, OnType, LockType, ThreadType, Running, Calls, CreatePlaces,
         WaitPlaces, OwnerInv
  <2>3. QED
    BY <2>2 DEF TokenInv
<1>29. ASSUME LooksAtMember PROVE TokenInv'
  <2>1. ASSUME NEW s \in Tids PROVE Tokens(s)' = Tokens(s)
    BY <1>29, <2>1, <1>b, ActorFacts DEF LooksAtMember, Tokens, JoinShare, Share,
       PlaceType, OnType, LockType, ThreadType, OwnerInv, CreatePlaces, WaitPlaces
  <2>2. ASSUME NEW s \in Tids PROVE TokensOf(s)'
    <3>1. TokensOf(s) /\ StatusOf(s) /\ Tokens(s) \in Nat
      BY <1>c
    <3>2. QED
      BY <1>29, <2>1, <2>2, <3>1, <1>b, ActorFacts DEF LooksAtMember, TokensOf, StatusOf,
         CreatedAt, PlaceType, OnType, LockType, ThreadType, Running, Calls, CreatePlaces,
         WaitPlaces, OwnerInv
  <2>3. QED
    BY <2>2 DEF TokenInv
<1>30. ASSUME Backtrack PROVE TokenInv'
  <2>1. ASSUME NEW s \in Tids PROVE Tokens(s)' = Tokens(s)
    BY <1>30, <2>1, <1>b, ActorFacts DEF Backtrack, Tokens, JoinShare, Share, PlaceType,
       OnType, LockType, ThreadType, OwnerInv, CreatePlaces, WaitPlaces
  <2>2. ASSUME NEW s \in Tids PROVE TokensOf(s)'
    <3>1. TokensOf(s) /\ StatusOf(s) /\ Tokens(s) \in Nat
      BY <1>c
    <3>2. QED
      BY <1>30, <2>1, <2>2, <3>1, <1>b, ActorFacts DEF Backtrack, TokensOf, StatusOf,
         CreatedAt, PlaceType, OnType, LockType, ThreadType, Running, Calls, CreatePlaces,
         WaitPlaces, OwnerInv
  <2>3. QED
    BY <2>2 DEF TokenInv
<1>31. ASSUME FinishesMember PROVE TokenInv'
  <2>1. ASSUME NEW s \in Tids PROVE Tokens(s)' = Tokens(s)
    BY <1>31, <2>1, <1>b, ActorFacts DEF FinishesMember, Tokens, JoinShare, Share,
       PlaceType, OnType, LockType, ThreadType, OwnerInv, CreatePlaces, WaitPlaces
  <2>2. ASSUME NEW s \in Tids PROVE TokensOf(s)'
    <3>1. TokensOf(s) /\ StatusOf(s) /\ Tokens(s) \in Nat
      BY <1>c
    <3>2. QED
      BY <1>31, <2>1, <2>2, <3>1, <1>b, ActorFacts DEF FinishesMember, TokensOf, StatusOf,
         CreatedAt, PlaceType, OnType, LockType, ThreadType, Running, Calls, CreatePlaces,
         WaitPlaces, OwnerInv
  <2>3. QED
    BY <2>2 DEF TokenInv
<1>32. ASSUME SendsTerminate PROVE TokenInv'
  <2>1. on[Main] \in Tids /\ on[Main] \in Actors /\ status[on[Main]] # Passive
    BY <1>32, <1>b, OnMember, ActorFacts DEF SendsTerminate, LoopInv, FinishPlaces
  <2>2. StatusOf(on[Main]) /\ TokensOf(on[Main])
    BY <1>c, <2>1
  <2>3. ASSUME NEW s \in Tids PROVE Tokens(s)' = Tokens(s)
    BY <1>32, <2>1, <2>2, <2>3, <1>b, ActorFacts DEF SendsTerminate, Put, Tokens,
       JoinShare, Share, PlaceType, OnType, LockType, ThreadType, OwnerInv, CreatePlaces,
       WaitPlaces
  <2>4. ASSUME NEW s \in Tids PROVE TokensOf(s)'
    <3>1. TokensOf(s) /\ StatusOf(s) /\ Tokens(s) \in Nat
      BY <1>c
    <3>2. QED
      BY <1>32, <2>1, <2>2, <2>3, <2>4, <3>1, <1>b, ActorFacts DEF SendsTerminate, Put,
         TokensOf, StatusOf, CreatedAt, PlaceType, OnType, LockType, ThreadType, Running,
         Calls, CreatePlaces, WaitPlaces, OwnerInv
  <2>5. QED
    BY <2>4 DEF TokenInv
<1>33. ASSUME Cancels PROVE TokenInv'
  <2>1. on[Main] \in Tids /\ on[Main] \in Actors /\ status[on[Main]] # Passive
    BY <1>33, <1>b, OnMember, ActorFacts DEF Cancels, LoopInv, FinishPlaces
  <2>2. StatusOf(on[Main]) /\ TokensOf(on[Main])
    BY <1>c, <2>1
  <2>3. ASSUME NEW s \in Tids PROVE Tokens(s)' \in Nat /\ Tokens(s)' <= Tokens(s)
    <3>1. sem'[s] = sem[s] /\ sem[s] \in Nat /\ Share(Main, s)' = 0 /\ Share(Main, s) = 0
      BY <1>33, <2>1, <2>3, <1>b, Typed, ActorFacts DEF Cancels, Share, PlaceType
    <3>2. JoinShare(s)' \in {0, JoinShare(s)} /\ JoinShare(s) \in {0, 1, 2}
      BY <1>33, <2>1, <2>3, <1>b, ActorFacts DEF Cancels, JoinShare, Share, PlaceType,
         LockType
    <3>3. QED
      BY <3>1, <3>2 DEF Tokens
  <2>4. ASSUME NEW s \in Tids PROVE TokensOf(s)'
    <3>1. TokensOf(s) /\ StatusOf(s) /\ Tokens(s) \in Nat
      BY <1>c
    <3>2. QED
      BY <1>33, <2>1, <2>2, <2>3, <2>4, <3>1, <1>b, ActorFacts DEF Cancels, TokensOf,
         StatusOf, CreatedAt, PlaceType, OnType, LockType, ThreadType, Running, Calls,
         CreatePlaces, WaitPlaces, OwnerInv
  <2>5. QED
    BY <2>4 DEF TokenInv
<1>34. ASSUME JoinPthread PROVE TokenInv'
  <2>1. on[Main] \in Tids /\ on[Main] \in Actors /\ status[on[Main]] # Passive
    BY <1>34, <1>b, OnMember, ActorFacts DEF JoinPthread, LoopInv, FinishPlaces
  <2>2. StatusOf(on[Main]) /\ TokensOf(on[Main])
    BY <1>c, <2>1
  <2>3. ASSUME NEW s \in Tids PROVE Tokens(s)' = Tokens(s)
    BY <1>34, <2>1, <2>2, <2>3, <1>b, ActorFacts DEF JoinPthread, Tokens, JoinShare,
       Share, PlaceType, OnType, LockType, ThreadType, OwnerInv, CreatePlaces, WaitPlaces
  <2>4. ASSUME NEW s \in Tids PROVE TokensOf(s)'
    <3>1. TokensOf(s) /\ StatusOf(s) /\ Tokens(s) \in Nat
      BY <1>c
    <3>2. QED
      BY <1>34, <2>1, <2>2, <2>3, <2>4, <3>1, <1>b, ActorFacts DEF JoinPthread, TokensOf,
         StatusOf, CreatedAt, PlaceType, OnType, LockType, ThreadType, Running, Calls,
         CreatePlaces, WaitPlaces, OwnerInv
  <2>5. QED
    BY <2>4 DEF TokenInv
<1>35. ASSUME Kept PROVE TokenInv'
  <2>1. ASSUME NEW s \in Tids PROVE TokensOf(s)'
    BY <1>35, <1>c DEF Kept, TokensOf, Tokens, JoinShare, Share, CreatedAt
  <2>2. QED
    BY <2>1 DEF TokenInv
<1>36. QED
  BY <1>1, <1>2, <1>3, <1>4, <1>5, <1>6, <1>7, <1>8, <1>9, <1>10, <1>11, <1>12, <1>13,
     <1>14, <1>15, <1>16, <1>17, <1>18, <1>19, <1>20, <1>21, <1>22, <1>23, <1>24, <1>25,
     <1>26, <1>27, <1>28, <1>29, <1>30, <1>31, <1>32, <1>33, <1>34, <1>35 DEF Effect

\* A thread that hangs stays, and one that needs the lock of somebody else.
LEMMA CallsStay ==
  ASSUME BaseInv, ~Finishing, NEW v \in Tids, pc[v] = "hung" \/ (pc[v] \in Calls
    /\ plock # Nobody), Effect \/ Kept
  PROVE  pc'[v] = pc[v]
<1>b. TypeInv /\ LoopInv /\ OwnerInv /\ StatusInv /\ TokenInv /\ PlaceType /\ OnType
        /\ LockType /\ ~Finishing
  BY DEF BaseInv, TypeInv
<1>1. ASSUME NEW a \in Actors, Chooses(a) PROVE pc'[v] = pc[v]
  BY <1>1, <1>b, ActorFacts DEF Chooses, PlaceType, Calls, CreatePlaces, WaitPlaces
<1>2. ASSUME NEW a \in Actors, Spawns(a) PROVE pc'[v] = pc[v]
  <2>1. on[a] \in Tids /\ on[a] \in Actors
    BY <1>2, <1>b, OnMember, ActorFacts DEF Spawns, StartPlaces, CreatePlaces
  <2>2. pc[on[a]] \in {"absent", "entry", "dead"}
    BY <1>2, <2>1, <1>b DEF Spawns, StatusInv, StatusOf
  <2>3. QED
    BY <1>2, <2>1, <2>2, <1>b, ActorFacts DEF Spawns, PlaceType, Calls
<1>3. ASSUME NEW a \in Actors, Restarts(a) PROVE pc'[v] = pc[v]
  BY <1>3, <1>b, ActorFacts DEF Restarts, Put, PlaceType, Calls, CreatePlaces, WaitPlaces
<1>4. ASSUME NEW a \in Actors, TakesStarted(a) PROVE pc'[v] = pc[v]
  BY <1>4, <1>b, ActorFacts DEF TakesStarted, PlaceType, Calls, CreatePlaces, WaitPlaces
<1>5. ASSUME NEW a \in Actors, FirstSignal(a) PROVE pc'[v] = pc[v]
  BY <1>5, <1>b, ActorFacts DEF FirstSignal, PlaceType, Calls, CreatePlaces, WaitPlaces
<1>6. ASSUME NEW a \in Actors, SendsTransfer(a) PROVE pc'[v] = pc[v]
  BY <1>6, <1>b, ActorFacts DEF SendsTransfer, Put, PlaceType, Calls, CreatePlaces,
     WaitPlaces
<1>7. ASSUME NEW a \in Actors, BeginsWait(a) PROVE pc'[v] = pc[v]
  BY <1>7, <1>b, ActorFacts DEF BeginsWait, PlaceType, Calls, CreatePlaces, WaitPlaces
<1>8. ASSUME NEW a \in Actors, TakeToken(a) PROVE pc'[v] = pc[v]
  BY <1>8, <1>b, ActorFacts DEF TakeToken, PlaceType, Calls, CreatePlaces, WaitPlaces
<1>9. ASSUME NEW a \in Actors, GiveBack(a) PROVE pc'[v] = pc[v]
  BY <1>9, <1>b, ActorFacts DEF GiveBack, PlaceType, Calls, CreatePlaces, WaitPlaces
<1>10. ASSUME NEW t \in Tids, JoinReturns(t) PROVE pc'[v] = pc[v]
  BY <1>10, <1>b, ActorFacts DEF JoinReturns, PlaceType, Calls, CreatePlaces, WaitPlaces
<1>11. ASSUME NEW t \in Tids, LockPthread(t, "callCreate", "create") PROVE pc'[v] = pc[v]
  BY <1>11, <1>b, ActorFacts DEF LockPthread, PlaceType, Calls, CreatePlaces, WaitPlaces
<1>12. ASSUME NEW t \in Tids, LockPthread(t, "callJoin", "wait") PROVE pc'[v] = pc[v]
  BY <1>12, <1>b, ActorFacts DEF LockPthread, PlaceType, Calls, CreatePlaces, WaitPlaces
<1>13. ASSUME NEW t \in Tids, SutMoves(t) PROVE pc'[v] = pc[v]
  BY <1>13, <1>b, ActorFacts DEF SutMoves, PlaceType, Calls, CreatePlaces, WaitPlaces
<1>14. ASSUME NEW t \in Tids, CallCreate(t) PROVE pc'[v] = pc[v]
  BY <1>14, <1>b, ActorFacts DEF CallCreate, PlaceType, Calls, CreatePlaces, WaitPlaces
<1>15. ASSUME NEW t \in Tids, SetsStarted(t) PROVE pc'[v] = pc[v]
  BY <1>15, <1>b, ActorFacts DEF SetsStarted, PlaceType, Calls, CreatePlaces, WaitPlaces
<1>16. ASSUME NEW t \in Tids, SendsStarted(t) PROVE pc'[v] = pc[v]
  BY <1>16, <1>b, ActorFacts DEF SendsStarted, Put, PlaceType, Calls, CreatePlaces,
     WaitPlaces
<1>17. ASSUME NEW t \in Tids, Receives(t) PROVE pc'[v] = pc[v]
  BY <1>17, <1>b, ActorFacts DEF Receives, PlaceType, Calls, CreatePlaces, WaitPlaces
<1>18. ASSUME NEW t \in Tids, Enable(t) PROVE pc'[v] = pc[v]
  BY <1>18, <1>b, ActorFacts DEF Enable, PlaceType, Calls, CreatePlaces, WaitPlaces
<1>19. ASSUME NEW t \in Tids, SetEnded(t) PROVE pc'[v] = pc[v]
  BY <1>19, <1>b, ActorFacts DEF SetEnded, PlaceType, Calls, CreatePlaces, WaitPlaces
<1>20. ASSUME NEW t \in Tids, SecondSignal(t) PROVE pc'[v] = pc[v]
  BY <1>20, <1>b, ActorFacts DEF SecondSignal, PlaceType, Calls, CreatePlaces, WaitPlaces
<1>21. ASSUME NEW t \in Tids, Terminate(t) PROVE pc'[v] = pc[v]
  BY <1>21, <1>b, ActorFacts DEF Terminate, PlaceType, Calls, CreatePlaces, WaitPlaces
<1>22. ASSUME NEW t \in Tids, NEW u \in Tids, Joins(t, u) PROVE pc'[v] = pc[v]
  BY <1>22, <1>b, ActorFacts DEF Joins, PlaceType, Calls, CreatePlaces, WaitPlaces
<1>23. ASSUME MainPasses PROVE pc'[v] = pc[v]
  BY <1>23, <1>b, ActorFacts DEF MainPasses, PlaceType, Calls, CreatePlaces, WaitPlaces
<1>24. ASSUME WaitTimeout PROVE pc'[v] = pc[v]
  BY <1>24, <1>b, ActorFacts DEF WaitTimeout, PlaceType, Calls, CreatePlaces, WaitPlaces
<1>25. ASSUME Begin PROVE pc'[v] = pc[v]
  BY <1>25, <1>b, ActorFacts DEF Begin, RestartGroup, PlaceType, Calls, CreatePlaces,
     WaitPlaces
<1>26. ASSUME DriverLoaded PROVE pc'[v] = pc[v]
  BY <1>26, <1>b, ActorFacts DEF DriverLoaded, PlaceType, Calls, CreatePlaces, WaitPlaces
<1>27. ASSUME NEW b \in BOOLEAN, ScriptEnds(b) PROVE pc'[v] = pc[v]
  BY <1>27, <1>b, ActorFacts DEF ScriptEnds, PlaceType, Calls, CreatePlaces, WaitPlaces
<1>28. ASSUME JoinAllThreads PROVE pc'[v] = pc[v]
  BY <1>28, <1>b, ActorFacts DEF JoinAllThreads, PlaceType, Calls, CreatePlaces, WaitPlaces
<1>29. ASSUME LooksAtMember PROVE pc'[v] = pc[v]
  BY <1>29, <1>b, ActorFacts DEF LooksAtMember, PlaceType, Calls, CreatePlaces, WaitPlaces
<1>30. ASSUME Backtrack PROVE pc'[v] = pc[v]
  BY <1>30, <1>b, ActorFacts DEF Backtrack, PlaceType, Calls, CreatePlaces, WaitPlaces
<1>31. ASSUME FinishesMember PROVE pc'[v] = pc[v]
  BY <1>31, <1>b DEF FinishesMember, Finishing
<1>32. ASSUME SendsTerminate PROVE pc'[v] = pc[v]
  BY <1>32, <1>b DEF SendsTerminate, Finishing
<1>33. ASSUME Cancels PROVE pc'[v] = pc[v]
  BY <1>33, <1>b DEF Cancels, Finishing
<1>34. ASSUME JoinPthread PROVE pc'[v] = pc[v]
  BY <1>34, <1>b DEF JoinPthread, Finishing
<1>35. ASSUME Kept PROVE pc'[v] = pc[v]
  BY <1>35 DEF Kept
<1>36. QED
  BY <1>1, <1>2, <1>3, <1>4, <1>5, <1>6, <1>7, <1>8, <1>9, <1>10, <1>11, <1>12, <1>13,
     <1>14, <1>15, <1>16, <1>17, <1>18, <1>19, <1>20, <1>21, <1>22, <1>23, <1>24, <1>25,
     <1>26, <1>27, <1>28, <1>29, <1>30, <1>31, <1>32, <1>33, <1>34, <1>35 DEF Effect

\* A pthread_join on a thread that will not end stays where it waits.
LEMMA JoinerStays ==
  ASSUME BaseInv, ~Finishing, NEW t \in Tids, pc[t] \in {"token1", "token2"},
         pc[on[t]] \in Calls \cup {"hung"}, Effect \/ Kept
  PROVE  pc'[t] \in {"token1", "token2"} /\ on'[t] = on[t] /\ plock' = t
<1>b. TypeInv /\ LoopInv /\ OwnerInv /\ StatusInv /\ TokenInv /\ PlaceType /\ OnType
        /\ LockType /\ ~Finishing
  BY DEF BaseInv, TypeInv
<1>h. t \in Actors /\ t # Main /\ plock = t /\ pc[t] \in {"token1", "token2"}
  BY <1>b, ActorFacts DEF OwnerInv, WaitPlaces
<1>s. pc[t] = "token2" => sem[on[t]] = 0
  <2>1. on[t] \in Tids /\ TokensOf(on[t]) /\ pc[on[t]] \in Running
    BY <1>b, Typed DEF TokenInv, Running
  <2>2. pc[t] = "token2" => JoinShare(on[t]) = 1
    BY <1>h, ActorFacts DEF JoinShare, Share
  <2>3. /\ Share(Main, on[t]) \in {0, 1, 2} /\ JoinShare(on[t]) \in {0, 1, 2}
        /\ sem[on[t]] \in Nat
    BY <2>1, ShareNat
  <2>4. Tokens(on[t]) <= 1
    BY <2>1 DEF TokensOf
  <2>5. QED
    BY <2>2, <2>3, <2>4 DEF Tokens
<1>1. ASSUME NEW a \in Actors, Chooses(a)
      PROVE  pc'[t] \in {"token1", "token2"} /\ on'[t] = on[t] /\ plock' = t
  BY <1>1, <1>b, <1>h, <1>s, ActorFacts DEF Chooses, OwnerInv, PlaceType, Calls,
     CreatePlaces, WaitPlaces, OnType
<1>2. ASSUME NEW a \in Actors, Spawns(a)
      PROVE  pc'[t] \in {"token1", "token2"} /\ on'[t] = on[t] /\ plock' = t
  <2>1. on[a] \in Tids /\ on[a] \in Actors
    BY <1>2, <1>b, OnMember, ActorFacts DEF Spawns, StartPlaces, CreatePlaces
  <2>2. pc[on[a]] \in {"absent", "entry", "dead"}
    BY <1>2, <2>1, <1>b DEF Spawns, StatusInv, StatusOf
  <2>3. QED
    BY <1>2, <2>1, <2>2, <1>b, <1>h, ActorFacts DEF Spawns, PlaceType
<1>3. ASSUME NEW a \in Actors, Restarts(a)
      PROVE  pc'[t] \in {"token1", "token2"} /\ on'[t] = on[t] /\ plock' = t
  BY <1>3, <1>b, <1>h, <1>s, ActorFacts DEF Restarts, Put, OwnerInv, PlaceType, Calls,
     CreatePlaces, WaitPlaces, OnType
<1>4. ASSUME NEW a \in Actors, TakesStarted(a)
      PROVE  pc'[t] \in {"token1", "token2"} /\ on'[t] = on[t] /\ plock' = t
  BY <1>4, <1>b, <1>h, <1>s, ActorFacts DEF TakesStarted, OwnerInv, PlaceType, Calls,
     CreatePlaces, WaitPlaces, OnType
<1>5. ASSUME NEW a \in Actors, FirstSignal(a)
      PROVE  pc'[t] \in {"token1", "token2"} /\ on'[t] = on[t] /\ plock' = t
  BY <1>5, <1>b, <1>h, <1>s, ActorFacts DEF FirstSignal, OwnerInv, PlaceType, Calls,
     CreatePlaces, WaitPlaces, OnType
<1>6. ASSUME NEW a \in Actors, SendsTransfer(a)
      PROVE  pc'[t] \in {"token1", "token2"} /\ on'[t] = on[t] /\ plock' = t
  BY <1>6, <1>b, <1>h, <1>s, ActorFacts DEF SendsTransfer, Put, OwnerInv, PlaceType,
     Calls, CreatePlaces, WaitPlaces, OnType
<1>7. ASSUME NEW a \in Actors, BeginsWait(a)
      PROVE  pc'[t] \in {"token1", "token2"} /\ on'[t] = on[t] /\ plock' = t
  BY <1>7, <1>b, <1>h, <1>s, ActorFacts DEF BeginsWait, OwnerInv, PlaceType, Calls,
     CreatePlaces, WaitPlaces, OnType
<1>8. ASSUME NEW a \in Actors, TakeToken(a)
      PROVE  pc'[t] \in {"token1", "token2"} /\ on'[t] = on[t] /\ plock' = t
  BY <1>8, <1>b, <1>h, <1>s, ActorFacts DEF TakeToken, OwnerInv, PlaceType, Calls,
     CreatePlaces, WaitPlaces, OnType
<1>9. ASSUME NEW a \in Actors, GiveBack(a)
      PROVE  pc'[t] \in {"token1", "token2"} /\ on'[t] = on[t] /\ plock' = t
  BY <1>9, <1>b, <1>h, <1>s, ActorFacts DEF GiveBack, OwnerInv, PlaceType, Calls,
     CreatePlaces, WaitPlaces, OnType
<1>10. ASSUME NEW t1 \in Tids, JoinReturns(t1)
       PROVE  pc'[t] \in {"token1", "token2"} /\ on'[t] = on[t] /\ plock' = t
  BY <1>10, <1>b, <1>h, <1>s, ActorFacts DEF JoinReturns, OwnerInv, PlaceType, Calls,
     CreatePlaces, WaitPlaces, OnType
<1>11. ASSUME NEW t1 \in Tids, LockPthread(t1, "callCreate", "create")
       PROVE  pc'[t] \in {"token1", "token2"} /\ on'[t] = on[t] /\ plock' = t
  BY <1>11, <1>b, <1>h, <1>s, ActorFacts DEF LockPthread, OwnerInv, PlaceType, Calls,
     CreatePlaces, WaitPlaces, OnType
<1>12. ASSUME NEW t1 \in Tids, LockPthread(t1, "callJoin", "wait")
       PROVE  pc'[t] \in {"token1", "token2"} /\ on'[t] = on[t] /\ plock' = t
  BY <1>12, <1>b, <1>h, <1>s, ActorFacts DEF LockPthread, OwnerInv, PlaceType, Calls,
     CreatePlaces, WaitPlaces, OnType
<1>13. ASSUME NEW t1 \in Tids, SutMoves(t1)
       PROVE  pc'[t] \in {"token1", "token2"} /\ on'[t] = on[t] /\ plock' = t
  BY <1>13, <1>b, <1>h, <1>s, ActorFacts DEF SutMoves, OwnerInv, PlaceType, Calls,
     CreatePlaces, WaitPlaces, OnType
<1>14. ASSUME NEW t1 \in Tids, CallCreate(t1)
       PROVE  pc'[t] \in {"token1", "token2"} /\ on'[t] = on[t] /\ plock' = t
  BY <1>14, <1>b, <1>h, <1>s, ActorFacts DEF CallCreate, OwnerInv, PlaceType, Calls,
     CreatePlaces, WaitPlaces, OnType
<1>15. ASSUME NEW t1 \in Tids, SetsStarted(t1)
       PROVE  pc'[t] \in {"token1", "token2"} /\ on'[t] = on[t] /\ plock' = t
  BY <1>15, <1>b, <1>h, <1>s, ActorFacts DEF SetsStarted, OwnerInv, PlaceType, Calls,
     CreatePlaces, WaitPlaces, OnType
<1>16. ASSUME NEW t1 \in Tids, SendsStarted(t1)
       PROVE  pc'[t] \in {"token1", "token2"} /\ on'[t] = on[t] /\ plock' = t
  BY <1>16, <1>b, <1>h, <1>s, ActorFacts DEF SendsStarted, Put, OwnerInv, PlaceType,
     Calls, CreatePlaces, WaitPlaces, OnType
<1>17. ASSUME NEW t1 \in Tids, Receives(t1)
       PROVE  pc'[t] \in {"token1", "token2"} /\ on'[t] = on[t] /\ plock' = t
  BY <1>17, <1>b, <1>h, <1>s, ActorFacts DEF Receives, OwnerInv, PlaceType, Calls,
     CreatePlaces, WaitPlaces, OnType
<1>18. ASSUME NEW t1 \in Tids, Enable(t1)
       PROVE  pc'[t] \in {"token1", "token2"} /\ on'[t] = on[t] /\ plock' = t
  BY <1>18, <1>b, <1>h, <1>s, ActorFacts DEF Enable, OwnerInv, PlaceType, Calls,
     CreatePlaces, WaitPlaces, OnType
<1>19. ASSUME NEW t1 \in Tids, SetEnded(t1)
       PROVE  pc'[t] \in {"token1", "token2"} /\ on'[t] = on[t] /\ plock' = t
  BY <1>19, <1>b, <1>h, <1>s, ActorFacts DEF SetEnded, OwnerInv, PlaceType, Calls,
     CreatePlaces, WaitPlaces, OnType
<1>20. ASSUME NEW t1 \in Tids, SecondSignal(t1)
       PROVE  pc'[t] \in {"token1", "token2"} /\ on'[t] = on[t] /\ plock' = t
  BY <1>20, <1>b, <1>h, <1>s, ActorFacts DEF SecondSignal, OwnerInv, PlaceType, Calls,
     CreatePlaces, WaitPlaces, OnType
<1>21. ASSUME NEW t1 \in Tids, Terminate(t1)
       PROVE  pc'[t] \in {"token1", "token2"} /\ on'[t] = on[t] /\ plock' = t
  BY <1>21, <1>b, <1>h, <1>s, ActorFacts DEF Terminate, OwnerInv, PlaceType, Calls,
     CreatePlaces, WaitPlaces, OnType
<1>22. ASSUME NEW t1 \in Tids, NEW u \in Tids, Joins(t1, u)
       PROVE  pc'[t] \in {"token1", "token2"} /\ on'[t] = on[t] /\ plock' = t
  BY <1>22, <1>b, <1>h, <1>s, ActorFacts DEF Joins, OwnerInv, PlaceType, Calls,
     CreatePlaces, WaitPlaces, OnType
<1>23. ASSUME MainPasses
       PROVE  pc'[t] \in {"token1", "token2"} /\ on'[t] = on[t] /\ plock' = t
  BY <1>23, <1>b, <1>h, <1>s, ActorFacts DEF MainPasses, OwnerInv, PlaceType, Calls,
     CreatePlaces, WaitPlaces, OnType
<1>24. ASSUME WaitTimeout
       PROVE  pc'[t] \in {"token1", "token2"} /\ on'[t] = on[t] /\ plock' = t
  BY <1>24, <1>b, <1>h, <1>s, ActorFacts DEF WaitTimeout, OwnerInv, PlaceType, Calls,
     CreatePlaces, WaitPlaces, OnType
<1>25. ASSUME Begin PROVE pc'[t] \in {"token1", "token2"} /\ on'[t] = on[t] /\ plock' = t
  BY <1>25, <1>b, <1>h, <1>s, ActorFacts DEF Begin, RestartGroup, OwnerInv, PlaceType,
     Calls, CreatePlaces, WaitPlaces, OnType
<1>26. ASSUME DriverLoaded
       PROVE  pc'[t] \in {"token1", "token2"} /\ on'[t] = on[t] /\ plock' = t
  BY <1>26, <1>b, <1>h, <1>s, ActorFacts DEF DriverLoaded, OwnerInv, PlaceType, Calls,
     CreatePlaces, WaitPlaces, OnType
<1>27. ASSUME NEW b \in BOOLEAN, ScriptEnds(b)
       PROVE  pc'[t] \in {"token1", "token2"} /\ on'[t] = on[t] /\ plock' = t
  BY <1>27, <1>b, <1>h, <1>s, ActorFacts DEF ScriptEnds, OwnerInv, PlaceType, Calls,
     CreatePlaces, WaitPlaces, OnType
<1>28. ASSUME JoinAllThreads
       PROVE  pc'[t] \in {"token1", "token2"} /\ on'[t] = on[t] /\ plock' = t
  BY <1>28, <1>b, <1>h, <1>s, ActorFacts DEF JoinAllThreads, OwnerInv, PlaceType, Calls,
     CreatePlaces, WaitPlaces, OnType
<1>29. ASSUME LooksAtMember
       PROVE  pc'[t] \in {"token1", "token2"} /\ on'[t] = on[t] /\ plock' = t
  BY <1>29, <1>b, <1>h, <1>s, ActorFacts DEF LooksAtMember, OwnerInv, PlaceType, Calls,
     CreatePlaces, WaitPlaces, OnType
<1>30. ASSUME Backtrack
       PROVE  pc'[t] \in {"token1", "token2"} /\ on'[t] = on[t] /\ plock' = t
  BY <1>30, <1>b, <1>h, <1>s, ActorFacts DEF Backtrack, OwnerInv, PlaceType, Calls,
     CreatePlaces, WaitPlaces, OnType
<1>31. ASSUME FinishesMember
       PROVE  pc'[t] \in {"token1", "token2"} /\ on'[t] = on[t] /\ plock' = t
  BY <1>31, <1>b DEF FinishesMember, Finishing
<1>32. ASSUME SendsTerminate
       PROVE  pc'[t] \in {"token1", "token2"} /\ on'[t] = on[t] /\ plock' = t
  BY <1>32, <1>b DEF SendsTerminate, Finishing
<1>33. ASSUME Cancels PROVE pc'[t] \in {"token1", "token2"} /\ on'[t] = on[t] /\ plock' = t
  BY <1>33, <1>b DEF Cancels, Finishing
<1>34. ASSUME JoinPthread
       PROVE  pc'[t] \in {"token1", "token2"} /\ on'[t] = on[t] /\ plock' = t
  BY <1>34, <1>b DEF JoinPthread, Finishing
<1>35. ASSUME Kept PROVE pc'[t] \in {"token1", "token2"} /\ on'[t] = on[t] /\ plock' = t
  BY <1>35, <1>h DEF Kept
<1>36. QED
  BY <1>1, <1>2, <1>3, <1>4, <1>5, <1>6, <1>7, <1>8, <1>9, <1>10, <1>11, <1>12, <1>13,
     <1>14, <1>15, <1>16, <1>17, <1>18, <1>19, <1>20, <1>21, <1>22, <1>23, <1>24, <1>25,
     <1>26, <1>27, <1>28, <1>29, <1>30, <1>31, <1>32, <1>33, <1>34, <1>35 DEF Effect

\* A thread that will not end is stuck for good.
LEMMA StuckStays ==
  ASSUME BaseInv, ~Finishing, NEW t \in Tids, Stuck(t), Effect \/ Kept
  PROVE  Stuck(t)'
<1>b. plock \in Tids \cup {Nobody} /\ OwnerInv /\ \A u \in Tids : on[u] \in Tids
  BY Typed DEF BaseInv, TypeInv, LockType
<1>1. ASSUME NEW u \in Tids, Halted(u)
      PROVE  Halted(u)' /\ (pc[u] # "hung" => plock = u /\ plock' = u)
  <2>1. CASE pc[u] = "hung"
    BY <2>1, CallsStay DEF Halted
  <2>2. CASE pc[u] \in {"token1", "token2"} /\ pc[on[u]] \in Calls \cup {"hung"}
    <3>1. pc'[u] \in {"token1", "token2"} /\ on'[u] = on[u] /\ plock' = u
      BY <2>2, JoinerStays
    <3>2. plock = u /\ plock # Nobody
      BY <2>2, <1>b, ActorFacts DEF OwnerInv, WaitPlaces
    <3>3. pc'[on[u]] = pc[on[u]]
      BY <2>2, <3>2, <1>b, CallsStay
    <3>4. QED
      BY <2>2, <3>1, <3>2, <3>3 DEF Halted
  <2>3. QED
    BY <1>1, <2>1, <2>2 DEF Halted
<1>2. CASE Halted(t)
  BY <1>1, <1>2 DEF Stuck
<1>3. CASE pc[t] \in Calls /\ plock # Nobody /\ Halted(plock)
  <2>1. pc'[t] = pc[t]
    BY <1>3, CallsStay
  <2>2. plock \in Tids /\ pc[plock] # "hung"
    BY <1>3, <1>b DEF OwnerInv, CreatePlaces, WaitPlaces
  <2>3. plock' = plock /\ Halted(plock)'
    BY <1>1, <1>3, <2>2
  <2>4. QED
    BY <1>3, <2>1, <2>3 DEF Stuck
<1>4. QED
  BY <1>2, <1>3 DEF Stuck

\* A thread that has ended stays until it is restarted.
LEMMA DoneStays ==
  ASSUME BaseInv, ~Finishing, NEW t \in Tids, Done(t), CreatedAt(t, {"start"})
    => CreatedAt(t, {"start"})', Effect \/ Kept
  PROVE  Done(t)'
<1>b. TypeInv /\ LoopInv /\ OwnerInv /\ StatusInv /\ PlaceType /\ OnType /\ LockType
        /\ ThreadType /\ ~Finishing
  BY DEF BaseInv, TypeInv
<1>d. t \in Actors /\ t # Main /\ pc[t] = "awaitEnd" /\ chan[t] = "none" /\ t \notin woken
  BY ActorFacts DEF Done
<1>1. ASSUME NEW a \in Actors, Chooses(a) PROVE Done(t)'
  BY <1>1, <1>b, <1>d, ActorFacts DEF Chooses, Done, PlaceType, ThreadType
<1>2. ASSUME NEW a \in Actors, Spawns(a) PROVE Done(t)'
  <2>1. on[a] \in Tids /\ on[a] \in Actors
    BY <1>2, <1>b, OnMember, ActorFacts DEF Spawns, StartPlaces, CreatePlaces
  <2>2. pc[on[a]] \in {"absent", "entry", "dead"}
    BY <1>2, <2>1, <1>b DEF Spawns, StatusInv, StatusOf
  <2>3. QED
    BY <1>2, <2>1, <2>2, <1>b, <1>d, ActorFacts DEF Spawns, PlaceType, Done
<1>3. ASSUME NEW a \in Actors, Restarts(a) PROVE Done(t)'
  <2>1. cmx = a /\ on[a] \in Tids
    BY <1>3, <1>b, <1>d, OnMember, ActorFacts DEF Restarts, OwnerInv, StartPlaces,
       CreatePlaces
  <2>2. on[a] # t
    BY <1>3, <1>b, <1>d, <2>1, ActorFacts DEF Restarts, CreatedAt, StatusInv, StatusOf,
       PlaceType
  <2>3. t \notin woken'
    <3>1. ChannelOf(t) = t
      BY <1>d DEF ChannelOf
    <3>2. QED
      BY <1>3, <1>d, <2>2, <3>1, SignalWakesWaiter DEF Restarts, Put
  <2>4. QED
    BY <1>3, <2>2, <2>3, <1>b, <1>d, ActorFacts DEF Restarts, Put, Done, PlaceType,
       ThreadType
<1>4. ASSUME NEW a \in Actors, TakesStarted(a) PROVE Done(t)'
  BY <1>4, <1>b, <1>d, ActorFacts DEF TakesStarted, Done, PlaceType, ThreadType
<1>5. ASSUME NEW a \in Actors, FirstSignal(a) PROVE Done(t)'
  BY <1>5, <1>b, <1>d, ActorFacts DEF FirstSignal, Done, PlaceType, ThreadType
<1>6. ASSUME NEW a \in Actors, SendsTransfer(a) PROVE Done(t)'
  <2>1. cmx = a /\ on[a] \in Tids
    BY <1>6, <1>b, <1>d, OnMember, ActorFacts DEF SendsTransfer, OwnerInv, StartPlaces,
       CreatePlaces
  <2>2. on[a] # t
    BY <1>6, <1>b, <1>d, <2>1, ActorFacts DEF SendsTransfer, CreatedAt, StatusInv,
       StatusOf, PlaceType
  <2>3. t \notin woken'
    <3>1. ChannelOf(t) = t
      BY <1>d DEF ChannelOf
    <3>2. QED
      BY <1>6, <1>d, <2>2, <3>1, SignalWakesWaiter DEF SendsTransfer, Put
  <2>4. QED
    BY <1>6, <2>2, <2>3, <1>b, <1>d, ActorFacts DEF SendsTransfer, Put, Done, PlaceType,
       ThreadType
<1>7. ASSUME NEW a \in Actors, BeginsWait(a) PROVE Done(t)'
  BY <1>7, <1>b, <1>d, ActorFacts DEF BeginsWait, Done, PlaceType, ThreadType
<1>8. ASSUME NEW a \in Actors, TakeToken(a) PROVE Done(t)'
  BY <1>8, <1>b, <1>d, ActorFacts DEF TakeToken, Done, PlaceType, ThreadType
<1>9. ASSUME NEW a \in Actors, GiveBack(a) PROVE Done(t)'
  BY <1>9, <1>b, <1>d, ActorFacts DEF GiveBack, Done, PlaceType, ThreadType
<1>10. ASSUME NEW t1 \in Tids, JoinReturns(t1) PROVE Done(t)'
  BY <1>10, <1>b, <1>d, ActorFacts DEF JoinReturns, Done, PlaceType, ThreadType
<1>11. ASSUME NEW t1 \in Tids, LockPthread(t1, "callCreate", "create") PROVE Done(t)'
  BY <1>11, <1>b, <1>d, ActorFacts DEF LockPthread, Done, PlaceType, ThreadType
<1>12. ASSUME NEW t1 \in Tids, LockPthread(t1, "callJoin", "wait") PROVE Done(t)'
  BY <1>12, <1>b, <1>d, ActorFacts DEF LockPthread, Done, PlaceType, ThreadType
<1>13. ASSUME NEW t1 \in Tids, SutMoves(t1) PROVE Done(t)'
  BY <1>13, <1>b, <1>d, ActorFacts DEF SutMoves, Done, PlaceType, ThreadType
<1>14. ASSUME NEW t1 \in Tids, CallCreate(t1) PROVE Done(t)'
  BY <1>14, <1>b, <1>d, ActorFacts DEF CallCreate, Done, PlaceType, ThreadType
<1>15. ASSUME NEW t1 \in Tids, SetsStarted(t1) PROVE Done(t)'
  BY <1>15, <1>b, <1>d, ActorFacts DEF SetsStarted, Done, PlaceType, ThreadType
<1>16. ASSUME NEW t1 \in Tids, SendsStarted(t1) PROVE Done(t)'
  <2>1. t1 # t
    BY <1>16, <1>b, <1>d, OnMember, ActorFacts DEF SendsStarted, OwnerInv, StartPlaces,
       CreatePlaces
  <2>2. t1 # t
    BY <1>16, <1>b, <1>d, <2>1, ActorFacts DEF SendsStarted, CreatedAt, StatusInv,
       StatusOf, PlaceType
  <2>3. t \notin woken'
    <3>1. ChannelOf(t) = t
      BY <1>d DEF ChannelOf
    <3>2. QED
      BY <1>16, <1>d, <2>2, <3>1, SignalWakesWaiter DEF SendsStarted, Put
  <2>4. QED
    BY <1>16, <2>2, <2>3, <1>b, <1>d, ActorFacts DEF SendsStarted, Put, Done, PlaceType,
       ThreadType
<1>17. ASSUME NEW t1 \in Tids, Receives(t1) PROVE Done(t)'
  BY <1>17, <1>b, <1>d, ActorFacts DEF Receives, Done, PlaceType, ThreadType
<1>18. ASSUME NEW t1 \in Tids, Enable(t1) PROVE Done(t)'
  BY <1>18, <1>b, <1>d, ActorFacts DEF Enable, Done, PlaceType, ThreadType
<1>19. ASSUME NEW t1 \in Tids, SetEnded(t1) PROVE Done(t)'
  BY <1>19, <1>b, <1>d, ActorFacts DEF SetEnded, Done, PlaceType, ThreadType
<1>20. ASSUME NEW t1 \in Tids, SecondSignal(t1) PROVE Done(t)'
  BY <1>20, <1>b, <1>d, ActorFacts DEF SecondSignal, Done, PlaceType, ThreadType
<1>21. ASSUME NEW t1 \in Tids, Terminate(t1) PROVE Done(t)'
  BY <1>21, <1>b, <1>d, ActorFacts DEF Terminate, Done, PlaceType, ThreadType
<1>22. ASSUME NEW t1 \in Tids, NEW u \in Tids, Joins(t1, u) PROVE Done(t)'
  BY <1>22, <1>b, <1>d, ActorFacts DEF Joins, Done, PlaceType, ThreadType
<1>23. ASSUME MainPasses PROVE Done(t)'
  BY <1>23, <1>b, <1>d, ActorFacts DEF MainPasses, Done, PlaceType, ThreadType
<1>24. ASSUME WaitTimeout PROVE Done(t)'
  BY <1>24, <1>b, <1>d, ActorFacts DEF WaitTimeout, Done, PlaceType, ThreadType
<1>25. ASSUME Begin PROVE Done(t)'
  BY <1>25, <1>b, <1>d, ActorFacts DEF Begin, RestartGroup, Done, PlaceType, ThreadType
<1>26. ASSUME DriverLoaded PROVE Done(t)'
  BY <1>26, <1>b, <1>d, ActorFacts DEF DriverLoaded, Done, PlaceType, ThreadType
<1>27. ASSUME NEW b \in BOOLEAN, ScriptEnds(b) PROVE Done(t)'
  BY <1>27, <1>b, <1>d, ActorFacts DEF ScriptEnds, Done, PlaceType, ThreadType
<1>28. ASSUME JoinAllThreads PROVE Done(t)'
  BY <1>28, <1>b, <1>d, ActorFacts DEF JoinAllThreads, Done, PlaceType, ThreadType
<1>29. ASSUME LooksAtMember PROVE Done(t)'
  BY <1>29, <1>b, <1>d, ActorFacts DEF LooksAtMember, Done, PlaceType, ThreadType
<1>30. ASSUME Backtrack PROVE Done(t)'
  BY <1>30, <1>b, <1>d, ActorFacts DEF Backtrack, Done, PlaceType, ThreadType
<1>31. ASSUME FinishesMember PROVE Done(t)'
  BY <1>31, <1>b DEF FinishesMember, Finishing
<1>32. ASSUME SendsTerminate PROVE Done(t)'
  BY <1>32, <1>b DEF SendsTerminate, Finishing
<1>33. ASSUME Cancels PROVE Done(t)'
  BY <1>33, <1>b DEF Cancels, Finishing
<1>34. ASSUME JoinPthread PROVE Done(t)'
  BY <1>34, <1>b DEF JoinPthread, Finishing
<1>35. ASSUME Kept PROVE Done(t)'
  BY <1>35, <1>d DEF Kept, Done
<1>36. QED
  BY <1>1, <1>2, <1>3, <1>4, <1>5, <1>6, <1>7, <1>8, <1>9, <1>10, <1>11, <1>12, <1>13,
     <1>14, <1>15, <1>16, <1>17, <1>18, <1>19, <1>20, <1>21, <1>22, <1>23, <1>24, <1>25,
     <1>26, <1>27, <1>28, <1>29, <1>30, <1>31, <1>32, <1>33, <1>34, <1>35 DEF Effect

\* A settled thread stays settled until it is restarted.
LEMMA SettledStays ==
  ASSUME BaseInv, ~Finishing, NEW t \in Tids, Settled(t), Effect \/ Kept,
         CreatedAt(t, {"start"}) => CreatedAt(t, {"start"})'
  PROVE  Settled(t)'
BY StuckStays, DoneStays DEF Settled

\* On the channel of a thread waits its creator, or the thread itself.
LEMMA WaitersOf ==
  ASSUME BaseInv, NEW s \in Tids, NEW w \in Actors, pc[w] \in InWait, ChannelOf(w) = s
  PROVE  \/ w = cmx /\ CreatedAt(s, {"awaitStarted"})
         \/ w = s /\ pc[s] \in {"awaitTransfer", "awaitEnd"}
<1>1. CASE pc[w] = "awaitStarted"
  <2>1. cmx = w /\ cmx # Nobody
    BY <1>1, ActorFacts DEF BaseInv, OwnerInv, StartPlaces, CreatePlaces
  <2>2. QED
    BY <1>1, <2>1 DEF ChannelOf, CreatedAt
<1>2. CASE pc[w] \in {"awaitTransfer", "awaitEnd"}
  BY <1>2 DEF ChannelOf
<1>3. QED
  BY <1>1, <1>2 DEF InWait

\* A settled thread that is not in the code under test waits for its restart.
LEMMA SettledChannel ==
  ASSUME BaseInv, NEW s \in Tids, Settled(s), status[s] # Enabled
  PROVE  Done(s)
BY DEF Settled, Stuck, Halted, BaseInv, StatusInv, StatusOf, Running, Calls, WaitPlaces

\* Before Finish, every step keeps the messages with those they are for.
LEMMA ChannelStep ==
  ASSUME BaseInv, ~Finishing, Effect \/ Kept
  PROVE  ChannelInv'
<1>b. TypeInv /\ LoopInv /\ OwnerInv /\ StatusInv /\ PlaceType /\ OnType /\ LockType
        /\ ThreadType /\ ~Finishing
  BY DEF BaseInv, TypeInv
<1>c. \A s \in Tids : StatusOf(s) /\ ChannelOK(s)
  BY <1>b DEF BaseInv, StatusInv, LiveInv, ChannelInv
<1>1. ASSUME NEW a \in Actors, Chooses(a) PROVE ChannelInv'
  <2>1. next + 1 \in Tids /\ on'[a] = next + 1 /\ cmx' = a /\ cmx = Nobody
    BY <1>1, <1>b, RoomForOne DEF Chooses, OnType, BaseInv
  <2>2. size' = (IF next < size THEN size ELSE next + 1) /\ size \in Nat
          /\ next \in Nat /\ next <= size
    BY <1>1, <1>b, Typed DEF Chooses
  <2>3. ASSUME NEW s \in Tids PROVE ChannelOK(s)'
    <3>1. ChannelOK(s) /\ StatusOf(s)
      BY <1>c
    <3>2. pc' = [pc EXCEPT ![a] = "start"] /\ pc[a] = "create"
            /\ UNCHANGED <<status, chan, woken>>
      BY <1>1 DEF Chooses
    <3>3. \A P : ~CreatedAt(s, P)
      BY <2>1 DEF CreatedAt
    <3>4. /\ CreatedAt(s, {"start"})' <=> s = next + 1
          /\ ~CreatedAt(s, {"awaitStarted"})' /\ ~CreatedAt(s, {"firstSignal", "transfer"})'
      BY <3>2, <2>1, <1>b, ActorFacts DEF CreatedAt, PlaceType
    <3>5. s > size' => s > size
      BY <2>2, <2>3 DEF Tids
    <3>6. s > size => s > size' \/ s = next + 1
      BY <2>2, <2>3 DEF Tids
    <3>7. CASE s = a
      BY <3>1, <3>2, <3>3, <3>4, <3>5, <3>7, <1>b DEF ChannelOK, PlaceType
    <3>8. CASE s # a
      <4>1. pc'[s] = pc[s]
        BY <3>2, <3>8, <1>b, ActorFacts DEF PlaceType
      <4>2. QED
        BY <4>1, <3>1, <3>2, <3>3, <3>4, <3>5, <3>6, <3>8 DEF ChannelOK
    <3>9. QED
      BY <3>7, <3>8
  <2>4. QED
    BY <2>3 DEF ChannelInv
<1>2. ASSUME NEW a \in Actors, Spawns(a) PROVE ChannelInv'
  <2>1. cmx = a /\ cmx # Nobody /\ on[a] \in Tids /\ on[a] \in Actors
    BY <1>2, <1>b, OnMember, ActorFacts DEF Spawns, OwnerInv, StartPlaces, CreatePlaces
  <2>2. ChannelOK(on[a]) /\ StatusOf(on[a])
    BY <1>c, <2>1
  <2>3. pc[on[a]] = "absent"
    BY <1>2, <2>1, <2>2 DEF Spawns, StatusOf, ChannelOK, CreatedAt
  <2>4. ASSUME NEW s \in Tids PROVE ChannelOK(s)'
    <3>1. ChannelOK(s) /\ StatusOf(s)
      BY <1>c
    <3>2. /\ pc' = [pc EXCEPT ![a] = "awaitStarted", ![on[a]] = "entry"] /\ a # on[a]
               /\ a \notin woken
          /\ UNCHANGED <<size, status, chan, cmx, woken, on>>
      BY <1>2, <2>1, <2>3, <1>b DEF Spawns, OwnerInv, InWait
    <3>3. CreatedAt(s, {"awaitStarted"})' <=> s = on[a]
      BY <3>2, <2>1, <1>b DEF CreatedAt, PlaceType
    <3>4. \A P : CreatedAt(s, P) => s = on[a] /\ "start" \in P
      BY <1>2, <2>1 DEF CreatedAt, Spawns
    <3>5. ~CreatedAt(s, {"start"})' /\ ~CreatedAt(s, {"firstSignal", "transfer"})'
      BY <3>2, <2>1, <1>b DEF CreatedAt, PlaceType
    <3>5a. on[a] \in Nat /\ on[a] <= size /\ size \in Nat
      BY <2>1, <1>b, Typed DEF OwnerInv
    <3>6. CASE s = on[a]
      BY <3>5a, <3>1, <3>2, <3>3, <3>5, <3>6, <2>1, <2>2, <2>3, <1>b DEF ChannelOK,
         PlaceType
    <3>7. CASE s = a
      BY <3>1, <3>2, <3>3, <3>4, <3>5, <3>7, <2>1, <1>b, <1>2 DEF ChannelOK, PlaceType,
         Spawns
    <3>8. CASE s # a /\ s # on[a]
      <4>1. pc'[s] = pc[s]
        BY <3>2, <3>8, <1>b, ActorFacts DEF PlaceType
      <4>2. QED
        BY <4>1, <3>1, <3>2, <3>3, <3>4, <3>5, <3>8 DEF ChannelOK
    <3>9. QED
      BY <3>6, <3>7, <3>8
  <2>5. QED
    BY <2>4 DEF ChannelInv
<1>3. ASSUME NEW a \in Actors, Restarts(a) PROVE ChannelInv'
  <2>1. cmx = a /\ cmx # Nobody /\ on[a] \in Tids /\ on[a] \in Actors
    BY <1>3, <1>b, OnMember, ActorFacts DEF Restarts, OwnerInv, StartPlaces, CreatePlaces
  <2>2. ChannelOK(on[a]) /\ StatusOf(on[a])
    BY <1>c, <2>1
  <2>3. Done(on[a])
    BY <1>3, <2>1, <2>2, <1>b, SettledChannel DEF Restarts, BaseInv, LiveInv, OrderInv,
       StartSettled, CreatedAt, StatusOf
  <2>4. woken' = woken \cup {on[a]}
    <3>1. Signal(on[a]) /\ ChannelOf(on[a]) = on[a] /\ pc[on[a]] \in InWait
            /\ on[a] \notin woken
      BY <1>3, <2>3 DEF Restarts, Put, ChannelOf, Done, InWait
    <3>2. \A w \in Actors : pc[w] \in InWait /\ ChannelOf(w) = on[a] => w = on[a]
      BY <1>3, <2>1, WaitersOf DEF Restarts, CreatedAt
    <3>3. QED
      BY <3>1, <3>2, <2>1, SignalEffect
  <2>5. ASSUME NEW s \in Tids PROVE ChannelOK(s)'
    <3>1. ChannelOK(s) /\ StatusOf(s)
      BY <1>c
    <3>2. QED
      BY <1>3, <2>1, <2>2, <2>3, <2>4, <2>5, <3>1, <1>b, ActorFacts DEF Restarts, Put,
         ChannelOK, StatusOf, CreatedAt, PlaceType, OnType, LockType, ThreadType,
         OwnerInv, StartPlaces, CreatePlaces, InWait, Done
  <2>6. QED
    BY <2>5 DEF ChannelInv
<1>4. ASSUME NEW a \in Actors, TakesStarted(a) PROVE ChannelInv'
  <2>1. cmx = a /\ cmx # Nobody /\ on[a] \in Tids /\ on[a] \in Actors
    BY <1>4, <1>b, OnMember, ActorFacts DEF TakesStarted, OwnerInv, StartPlaces,
       CreatePlaces
  <2>2. ChannelOK(on[a]) /\ StatusOf(on[a])
    BY <1>c, <2>1
  <2>3. ASSUME NEW s \in Tids PROVE ChannelOK(s)'
    <3>1. ChannelOK(s) /\ StatusOf(s)
      BY <1>c
    <3>2. QED
      BY <1>4, <2>1, <2>2, <2>3, <3>1, <1>b, ActorFacts DEF TakesStarted, ChannelOK,
         StatusOf, CreatedAt, PlaceType, OnType, LockType, ThreadType, OwnerInv,
         StartPlaces, CreatePlaces, InWait
  <2>4. QED
    BY <2>3 DEF ChannelInv
<1>5. ASSUME NEW a \in Actors, FirstSignal(a) PROVE ChannelInv'
  <2>1. cmx = a /\ cmx # Nobody /\ on[a] \in Tids /\ on[a] \in Actors
    BY <1>5, <1>b, OnMember, ActorFacts DEF FirstSignal, OwnerInv, StartPlaces, CreatePlaces
  <2>2. ChannelOK(on[a]) /\ StatusOf(on[a])
    BY <1>c, <2>1
  <2>3. ASSUME NEW s \in Tids PROVE ChannelOK(s)'
    <3>1. ChannelOK(s) /\ StatusOf(s)
      BY <1>c
    <3>2. QED
      BY <1>5, <2>1, <2>2, <2>3, <3>1, <1>b, ActorFacts DEF FirstSignal, ChannelOK,
         StatusOf, CreatedAt, PlaceType, OnType, LockType, ThreadType, OwnerInv,
         StartPlaces, CreatePlaces, InWait
  <2>4. QED
    BY <2>3 DEF ChannelInv
<1>6. ASSUME NEW a \in Actors, SendsTransfer(a) PROVE ChannelInv'
  <2>1. cmx = a /\ cmx # Nobody /\ on[a] \in Tids /\ on[a] \in Actors
    BY <1>6, <1>b, OnMember, ActorFacts DEF SendsTransfer, OwnerInv, StartPlaces,
       CreatePlaces
  <2>2. ChannelOK(on[a]) /\ StatusOf(on[a])
    BY <1>c, <2>1
  <2>3. pc[on[a]] = "awaitTransfer" /\ on[a] \notin woken
    BY <1>6, <2>1, <2>2 DEF SendsTransfer, ChannelOK, CreatedAt
  <2>4. woken' = woken \cup {on[a]}
    <3>1. Signal(on[a]) /\ ChannelOf(on[a]) = on[a] /\ pc[on[a]] \in InWait
            /\ on[a] \notin woken
      BY <1>6, <2>3 DEF SendsTransfer, Put, ChannelOf, InWait
    <3>2. \A w \in Actors : pc[w] \in InWait /\ ChannelOf(w) = on[a] => w = on[a]
      BY <1>6, <2>1, WaitersOf DEF SendsTransfer, CreatedAt
    <3>3. QED
      BY <3>1, <3>2, <2>1, SignalEffect
  <2>5. ASSUME NEW s \in Tids PROVE ChannelOK(s)'
    <3>1. ChannelOK(s) /\ StatusOf(s)
      BY <1>c
    <3>2. QED
      BY <1>6, <2>1, <2>2, <2>3, <2>4, <2>5, <3>1, <1>b, ActorFacts DEF SendsTransfer,
         Put, ChannelOK, StatusOf, CreatedAt, PlaceType, OnType, LockType, ThreadType,
         OwnerInv, StartPlaces, CreatePlaces, InWait
  <2>6. QED
    BY <2>5 DEF ChannelInv
<1>7. ASSUME NEW a \in Actors, BeginsWait(a) PROVE ChannelInv'
  <2>1. ASSUME NEW s \in Tids PROVE ChannelOK(s)'
    <3>1. ChannelOK(s) /\ StatusOf(s)
      BY <1>c
    <3>2. QED
      BY <1>7, <2>1, <3>1, <1>b, ActorFacts DEF BeginsWait, ChannelOK, StatusOf,
         CreatedAt, PlaceType, OnType, LockType, ThreadType, OwnerInv, StartPlaces,
         CreatePlaces, InWait
  <2>2. QED
    BY <2>1 DEF ChannelInv
<1>8. ASSUME NEW a \in Actors, TakeToken(a) PROVE ChannelInv'
  <2>1. ASSUME NEW s \in Tids PROVE ChannelOK(s)'
    <3>1. ChannelOK(s) /\ StatusOf(s)
      BY <1>c
    <3>2. QED
      BY <1>8, <2>1, <3>1, <1>b, ActorFacts DEF TakeToken, ChannelOK, StatusOf, CreatedAt,
         PlaceType, OnType, LockType, ThreadType, OwnerInv, StartPlaces, CreatePlaces,
         InWait
  <2>2. QED
    BY <2>1 DEF ChannelInv
<1>9. ASSUME NEW a \in Actors, GiveBack(a) PROVE ChannelInv'
  <2>1. ASSUME NEW s \in Tids PROVE ChannelOK(s)'
    <3>1. ChannelOK(s) /\ StatusOf(s)
      BY <1>c
    <3>2. QED
      BY <1>9, <2>1, <3>1, <1>b, ActorFacts DEF GiveBack, ChannelOK, StatusOf, CreatedAt,
         PlaceType, OnType, LockType, ThreadType, OwnerInv, StartPlaces, CreatePlaces,
         InWait
  <2>2. QED
    BY <2>1 DEF ChannelInv
<1>10. ASSUME NEW t \in Tids, JoinReturns(t) PROVE ChannelInv'
  <2>1. ASSUME NEW s \in Tids PROVE ChannelOK(s)'
    <3>1. ChannelOK(s) /\ StatusOf(s)
      BY <1>c
    <3>2. QED
      BY <1>10, <2>1, <3>1, <1>b, ActorFacts DEF JoinReturns, ChannelOK, StatusOf,
         CreatedAt, PlaceType, OnType, LockType, ThreadType, OwnerInv, StartPlaces,
         CreatePlaces, InWait
  <2>2. QED
    BY <2>1 DEF ChannelInv
<1>11. ASSUME NEW t \in Tids, LockPthread(t, "callCreate", "create") PROVE ChannelInv'
  <2>1. ASSUME NEW s \in Tids PROVE ChannelOK(s)'
    <3>1. ChannelOK(s) /\ StatusOf(s)
      BY <1>c
    <3>2. QED
      BY <1>11, <2>1, <3>1, <1>b, ActorFacts DEF LockPthread, ChannelOK, StatusOf,
         CreatedAt, PlaceType, OnType, LockType, ThreadType, OwnerInv, StartPlaces,
         CreatePlaces, InWait
  <2>2. QED
    BY <2>1 DEF ChannelInv
<1>12. ASSUME NEW t \in Tids, LockPthread(t, "callJoin", "wait") PROVE ChannelInv'
  <2>1. ASSUME NEW s \in Tids PROVE ChannelOK(s)'
    <3>1. ChannelOK(s) /\ StatusOf(s)
      BY <1>c
    <3>2. QED
      BY <1>12, <2>1, <3>1, <1>b, ActorFacts DEF LockPthread, ChannelOK, StatusOf,
         CreatedAt, PlaceType, OnType, LockType, ThreadType, OwnerInv, StartPlaces,
         CreatePlaces, InWait
  <2>2. QED
    BY <2>1 DEF ChannelInv
<1>13. ASSUME NEW t \in Tids, SutMoves(t) PROVE ChannelInv'
  <2>1. ASSUME NEW s \in Tids PROVE ChannelOK(s)'
    <3>1. ChannelOK(s) /\ StatusOf(s)
      BY <1>c
    <3>2. QED
      BY <1>13, <2>1, <3>1, <1>b, ActorFacts DEF SutMoves, ChannelOK, StatusOf, CreatedAt,
         PlaceType, OnType, LockType, ThreadType, OwnerInv, StartPlaces, CreatePlaces,
         InWait
  <2>2. QED
    BY <2>1 DEF ChannelInv
<1>14. ASSUME NEW t \in Tids, CallCreate(t) PROVE ChannelInv'
  <2>1. ASSUME NEW s \in Tids PROVE ChannelOK(s)'
    <3>1. ChannelOK(s) /\ StatusOf(s)
      BY <1>c
    <3>2. QED
      BY <1>14, <2>1, <3>1, <1>b, ActorFacts DEF CallCreate, ChannelOK, StatusOf,
         CreatedAt, PlaceType, OnType, LockType, ThreadType, OwnerInv, StartPlaces,
         CreatePlaces, InWait
  <2>2. QED
    BY <2>1 DEF ChannelInv
<1>15. ASSUME NEW t \in Tids, SetsStarted(t) PROVE ChannelInv'
  <2>1. ASSUME NEW s \in Tids PROVE ChannelOK(s)'
    <3>1. ChannelOK(s) /\ StatusOf(s)
      BY <1>c
    <3>2. QED
      BY <1>15, <2>1, <3>1, <1>b, ActorFacts DEF SetsStarted, ChannelOK, StatusOf,
         CreatedAt, PlaceType, OnType, LockType, ThreadType, OwnerInv, StartPlaces,
         CreatePlaces, InWait
  <2>2. QED
    BY <2>1 DEF ChannelInv
<1>16. ASSUME NEW t \in Tids, SendsStarted(t) PROVE ChannelInv'
  <2>1. cmx \in Actors /\ cmx # t /\ cmx \notin woken /\ CreatedAt(t, {"awaitStarted"})
    BY <1>16, <1>b, <1>c DEF SendsStarted, ChannelOK, CreatedAt, LockType
  <2>2. woken' = woken \cup {cmx}
    <3>1. Signal(t) /\ ChannelOf(cmx) = t /\ pc[cmx] \in InWait
      BY <1>16, <2>1 DEF SendsStarted, Put, ChannelOf, CreatedAt, InWait
    <3>2. \A w \in Actors : pc[w] \in InWait /\ ChannelOf(w) = t => w = cmx
      BY <1>16, <2>1, WaitersOf DEF SendsStarted
    <3>3. QED
      BY <3>1, <3>2, <2>1, SignalEffect
  <2>3. ASSUME NEW s \in Tids PROVE ChannelOK(s)'
    <3>1. ChannelOK(s) /\ StatusOf(s)
      BY <1>c
    <3>2. QED
      BY <1>16, <2>1, <2>2, <2>3, <3>1, <1>b, ActorFacts DEF SendsStarted, Put, ChannelOK,
         StatusOf, CreatedAt, PlaceType, OnType, LockType, ThreadType, OwnerInv,
         StartPlaces, CreatePlaces, InWait
  <2>4. QED
    BY <2>3 DEF ChannelInv
<1>17. ASSUME NEW t \in Tids, Receives(t) PROVE ChannelInv'
  <2>1. ASSUME NEW s \in Tids PROVE ChannelOK(s)'
    <3>1. ChannelOK(s) /\ StatusOf(s)
      BY <1>c
    <3>2. QED
      BY <1>17, <2>1, <3>1, <1>b, ActorFacts DEF Receives, ChannelOK, StatusOf, CreatedAt,
         PlaceType, OnType, LockType, ThreadType, OwnerInv, StartPlaces, CreatePlaces,
         InWait
  <2>2. QED
    BY <2>1 DEF ChannelInv
<1>18. ASSUME NEW t \in Tids, Enable(t) PROVE ChannelInv'
  <2>1. ASSUME NEW s \in Tids PROVE ChannelOK(s)'
    <3>1. ChannelOK(s) /\ StatusOf(s)
      BY <1>c
    <3>2. QED
      BY <1>18, <2>1, <3>1, <1>b, ActorFacts DEF Enable, ChannelOK, StatusOf, CreatedAt,
         PlaceType, OnType, LockType, ThreadType, OwnerInv, StartPlaces, CreatePlaces,
         InWait
  <2>2. QED
    BY <2>1 DEF ChannelInv
<1>19. ASSUME NEW t \in Tids, SetEnded(t) PROVE ChannelInv'
  <2>1. ASSUME NEW s \in Tids PROVE ChannelOK(s)'
    <3>1. ChannelOK(s) /\ StatusOf(s)
      BY <1>c
    <3>2. QED
      BY <1>19, <2>1, <3>1, <1>b, ActorFacts DEF SetEnded, ChannelOK, StatusOf, CreatedAt,
         PlaceType, OnType, LockType, ThreadType, OwnerInv, StartPlaces, CreatePlaces,
         InWait
  <2>2. QED
    BY <2>1 DEF ChannelInv
<1>20. ASSUME NEW t \in Tids, SecondSignal(t) PROVE ChannelInv'
  <2>1. ASSUME NEW s \in Tids PROVE ChannelOK(s)'
    <3>1. ChannelOK(s) /\ StatusOf(s)
      BY <1>c
    <3>2. QED
      BY <1>20, <2>1, <3>1, <1>b, ActorFacts DEF SecondSignal, ChannelOK, StatusOf,
         CreatedAt, PlaceType, OnType, LockType, ThreadType, OwnerInv, StartPlaces,
         CreatePlaces, InWait
  <2>2. QED
    BY <2>1 DEF ChannelInv
<1>21. ASSUME NEW t \in Tids, Terminate(t) PROVE ChannelInv'
  <2>1. ASSUME NEW s \in Tids PROVE ChannelOK(s)'
    <3>1. ChannelOK(s) /\ StatusOf(s)
      BY <1>c
    <3>2. QED
      BY <1>21, <2>1, <3>1, <1>b, ActorFacts DEF Terminate, ChannelOK, StatusOf,
         CreatedAt, PlaceType, OnType, LockType, ThreadType, OwnerInv, StartPlaces,
         CreatePlaces, InWait
  <2>2. QED
    BY <2>1 DEF ChannelInv
<1>22. ASSUME NEW t \in Tids, NEW u \in Tids, Joins(t, u) PROVE ChannelInv'
  <2>1. ASSUME NEW s \in Tids PROVE ChannelOK(s)'
    <3>1. ChannelOK(s) /\ StatusOf(s)
      BY <1>c
    <3>2. QED
      BY <1>22, <2>1, <3>1, <1>b, ActorFacts DEF Joins, ChannelOK, StatusOf, CreatedAt,
         PlaceType, OnType, LockType, ThreadType, OwnerInv, StartPlaces, CreatePlaces,
         InWait
  <2>2. QED
    BY <2>1 DEF ChannelInv
<1>23. ASSUME MainPasses PROVE ChannelInv'
  <2>1. ASSUME NEW s \in Tids PROVE ChannelOK(s)'
    <3>1. ChannelOK(s) /\ StatusOf(s)
      BY <1>c
    <3>2. QED
      BY <1>23, <2>1, <3>1, <1>b, ActorFacts DEF MainPasses, ChannelOK, StatusOf,
         CreatedAt, PlaceType, OnType, LockType, ThreadType, OwnerInv, StartPlaces,
         CreatePlaces, InWait
  <2>2. QED
    BY <2>1 DEF ChannelInv
<1>24. ASSUME WaitTimeout PROVE ChannelInv'
  <2>1. ASSUME NEW s \in Tids PROVE ChannelOK(s)'
    <3>1. ChannelOK(s) /\ StatusOf(s)
      BY <1>c
    <3>2. QED
      BY <1>24, <2>1, <3>1, <1>b, ActorFacts DEF WaitTimeout, ChannelOK, StatusOf,
         CreatedAt, PlaceType, OnType, LockType, ThreadType, OwnerInv, StartPlaces,
         CreatePlaces, InWait
  <2>2. QED
    BY <2>1 DEF ChannelInv
<1>25. ASSUME Begin PROVE ChannelInv'
  <2>1. ASSUME NEW s \in Tids PROVE ChannelOK(s)'
    <3>1. ChannelOK(s) /\ StatusOf(s)
      BY <1>c
    <3>2. QED
      BY <1>25, <2>1, <3>1, <1>b, ActorFacts DEF Begin, RestartGroup, ChannelOK, StatusOf,
         CreatedAt, PlaceType, OnType, LockType, ThreadType, OwnerInv, StartPlaces,
         CreatePlaces, InWait
  <2>2. QED
    BY <2>1 DEF ChannelInv
<1>26. ASSUME DriverLoaded PROVE ChannelInv'
  <2>1. ASSUME NEW s \in Tids PROVE ChannelOK(s)'
    <3>1. ChannelOK(s) /\ StatusOf(s)
      BY <1>c
    <3>2. QED
      BY <1>26, <2>1, <3>1, <1>b, ActorFacts DEF DriverLoaded, ChannelOK, StatusOf,
         CreatedAt, PlaceType, OnType, LockType, ThreadType, OwnerInv, StartPlaces,
         CreatePlaces, InWait
  <2>2. QED
    BY <2>1 DEF ChannelInv
<1>27. ASSUME NEW b \in BOOLEAN, ScriptEnds(b) PROVE ChannelInv'
  <2>1. ASSUME NEW s \in Tids PROVE ChannelOK(s)'
    <3>1. ChannelOK(s) /\ StatusOf(s)
      BY <1>c
    <3>2. QED
      BY <1>27, <2>1, <3>1, <1>b, ActorFacts DEF ScriptEnds, ChannelOK, StatusOf,
         CreatedAt, PlaceType, OnType, LockType, ThreadType, OwnerInv, StartPlaces,
         CreatePlaces, InWait
  <2>2. QED
    BY <2>1 DEF ChannelInv
<1>28. ASSUME JoinAllThreads PROVE ChannelInv'
  <2>1. ASSUME NEW s \in Tids PROVE ChannelOK(s)'
    <3>1. ChannelOK(s) /\ StatusOf(s)
      BY <1>c
    <3>2. QED
      BY <1>28, <2>1, <3>1, <1>b, ActorFacts DEF JoinAllThreads, ChannelOK, StatusOf,
         CreatedAt, PlaceType, OnType, LockType, ThreadType, OwnerInv, StartPlaces,
         CreatePlaces, InWait
  <2>2. QED
    BY <2>1 DEF ChannelInv
<1>29. ASSUME LooksAtMember PROVE ChannelInv'
  <2>1. ASSUME NEW s \in Tids PROVE ChannelOK(s)'
    <3>1. ChannelOK(s) /\ StatusOf(s)
      BY <1>c
    <3>2. QED
      BY <1>29, <2>1, <3>1, <1>b, ActorFacts DEF LooksAtMember, ChannelOK, StatusOf,
         CreatedAt, PlaceType, OnType, LockType, ThreadType, OwnerInv, StartPlaces,
         CreatePlaces, InWait
  <2>2. QED
    BY <2>1 DEF ChannelInv
<1>30. ASSUME Backtrack PROVE ChannelInv'
  <2>1. ASSUME NEW s \in Tids PROVE ChannelOK(s)'
    <3>1. ChannelOK(s) /\ StatusOf(s)
      BY <1>c
    <3>2. QED
      BY <1>30, <2>1, <3>1, <1>b, ActorFacts DEF Backtrack, ChannelOK, StatusOf,
         CreatedAt, PlaceType, OnType, LockType, ThreadType, OwnerInv, StartPlaces,
         CreatePlaces, InWait
  <2>2. QED
    BY <2>1 DEF ChannelInv
<1>31. ASSUME FinishesMember PROVE ChannelInv'
  BY <1>31, <1>b DEF FinishesMember, Finishing
<1>32. ASSUME SendsTerminate PROVE ChannelInv'
  BY <1>32, <1>b DEF SendsTerminate, Finishing
<1>33. ASSUME Cancels PROVE ChannelInv'
  BY <1>33, <1>b DEF Cancels, Finishing
<1>34. ASSUME JoinPthread PROVE ChannelInv'
  BY <1>34, <1>b DEF JoinPthread, Finishing
<1>35. ASSUME Kept PROVE ChannelInv'
  <2>1. ASSUME NEW s \in Tids PROVE ChannelOK(s)'
    BY <1>35, <1>c DEF Kept, ChannelOK, CreatedAt
  <2>2. QED
    BY <2>1 DEF ChannelInv
<1>36. QED
  BY <1>1, <1>2, <1>3, <1>4, <1>5, <1>6, <1>7, <1>8, <1>9, <1>10, <1>11, <1>12, <1>13,
     <1>14, <1>15, <1>16, <1>17, <1>18, <1>19, <1>20, <1>21, <1>22, <1>23, <1>24, <1>25,
     <1>26, <1>27, <1>28, <1>29, <1>30, <1>31, <1>32, <1>33, <1>34, <1>35 DEF Effect

\* Before Finish, every step keeps the number of the tokens.
LEMMA ExactStep ==
  ASSUME BaseInv, ~Finishing, Effect \/ Kept
  PROVE  ExactInv'
<1>b. TypeInv /\ LoopInv /\ OwnerInv /\ StatusInv /\ TokenInv /\ PlaceType /\ OnType
        /\ LockType /\ ThreadType /\ ~Finishing
  BY DEF BaseInv, TypeInv
<1>c. \A s \in Tids : StatusOf(s) /\ TokensOf(s) /\ ChannelOK(s) /\ ExactOf(s)
        /\ Tokens(s) \in Nat
  BY <1>b, ShareNat DEF BaseInv, StatusInv, TokenInv, LiveInv, ChannelInv, ExactInv
<1>1. ASSUME NEW a \in Actors, Chooses(a) PROVE ExactInv'
  <2>1. next + 1 \in Tids /\ on'[a] = next + 1 /\ cmx' = a /\ cmx = Nobody
          /\ pc'[a] = "start"
    BY <1>1, <1>b, RoomForOne DEF Chooses, OnType, PlaceType, BaseInv
  <2>2. size' = (IF next < size THEN size ELSE next + 1) /\ size \in Nat
          /\ next \in Nat /\ next <= size
    BY <1>1, <1>b, Typed DEF Chooses
  <2>3. ASSUME NEW s \in Tids PROVE Tokens(s)' = Tokens(s)
    BY <1>1, <2>1, <2>2, <2>3, <1>b, ActorFacts DEF Chooses, Tokens, JoinShare, Share,
       PlaceType, OnType, LockType, ThreadType, OwnerInv, CreatePlaces, WaitPlaces
  <2>4. ASSUME NEW s \in Tids PROVE ExactOf(s)'
    <3>1. ExactOf(s) /\ ChannelOK(s) /\ Tokens(s) \in Nat
      BY <1>c
    <3>2. QED
      BY <1>1, <2>1, <2>2, <2>3, <2>4, <3>1, <1>b, ActorFacts DEF Chooses, ExactOf,
         ChannelOK, CreatedAt, PlaceType, OnType, LockType, OwnerInv, StartPlaces,
         ResetPlaces, CreatePlaces, Tids
  <2>5. QED
    BY <2>4 DEF ExactInv
<1>2. ASSUME NEW a \in Actors, Spawns(a) PROVE ExactInv'
  <2>1. cmx = a /\ cmx # Nobody /\ on[a] \in Tids /\ on[a] \in Actors
    BY <1>2, <1>b, OnMember, ActorFacts DEF Spawns, OwnerInv, StartPlaces, CreatePlaces
  <2>2. ChannelOK(on[a]) /\ StatusOf(on[a]) /\ TokensOf(on[a])
    BY <1>c, <2>1
  <2>3. pc[on[a]] = "absent" /\ on[a] # plock
    BY <1>2, <1>b, <2>1, <2>2 DEF Spawns, StatusOf, ChannelOK, CreatedAt, OwnerInv,
       CreatePlaces, WaitPlaces
  <2>4. ASSUME NEW s \in Tids PROVE Tokens(s)' = Tokens(s)
    BY <1>2, <2>1, <2>2, <2>3, <2>4, <1>b, ActorFacts DEF Spawns, Tokens, JoinShare,
       Share, PlaceType, OnType, LockType, ThreadType, OwnerInv, CreatePlaces, WaitPlaces
  <2>5. ASSUME NEW s \in Tids PROVE ExactOf(s)'
    <3>1. ExactOf(s) /\ ChannelOK(s) /\ Tokens(s) \in Nat
      BY <1>c
    <3>2. QED
      BY <1>2, <2>1, <2>2, <2>3, <2>4, <2>5, <3>1, <1>b, ActorFacts DEF Spawns, ExactOf,
         ChannelOK, CreatedAt, PlaceType, OnType, LockType, OwnerInv, StartPlaces,
         ResetPlaces, CreatePlaces
  <2>6. QED
    BY <2>5 DEF ExactInv
<1>3. ASSUME NEW a \in Actors, Restarts(a) PROVE ExactInv'
  <2>1. cmx = a /\ cmx # Nobody /\ on[a] \in Tids /\ on[a] \in Actors
    BY <1>3, <1>b, OnMember, ActorFacts DEF Restarts, OwnerInv, StartPlaces, CreatePlaces
  <2>2. ChannelOK(on[a]) /\ StatusOf(on[a]) /\ TokensOf(on[a])
    BY <1>c, <2>1
  <2>3. ASSUME NEW s \in Tids PROVE Tokens(s)' = Tokens(s)
    BY <1>3, <2>1, <2>2, <2>3, <1>b, ActorFacts DEF Restarts, Put, Tokens, JoinShare,
       Share, PlaceType, OnType, LockType, ThreadType, OwnerInv, CreatePlaces, WaitPlaces
  <2>4. ASSUME NEW s \in Tids PROVE ExactOf(s)'
    <3>1. ExactOf(s) /\ ChannelOK(s) /\ Tokens(s) \in Nat
      BY <1>c
    <3>2. QED
      BY <1>3, <2>1, <2>2, <2>3, <2>4, <3>1, <1>b, ActorFacts DEF Restarts, Put, ExactOf,
         ChannelOK, CreatedAt, PlaceType, OnType, LockType, OwnerInv, StartPlaces,
         ResetPlaces, CreatePlaces
  <2>5. QED
    BY <2>4 DEF ExactInv
<1>4. ASSUME NEW a \in Actors, TakesStarted(a) PROVE ExactInv'
  <2>1. cmx = a /\ cmx # Nobody /\ on[a] \in Tids /\ on[a] \in Actors
    BY <1>4, <1>b, OnMember, ActorFacts DEF TakesStarted, OwnerInv, StartPlaces,
       CreatePlaces
  <2>2. Share(Main, on[a]) = 0 /\ JoinShare(on[a]) = 0
    BY <1>4, <2>1, NoShareWhenStarted, ActorFacts DEF TakesStarted, CreatedAt, ResetPlaces
  <2>3. ChannelOK(on[a])
    BY <1>c, <2>1
  <2>4. ASSUME NEW s \in Tids PROVE Tokens(s)' = IF s = on[a] THEN 0 ELSE Tokens(s)
    BY <1>4, <2>1, <2>2, <2>3, <2>4, <1>b, ActorFacts DEF TakesStarted, Tokens, JoinShare,
       Share, PlaceType, OnType, LockType, ThreadType, OwnerInv, CreatePlaces, WaitPlaces
  <2>5. ASSUME NEW s \in Tids PROVE ExactOf(s)'
    <3>1. ExactOf(s) /\ ChannelOK(s) /\ Tokens(s) \in Nat
      BY <1>c
    <3>2. QED
      BY <1>4, <2>1, <2>2, <2>3, <2>4, <2>5, <3>1, <1>b, ActorFacts DEF TakesStarted,
         ExactOf, ChannelOK, CreatedAt, PlaceType, OnType, LockType, OwnerInv,
         StartPlaces, ResetPlaces, CreatePlaces
  <2>6. QED
    BY <2>5 DEF ExactInv
<1>5. ASSUME NEW a \in Actors, FirstSignal(a) PROVE ExactInv'
  <2>1. cmx = a /\ cmx # Nobody /\ on[a] \in Tids /\ on[a] \in Actors
    BY <1>5, <1>b, OnMember, ActorFacts DEF FirstSignal, OwnerInv, StartPlaces, CreatePlaces
  <2>2. sem[on[a]] \in Nat
    BY <2>1, <1>b, Typed
  <2>3. Tokens(on[a]) = 0
    BY <1>5, <1>c, <2>1, ActorFacts DEF FirstSignal, TokensOf, CreatedAt
  <2>4. ChannelOK(on[a])
    BY <1>c, <2>1
  <2>5. ASSUME NEW s \in Tids PROVE Tokens(s)' = IF s = on[a] THEN 1 ELSE Tokens(s)
    BY <1>5, <2>1, <2>2, <2>3, <2>4, <2>5, <1>b, ActorFacts DEF FirstSignal, Tokens,
       JoinShare, Share, PlaceType, OnType, LockType, ThreadType, OwnerInv, CreatePlaces,
       WaitPlaces
  <2>6. ASSUME NEW s \in Tids PROVE ExactOf(s)'
    <3>1. ExactOf(s) /\ ChannelOK(s) /\ Tokens(s) \in Nat
      BY <1>c
    <3>2. QED
      BY <1>5, <2>1, <2>2, <2>3, <2>4, <2>5, <2>6, <3>1, <1>b, ActorFacts DEF FirstSignal,
         ExactOf, ChannelOK, CreatedAt, PlaceType, OnType, LockType, OwnerInv,
         StartPlaces, ResetPlaces, CreatePlaces
  <2>7. QED
    BY <2>6 DEF ExactInv
<1>6. ASSUME NEW a \in Actors, SendsTransfer(a) PROVE ExactInv'
  <2>1. cmx = a /\ cmx # Nobody /\ on[a] \in Tids /\ on[a] \in Actors
    BY <1>6, <1>b, OnMember, ActorFacts DEF SendsTransfer, OwnerInv, StartPlaces,
       CreatePlaces
  <2>2. ChannelOK(on[a]) /\ StatusOf(on[a]) /\ TokensOf(on[a])
    BY <1>c, <2>1
  <2>3. ASSUME NEW s \in Tids PROVE Tokens(s)' = Tokens(s)
    BY <1>6, <2>1, <2>2, <2>3, <1>b, ActorFacts DEF SendsTransfer, Put, Tokens, JoinShare,
       Share, PlaceType, OnType, LockType, ThreadType, OwnerInv, CreatePlaces, WaitPlaces
  <2>4. ASSUME NEW s \in Tids PROVE ExactOf(s)'
    <3>1. ExactOf(s) /\ ChannelOK(s) /\ Tokens(s) \in Nat
      BY <1>c
    <3>2. QED
      BY <1>6, <2>1, <2>2, <2>3, <2>4, <3>1, <1>b, ActorFacts DEF SendsTransfer, Put,
         ExactOf, ChannelOK, CreatedAt, PlaceType, OnType, LockType, OwnerInv,
         StartPlaces, ResetPlaces, CreatePlaces
  <2>5. QED
    BY <2>4 DEF ExactInv
<1>7. ASSUME NEW a \in Actors, BeginsWait(a) PROVE ExactInv'
  <2>1. ASSUME NEW s \in Tids PROVE Tokens(s)' = Tokens(s)
    BY <1>7, <2>1, <1>b, ActorFacts DEF BeginsWait, Tokens, JoinShare, Share, PlaceType,
       OnType, LockType, ThreadType, OwnerInv, CreatePlaces, WaitPlaces
  <2>2. ASSUME NEW s \in Tids PROVE ExactOf(s)'
    <3>1. ExactOf(s) /\ ChannelOK(s) /\ Tokens(s) \in Nat
      BY <1>c
    <3>2. QED
      BY <1>7, <2>1, <2>2, <3>1, <1>b, ActorFacts DEF BeginsWait, ExactOf, ChannelOK,
         CreatedAt, PlaceType, OnType, LockType, OwnerInv, StartPlaces, ResetPlaces,
         CreatePlaces
  <2>3. QED
    BY <2>2 DEF ExactInv
<1>8. ASSUME NEW a \in Actors, TakeToken(a) PROVE ExactInv'
  <2>1. on[a] \in Tids /\ sem[on[a]] \in Nat
    BY <1>8, <1>b, OnMember, Typed, ActorFacts DEF TakeToken, WaitPlaces
  <2>2. ASSUME NEW s \in Tids PROVE Tokens(s)' = Tokens(s)
    BY <1>8, <2>1, <2>2, <1>b, ActorFacts DEF TakeToken, Tokens, JoinShare, Share,
       PlaceType, OnType, LockType, ThreadType, OwnerInv, CreatePlaces, WaitPlaces
  <2>3. ASSUME NEW s \in Tids PROVE ExactOf(s)'
    <3>1. ExactOf(s) /\ ChannelOK(s) /\ Tokens(s) \in Nat
      BY <1>c
    <3>2. QED
      BY <1>8, <2>1, <2>2, <2>3, <3>1, <1>b, ActorFacts DEF TakeToken, ExactOf, ChannelOK,
         CreatedAt, PlaceType, OnType, LockType, OwnerInv, StartPlaces, ResetPlaces,
         CreatePlaces
  <2>4. QED
    BY <2>3 DEF ExactInv
<1>9. ASSUME NEW a \in Actors, GiveBack(a) PROVE ExactInv'
  <2>1. on[a] \in Tids /\ sem[on[a]] \in Nat
    BY <1>9, <1>b, OnMember, Typed, ActorFacts DEF GiveBack, WaitPlaces
  <2>2. ASSUME NEW s \in Tids PROVE Tokens(s)' = Tokens(s)
    BY <1>9, <2>1, <2>2, <1>b, ActorFacts DEF GiveBack, Tokens, JoinShare, Share,
       PlaceType, OnType, LockType, ThreadType, OwnerInv, CreatePlaces, WaitPlaces
  <2>3. ASSUME NEW s \in Tids PROVE ExactOf(s)'
    <3>1. ExactOf(s) /\ ChannelOK(s) /\ Tokens(s) \in Nat
      BY <1>c
    <3>2. QED
      BY <1>9, <2>1, <2>2, <2>3, <3>1, <1>b, ActorFacts DEF GiveBack, ExactOf, ChannelOK,
         CreatedAt, PlaceType, OnType, LockType, OwnerInv, StartPlaces, ResetPlaces,
         CreatePlaces
  <2>4. QED
    BY <2>3 DEF ExactInv
<1>10. ASSUME NEW t \in Tids, JoinReturns(t) PROVE ExactInv'
  <2>1. ASSUME NEW s \in Tids PROVE Tokens(s)' = Tokens(s)
    BY <1>10, <2>1, <1>b, ActorFacts DEF JoinReturns, Tokens, JoinShare, Share, PlaceType,
       OnType, LockType, ThreadType, OwnerInv, CreatePlaces, WaitPlaces
  <2>2. ASSUME NEW s \in Tids PROVE ExactOf(s)'
    <3>1. ExactOf(s) /\ ChannelOK(s) /\ Tokens(s) \in Nat
      BY <1>c
    <3>2. QED
      BY <1>10, <2>1, <2>2, <3>1, <1>b, ActorFacts DEF JoinReturns, ExactOf, ChannelOK,
         CreatedAt, PlaceType, OnType, LockType, OwnerInv, StartPlaces, ResetPlaces,
         CreatePlaces
  <2>3. QED
    BY <2>2 DEF ExactInv
<1>11. ASSUME NEW t \in Tids, LockPthread(t, "callCreate", "create") PROVE ExactInv'
  <2>1. ASSUME NEW s \in Tids PROVE Tokens(s)' = Tokens(s)
    BY <1>11, <2>1, <1>b, ActorFacts DEF LockPthread, Tokens, JoinShare, Share, PlaceType,
       OnType, LockType, ThreadType, OwnerInv, CreatePlaces, WaitPlaces
  <2>2. ASSUME NEW s \in Tids PROVE ExactOf(s)'
    <3>1. ExactOf(s) /\ ChannelOK(s) /\ Tokens(s) \in Nat
      BY <1>c
    <3>2. QED
      BY <1>11, <2>1, <2>2, <3>1, <1>b, ActorFacts DEF LockPthread, ExactOf, ChannelOK,
         CreatedAt, PlaceType, OnType, LockType, OwnerInv, StartPlaces, ResetPlaces,
         CreatePlaces
  <2>3. QED
    BY <2>2 DEF ExactInv
<1>12. ASSUME NEW t \in Tids, LockPthread(t, "callJoin", "wait") PROVE ExactInv'
  <2>1. ASSUME NEW s \in Tids PROVE Tokens(s)' = Tokens(s)
    BY <1>12, <2>1, <1>b, ActorFacts DEF LockPthread, Tokens, JoinShare, Share, PlaceType,
       OnType, LockType, ThreadType, OwnerInv, CreatePlaces, WaitPlaces
  <2>2. ASSUME NEW s \in Tids PROVE ExactOf(s)'
    <3>1. ExactOf(s) /\ ChannelOK(s) /\ Tokens(s) \in Nat
      BY <1>c
    <3>2. QED
      BY <1>12, <2>1, <2>2, <3>1, <1>b, ActorFacts DEF LockPthread, ExactOf, ChannelOK,
         CreatedAt, PlaceType, OnType, LockType, OwnerInv, StartPlaces, ResetPlaces,
         CreatePlaces
  <2>3. QED
    BY <2>2 DEF ExactInv
<1>13. ASSUME NEW t \in Tids, SutMoves(t) PROVE ExactInv'
  <2>1. ASSUME NEW s \in Tids PROVE Tokens(s)' = Tokens(s)
    BY <1>13, <2>1, <1>b, ActorFacts DEF SutMoves, Tokens, JoinShare, Share, PlaceType,
       OnType, LockType, ThreadType, OwnerInv, CreatePlaces, WaitPlaces
  <2>2. ASSUME NEW s \in Tids PROVE ExactOf(s)'
    <3>1. ExactOf(s) /\ ChannelOK(s) /\ Tokens(s) \in Nat
      BY <1>c
    <3>2. QED
      BY <1>13, <2>1, <2>2, <3>1, <1>b, ActorFacts DEF SutMoves, ExactOf, ChannelOK,
         CreatedAt, PlaceType, OnType, LockType, OwnerInv, StartPlaces, ResetPlaces,
         CreatePlaces
  <2>3. QED
    BY <2>2 DEF ExactInv
<1>14. ASSUME NEW t \in Tids, CallCreate(t) PROVE ExactInv'
  <2>1. ASSUME NEW s \in Tids PROVE Tokens(s)' = Tokens(s)
    BY <1>14, <2>1, <1>b, ActorFacts DEF CallCreate, Tokens, JoinShare, Share, PlaceType,
       OnType, LockType, ThreadType, OwnerInv, CreatePlaces, WaitPlaces
  <2>2. ASSUME NEW s \in Tids PROVE ExactOf(s)'
    <3>1. ExactOf(s) /\ ChannelOK(s) /\ Tokens(s) \in Nat
      BY <1>c
    <3>2. QED
      BY <1>14, <2>1, <2>2, <3>1, <1>b, ActorFacts DEF CallCreate, ExactOf, ChannelOK,
         CreatedAt, PlaceType, OnType, LockType, OwnerInv, StartPlaces, ResetPlaces,
         CreatePlaces
  <2>3. QED
    BY <2>2 DEF ExactInv
<1>15. ASSUME NEW t \in Tids, SetsStarted(t) PROVE ExactInv'
  <2>1. ASSUME NEW s \in Tids PROVE Tokens(s)' = Tokens(s)
    BY <1>15, <2>1, <1>b, ActorFacts DEF SetsStarted, Tokens, JoinShare, Share, PlaceType,
       OnType, LockType, ThreadType, OwnerInv, CreatePlaces, WaitPlaces
  <2>2. ASSUME NEW s \in Tids PROVE ExactOf(s)'
    <3>1. ExactOf(s) /\ ChannelOK(s) /\ Tokens(s) \in Nat
      BY <1>c
    <3>2. QED
      BY <1>15, <2>1, <2>2, <3>1, <1>b, ActorFacts DEF SetsStarted, ExactOf, ChannelOK,
         CreatedAt, PlaceType, OnType, LockType, OwnerInv, StartPlaces, ResetPlaces,
         CreatePlaces
  <2>3. QED
    BY <2>2 DEF ExactInv
<1>16. ASSUME NEW t \in Tids, SendsStarted(t) PROVE ExactInv'
  <2>1. ASSUME NEW s \in Tids PROVE Tokens(s)' = Tokens(s)
    BY <1>16, <2>1, <1>b, ActorFacts DEF SendsStarted, Put, Tokens, JoinShare, Share,
       PlaceType, OnType, LockType, ThreadType, OwnerInv, CreatePlaces, WaitPlaces
  <2>2. ASSUME NEW s \in Tids PROVE ExactOf(s)'
    <3>1. ExactOf(s) /\ ChannelOK(s) /\ Tokens(s) \in Nat
      BY <1>c
    <3>2. QED
      BY <1>16, <2>1, <2>2, <3>1, <1>b, ActorFacts DEF SendsStarted, Put, ExactOf,
         ChannelOK, CreatedAt, PlaceType, OnType, LockType, OwnerInv, StartPlaces,
         ResetPlaces, CreatePlaces
  <2>3. QED
    BY <2>2 DEF ExactInv
<1>17. ASSUME NEW t \in Tids, Receives(t) PROVE ExactInv'
  <2>1. ASSUME NEW s \in Tids PROVE Tokens(s)' = Tokens(s)
    BY <1>17, <2>1, <1>b, ActorFacts DEF Receives, Tokens, JoinShare, Share, PlaceType,
       OnType, LockType, ThreadType, OwnerInv, CreatePlaces, WaitPlaces
  <2>2. ASSUME NEW s \in Tids PROVE ExactOf(s)'
    <3>1. ExactOf(s) /\ ChannelOK(s) /\ Tokens(s) \in Nat
      BY <1>c
    <3>2. QED
      BY <1>17, <2>1, <2>2, <3>1, <1>b, ActorFacts DEF Receives, ExactOf, ChannelOK,
         CreatedAt, PlaceType, OnType, LockType, OwnerInv, StartPlaces, ResetPlaces,
         CreatePlaces
  <2>3. QED
    BY <2>2 DEF ExactInv
<1>18. ASSUME NEW t \in Tids, Enable(t) PROVE ExactInv'
  <2>1. ASSUME NEW s \in Tids PROVE Tokens(s)' = Tokens(s)
    BY <1>18, <2>1, <1>b, ActorFacts DEF Enable, Tokens, JoinShare, Share, PlaceType,
       OnType, LockType, ThreadType, OwnerInv, CreatePlaces, WaitPlaces
  <2>2. ASSUME NEW s \in Tids PROVE ExactOf(s)'
    <3>1. ExactOf(s) /\ ChannelOK(s) /\ Tokens(s) \in Nat
      BY <1>c
    <3>2. QED
      BY <1>18, <2>1, <2>2, <3>1, <1>b, ActorFacts DEF Enable, ExactOf, ChannelOK,
         CreatedAt, PlaceType, OnType, LockType, OwnerInv, StartPlaces, ResetPlaces,
         CreatePlaces
  <2>3. QED
    BY <2>2 DEF ExactInv
<1>19. ASSUME NEW t \in Tids, SetEnded(t) PROVE ExactInv'
  <2>1. ASSUME NEW s \in Tids PROVE Tokens(s)' = Tokens(s)
    BY <1>19, <2>1, <1>b, ActorFacts DEF SetEnded, Tokens, JoinShare, Share, PlaceType,
       OnType, LockType, ThreadType, OwnerInv, CreatePlaces, WaitPlaces
  <2>2. ASSUME NEW s \in Tids PROVE ExactOf(s)'
    <3>1. ExactOf(s) /\ ChannelOK(s) /\ Tokens(s) \in Nat
      BY <1>c
    <3>2. QED
      BY <1>19, <2>1, <2>2, <3>1, <1>b, ActorFacts DEF SetEnded, ExactOf, ChannelOK,
         CreatedAt, PlaceType, OnType, LockType, OwnerInv, StartPlaces, ResetPlaces,
         CreatePlaces
  <2>3. QED
    BY <2>2 DEF ExactInv
<1>20. ASSUME NEW t \in Tids, SecondSignal(t) PROVE ExactInv'
  <2>1. sem[t] \in Nat
    BY <1>b, Typed
  <2>2. ASSUME NEW s \in Tids PROVE Tokens(s)' = IF s = t THEN Tokens(s) + 1 ELSE Tokens(s)
    BY <1>20, <2>1, <2>2, <1>b, ActorFacts DEF SecondSignal, Tokens, JoinShare, Share,
       PlaceType, OnType, LockType, ThreadType, OwnerInv, CreatePlaces, WaitPlaces
  <2>3. ASSUME NEW s \in Tids PROVE ExactOf(s)'
    <3>1. ExactOf(s) /\ ChannelOK(s) /\ Tokens(s) \in Nat
      BY <1>c
    <3>2. QED
      BY <1>20, <2>1, <2>2, <2>3, <3>1, <1>b, ActorFacts DEF SecondSignal, ExactOf,
         ChannelOK, CreatedAt, PlaceType, OnType, LockType, OwnerInv, StartPlaces,
         ResetPlaces, CreatePlaces
  <2>4. QED
    BY <2>3 DEF ExactInv
<1>21. ASSUME NEW t \in Tids, Terminate(t) PROVE ExactInv'
  <2>1. ASSUME NEW s \in Tids PROVE Tokens(s)' = Tokens(s)
    BY <1>21, <2>1, <1>b, ActorFacts DEF Terminate, Tokens, JoinShare, Share, PlaceType,
       OnType, LockType, ThreadType, OwnerInv, CreatePlaces, WaitPlaces
  <2>2. ASSUME NEW s \in Tids PROVE ExactOf(s)'
    <3>1. ExactOf(s) /\ ChannelOK(s) /\ Tokens(s) \in Nat
      BY <1>c
    <3>2. QED
      BY <1>21, <2>1, <2>2, <3>1, <1>b, ActorFacts DEF Terminate, ExactOf, ChannelOK,
         CreatedAt, PlaceType, OnType, LockType, OwnerInv, StartPlaces, ResetPlaces,
         CreatePlaces
  <2>3. QED
    BY <2>2 DEF ExactInv
<1>22. ASSUME NEW t \in Tids, NEW u \in Tids, Joins(t, u) PROVE ExactInv'
  <2>1. ASSUME NEW s \in Tids PROVE Tokens(s)' = Tokens(s)
    BY <1>22, <2>1, <1>b, ActorFacts DEF Joins, Tokens, JoinShare, Share, PlaceType,
       OnType, LockType, ThreadType, OwnerInv, CreatePlaces, WaitPlaces
  <2>2. ASSUME NEW s \in Tids PROVE ExactOf(s)'
    <3>1. ExactOf(s) /\ ChannelOK(s) /\ Tokens(s) \in Nat
      BY <1>c
    <3>2. QED
      BY <1>22, <2>1, <2>2, <3>1, <1>b, ActorFacts DEF Joins, ExactOf, ChannelOK,
         CreatedAt, PlaceType, OnType, LockType, OwnerInv, StartPlaces, ResetPlaces,
         CreatePlaces
  <2>3. QED
    BY <2>2 DEF ExactInv
<1>23. ASSUME MainPasses PROVE ExactInv'
  <2>1. ASSUME NEW s \in Tids PROVE Tokens(s)' = Tokens(s)
    BY <1>23, <2>1, <1>b, ActorFacts DEF MainPasses, Tokens, JoinShare, Share, PlaceType,
       OnType, LockType, ThreadType, OwnerInv, CreatePlaces, WaitPlaces
  <2>2. ASSUME NEW s \in Tids PROVE ExactOf(s)'
    <3>1. ExactOf(s) /\ ChannelOK(s) /\ Tokens(s) \in Nat
      BY <1>c
    <3>2. QED
      BY <1>23, <2>1, <2>2, <3>1, <1>b, ActorFacts DEF MainPasses, ExactOf, ChannelOK,
         CreatedAt, PlaceType, OnType, LockType, OwnerInv, StartPlaces, ResetPlaces,
         CreatePlaces
  <2>3. QED
    BY <2>2 DEF ExactInv
<1>24. ASSUME WaitTimeout PROVE ExactInv'
  <2>1. on[Main] \in Tids /\ sem[on[Main]] \in Nat
    BY <1>24, <1>b, OnMember, Typed, ActorFacts DEF WaitTimeout, WaitPlaces
  <2>2. ASSUME NEW s \in Tids PROVE Tokens(s)' = Tokens(s)
    BY <1>24, <2>1, <2>2, <1>b, ActorFacts DEF WaitTimeout, Tokens, JoinShare, Share,
       PlaceType, OnType, LockType, ThreadType, OwnerInv, CreatePlaces, WaitPlaces
  <2>3. ASSUME NEW s \in Tids PROVE ExactOf(s)'
    <3>1. ExactOf(s) /\ ChannelOK(s) /\ Tokens(s) \in Nat
      BY <1>c
    <3>2. QED
      BY <1>24, <2>1, <2>2, <2>3, <3>1, <1>b, ActorFacts DEF WaitTimeout, ExactOf,
         ChannelOK, CreatedAt, PlaceType, OnType, LockType, OwnerInv, StartPlaces,
         ResetPlaces, CreatePlaces
  <2>4. QED
    BY <2>3 DEF ExactInv
<1>25. ASSUME Begin PROVE ExactInv'
  <2>1. ASSUME NEW s \in Tids PROVE Tokens(s)' = Tokens(s)
    BY <1>25, <2>1, <1>b, ActorFacts DEF Begin, RestartGroup, Tokens, JoinShare, Share,
       PlaceType, OnType, LockType, ThreadType, OwnerInv, CreatePlaces, WaitPlaces
  <2>2. ASSUME NEW s \in Tids PROVE ExactOf(s)'
    <3>1. ExactOf(s) /\ ChannelOK(s) /\ Tokens(s) \in Nat
      BY <1>c
    <3>2. QED
      BY <1>25, <2>1, <2>2, <3>1, <1>b, ActorFacts DEF Begin, RestartGroup, ExactOf,
         ChannelOK, CreatedAt, PlaceType, OnType, LockType, OwnerInv, StartPlaces,
         ResetPlaces, CreatePlaces
  <2>3. QED
    BY <2>2 DEF ExactInv
<1>26. ASSUME DriverLoaded PROVE ExactInv'
  <2>1. ASSUME NEW s \in Tids PROVE Tokens(s)' = Tokens(s)
    BY <1>26, <2>1, <1>b, ActorFacts DEF DriverLoaded, Tokens, JoinShare, Share,
       PlaceType, OnType, LockType, ThreadType, OwnerInv, CreatePlaces, WaitPlaces
  <2>2. ASSUME NEW s \in Tids PROVE ExactOf(s)'
    <3>1. ExactOf(s) /\ ChannelOK(s) /\ Tokens(s) \in Nat
      BY <1>c
    <3>2. QED
      BY <1>26, <2>1, <2>2, <3>1, <1>b, ActorFacts DEF DriverLoaded, ExactOf, ChannelOK,
         CreatedAt, PlaceType, OnType, LockType, OwnerInv, StartPlaces, ResetPlaces,
         CreatePlaces
  <2>3. QED
    BY <2>2 DEF ExactInv
<1>27. ASSUME NEW b \in BOOLEAN, ScriptEnds(b) PROVE ExactInv'
  <2>1. ASSUME NEW s \in Tids PROVE Tokens(s)' = Tokens(s)
    BY <1>27, <2>1, <1>b, ActorFacts DEF ScriptEnds, Tokens, JoinShare, Share, PlaceType,
       OnType, LockType, ThreadType, OwnerInv, CreatePlaces, WaitPlaces
  <2>2. ASSUME NEW s \in Tids PROVE ExactOf(s)'
    <3>1. ExactOf(s) /\ ChannelOK(s) /\ Tokens(s) \in Nat
      BY <1>c
    <3>2. QED
      BY <1>27, <2>1, <2>2, <3>1, <1>b, ActorFacts DEF ScriptEnds, ExactOf, ChannelOK,
         CreatedAt, PlaceType, OnType, LockType, OwnerInv, StartPlaces, ResetPlaces,
         CreatePlaces
  <2>3. QED
    BY <2>2 DEF ExactInv
<1>28. ASSUME JoinAllThreads PROVE ExactInv'
  <2>1. ASSUME NEW s \in Tids PROVE Tokens(s)' = Tokens(s)
    BY <1>28, <2>1, <1>b, ActorFacts DEF JoinAllThreads, Tokens, JoinShare, Share,
       PlaceType, OnType, LockType, ThreadType, OwnerInv, CreatePlaces, WaitPlaces
  <2>2. ASSUME NEW s \in Tids PROVE ExactOf(s)'
    <3>1. ExactOf(s) /\ ChannelOK(s) /\ Tokens(s) \in Nat
      BY <1>c
    <3>2. QED
      BY <1>28, <2>1, <2>2, <3>1, <1>b, ActorFacts DEF JoinAllThreads, ExactOf, ChannelOK,
         CreatedAt, PlaceType, OnType, LockType, OwnerInv, StartPlaces, ResetPlaces,
         CreatePlaces
  <2>3. QED
    BY <2>2 DEF ExactInv
<1>29. ASSUME LooksAtMember PROVE ExactInv'
  <2>1. ASSUME NEW s \in Tids PROVE Tokens(s)' = Tokens(s)
    BY <1>29, <2>1, <1>b, ActorFacts DEF LooksAtMember, Tokens, JoinShare, Share,
       PlaceType, OnType, LockType, ThreadType, OwnerInv, CreatePlaces, WaitPlaces
  <2>2. ASSUME NEW s \in Tids PROVE ExactOf(s)'
    <3>1. ExactOf(s) /\ ChannelOK(s) /\ Tokens(s) \in Nat
      BY <1>c
    <3>2. QED
      BY <1>29, <2>1, <2>2, <3>1, <1>b, ActorFacts DEF LooksAtMember, ExactOf, ChannelOK,
         CreatedAt, PlaceType, OnType, LockType, OwnerInv, StartPlaces, ResetPlaces,
         CreatePlaces
  <2>3. QED
    BY <2>2 DEF ExactInv
<1>30. ASSUME Backtrack PROVE ExactInv'
  <2>1. ASSUME NEW s \in Tids PROVE Tokens(s)' = Tokens(s)
    BY <1>30, <2>1, <1>b, ActorFacts DEF Backtrack, Tokens, JoinShare, Share, PlaceType,
       OnType, LockType, ThreadType, OwnerInv, CreatePlaces, WaitPlaces
  <2>2. ASSUME NEW s \in Tids PROVE ExactOf(s)'
    <3>1. ExactOf(s) /\ ChannelOK(s) /\ Tokens(s) \in Nat
      BY <1>c
    <3>2. QED
      BY <1>30, <2>1, <2>2, <3>1, <1>b, ActorFacts DEF Backtrack, ExactOf, ChannelOK,
         CreatedAt, PlaceType, OnType, LockType, OwnerInv, StartPlaces, ResetPlaces,
         CreatePlaces
  <2>3. QED
    BY <2>2 DEF ExactInv
<1>31. ASSUME FinishesMember PROVE ExactInv'
  BY <1>31, <1>b DEF FinishesMember, Finishing
<1>32. ASSUME SendsTerminate PROVE ExactInv'
  BY <1>32, <1>b DEF SendsTerminate, Finishing
<1>33. ASSUME Cancels PROVE ExactInv'
  BY <1>33, <1>b DEF Cancels, Finishing
<1>34. ASSUME JoinPthread PROVE ExactInv'
  BY <1>34, <1>b DEF JoinPthread, Finishing
<1>35. ASSUME Kept PROVE ExactInv'
  <2>1. ASSUME NEW s \in Tids PROVE ExactOf(s)'
    BY <1>35, <1>c DEF Kept, ExactOf, CreatedAt, Tokens, JoinShare, Share
  <2>2. QED
    BY <2>1 DEF ExactInv
<1>36. QED
  BY <1>1, <1>2, <1>3, <1>4, <1>5, <1>6, <1>7, <1>8, <1>9, <1>10, <1>11, <1>12, <1>13,
     <1>14, <1>15, <1>16, <1>17, <1>18, <1>19, <1>20, <1>21, <1>22, <1>23, <1>24, <1>25,
     <1>26, <1>27, <1>28, <1>29, <1>30, <1>31, <1>32, <1>33, <1>34, <1>35 DEF Effect

-----------------------------------------------------------------------------
\* What a step may do to main: nothing, or a step within a creation or within a
\* wait, or one of the steps that are main's own.
MainFrame ==
  /\ UNCHANGED <<size, next, round, timedOut>> /\ on'[Main] = on[Main]
  /\ exc' = exc \/ exc' = "assertion"
  /\ \/ pc'[Main] = pc[Main]
     \/ pc[Main] \in StartPlaces /\ pc'[Main] \in StartPlaces \cup {"loading"}
     \/ pc[Main] \in WaitPlaces /\ pc'[Main] \in WaitPlaces

MainMoves ==
  \/ \E a \in Actors : Chooses(a)
  \/ MainPasses \/ WaitTimeout \/ Begin \/ DriverLoaded
  \/ \E b \in BOOLEAN : ScriptEnds(b)
  \/ JoinAllThreads \/ LooksAtMember \/ Backtrack

\* A step before Finish is a step of main's own, or leaves main in its loop.
LEMMA MainSteps ==
  ASSUME BaseInv, ~Finishing, Effect \/ Kept
  PROVE  MainFrame \/ MainMoves
<1>b. TypeInv /\ LoopInv /\ OwnerInv /\ StatusInv /\ PlaceType /\ OnType /\ LockType
        /\ ~Finishing
  BY DEF BaseInv, TypeInv
<1>1. ASSUME NEW a \in Actors, Chooses(a) PROVE MainFrame \/ MainMoves
  BY <1>1 DEF MainMoves
<1>2. ASSUME NEW a \in Actors, Spawns(a) PROVE MainFrame \/ MainMoves
  <2>1. on[a] \in Tids /\ on[a] \in Actors /\ on[a] # Main
    BY <1>2, <1>b, OnMember, ActorFacts DEF Spawns, StartPlaces, CreatePlaces
  <2>2. pc[on[a]] \in {"absent", "entry", "dead"}
    BY <1>2, <2>1, <1>b DEF Spawns, StatusInv, StatusOf
  <2>3. QED
    BY <1>2, <2>1, <2>2, <1>b, ActorFacts DEF Spawns, MainFrame, PlaceType, OnType,
       StartPlaces, CreatePlaces, WaitPlaces
<1>3. ASSUME NEW a \in Actors, Restarts(a) PROVE MainFrame \/ MainMoves
  BY <1>3, <1>b, ActorFacts DEF Restarts, Put, MainFrame, PlaceType, OnType, StartPlaces,
     CreatePlaces, WaitPlaces
<1>4. ASSUME NEW a \in Actors, TakesStarted(a) PROVE MainFrame \/ MainMoves
  BY <1>4, <1>b, ActorFacts DEF TakesStarted, MainFrame, PlaceType, OnType, StartPlaces,
     CreatePlaces, WaitPlaces
<1>5. ASSUME NEW a \in Actors, FirstSignal(a) PROVE MainFrame \/ MainMoves
  BY <1>5, <1>b, ActorFacts DEF FirstSignal, MainFrame, PlaceType, OnType, StartPlaces,
     CreatePlaces, WaitPlaces
<1>6. ASSUME NEW a \in Actors, SendsTransfer(a) PROVE MainFrame \/ MainMoves
  BY <1>6, <1>b, ActorFacts DEF SendsTransfer, Put, MainFrame, PlaceType, OnType,
     StartPlaces, CreatePlaces, WaitPlaces
<1>7. ASSUME NEW a \in Actors, BeginsWait(a) PROVE MainFrame \/ MainMoves
  BY <1>7, <1>b, ActorFacts DEF BeginsWait, MainFrame, PlaceType, OnType, StartPlaces,
     CreatePlaces, WaitPlaces
<1>8. ASSUME NEW a \in Actors, TakeToken(a) PROVE MainFrame \/ MainMoves
  BY <1>8, <1>b, ActorFacts DEF TakeToken, MainFrame, PlaceType, OnType, StartPlaces,
     CreatePlaces, WaitPlaces
<1>9. ASSUME NEW a \in Actors, GiveBack(a) PROVE MainFrame \/ MainMoves
  BY <1>9, <1>b, ActorFacts DEF GiveBack, MainFrame, PlaceType, OnType, StartPlaces,
     CreatePlaces, WaitPlaces
<1>10. ASSUME NEW t \in Tids, JoinReturns(t) PROVE MainFrame \/ MainMoves
  BY <1>10, <1>b, ActorFacts DEF JoinReturns, MainFrame, PlaceType, OnType, StartPlaces,
     CreatePlaces, WaitPlaces
<1>11. ASSUME NEW t \in Tids, LockPthread(t, "callCreate", "create")
       PROVE  MainFrame \/ MainMoves
  BY <1>11, <1>b, ActorFacts DEF LockPthread, MainFrame, PlaceType, OnType, StartPlaces,
     CreatePlaces, WaitPlaces
<1>12. ASSUME NEW t \in Tids, LockPthread(t, "callJoin", "wait")
       PROVE  MainFrame \/ MainMoves
  BY <1>12, <1>b, ActorFacts DEF LockPthread, MainFrame, PlaceType, OnType, StartPlaces,
     CreatePlaces, WaitPlaces
<1>13. ASSUME NEW t \in Tids, SutMoves(t) PROVE MainFrame \/ MainMoves
  BY <1>13, <1>b, ActorFacts DEF SutMoves, MainFrame, PlaceType, OnType, StartPlaces,
     CreatePlaces, WaitPlaces
<1>14. ASSUME NEW t \in Tids, CallCreate(t) PROVE MainFrame \/ MainMoves
  BY <1>14, <1>b, ActorFacts DEF CallCreate, MainFrame, PlaceType, OnType, StartPlaces,
     CreatePlaces, WaitPlaces
<1>15. ASSUME NEW t \in Tids, SetsStarted(t) PROVE MainFrame \/ MainMoves
  BY <1>15, <1>b, ActorFacts DEF SetsStarted, MainFrame, PlaceType, OnType, StartPlaces,
     CreatePlaces, WaitPlaces
<1>16. ASSUME NEW t \in Tids, SendsStarted(t) PROVE MainFrame \/ MainMoves
  BY <1>16, <1>b, ActorFacts DEF SendsStarted, Put, MainFrame, PlaceType, OnType,
     StartPlaces, CreatePlaces, WaitPlaces
<1>17. ASSUME NEW t \in Tids, Receives(t) PROVE MainFrame \/ MainMoves
  BY <1>17, <1>b, ActorFacts DEF Receives, MainFrame, PlaceType, OnType, StartPlaces,
     CreatePlaces, WaitPlaces
<1>18. ASSUME NEW t \in Tids, Enable(t) PROVE MainFrame \/ MainMoves
  BY <1>18, <1>b, ActorFacts DEF Enable, MainFrame, PlaceType, OnType, StartPlaces,
     CreatePlaces, WaitPlaces
<1>19. ASSUME NEW t \in Tids, SetEnded(t) PROVE MainFrame \/ MainMoves
  BY <1>19, <1>b, ActorFacts DEF SetEnded, MainFrame, PlaceType, OnType, StartPlaces,
     CreatePlaces, WaitPlaces
<1>20. ASSUME NEW t \in Tids, SecondSignal(t) PROVE MainFrame \/ MainMoves
  BY <1>20, <1>b, ActorFacts DEF SecondSignal, MainFrame, PlaceType, OnType, StartPlaces,
     CreatePlaces, WaitPlaces
<1>21. ASSUME NEW t \in Tids, Terminate(t) PROVE MainFrame \/ MainMoves
  BY <1>21, <1>b, ActorFacts DEF Terminate, MainFrame, PlaceType, OnType, StartPlaces,
     CreatePlaces, WaitPlaces
<1>22. ASSUME NEW t \in Tids, NEW u \in Tids, Joins(t, u) PROVE MainFrame \/ MainMoves
  BY <1>22, <1>b, ActorFacts DEF Joins, MainFrame, PlaceType, OnType, StartPlaces,
     CreatePlaces, WaitPlaces
<1>23. ASSUME MainPasses PROVE MainFrame \/ MainMoves
  BY <1>23 DEF MainMoves
<1>24. ASSUME WaitTimeout PROVE MainFrame \/ MainMoves
  BY <1>24 DEF MainMoves
<1>25. ASSUME Begin PROVE MainFrame \/ MainMoves
  BY <1>25 DEF MainMoves
<1>26. ASSUME DriverLoaded PROVE MainFrame \/ MainMoves
  BY <1>26 DEF MainMoves
<1>27. ASSUME NEW b \in BOOLEAN, ScriptEnds(b) PROVE MainFrame \/ MainMoves
  BY <1>27 DEF MainMoves
<1>28. ASSUME JoinAllThreads PROVE MainFrame \/ MainMoves
  BY <1>28 DEF MainMoves
<1>29. ASSUME LooksAtMember PROVE MainFrame \/ MainMoves
  BY <1>29 DEF MainMoves
<1>30. ASSUME Backtrack PROVE MainFrame \/ MainMoves
  BY <1>30 DEF MainMoves
<1>31. ASSUME FinishesMember PROVE MainFrame \/ MainMoves
  BY <1>31, <1>b DEF FinishesMember, Finishing
<1>32. ASSUME SendsTerminate PROVE MainFrame \/ MainMoves
  BY <1>32, <1>b DEF SendsTerminate, Finishing
<1>33. ASSUME Cancels PROVE MainFrame \/ MainMoves
  BY <1>33, <1>b DEF Cancels, Finishing
<1>34. ASSUME JoinPthread PROVE MainFrame \/ MainMoves
  BY <1>34, <1>b DEF JoinPthread, Finishing
<1>35. ASSUME Kept PROVE MainFrame \/ MainMoves
  BY <1>35 DEF Kept, MainFrame
<1>36. QED
  BY <1>1, <1>2, <1>3, <1>4, <1>5, <1>6, <1>7, <1>8, <1>9, <1>10, <1>11, <1>12, <1>13,
     <1>14, <1>15, <1>16, <1>17, <1>18, <1>19, <1>20, <1>21, <1>22, <1>23, <1>24, <1>25,
     <1>26, <1>27, <1>28, <1>29, <1>30, <1>31, <1>32, <1>33, <1>34, <1>35 DEF Effect

\* A member is at the start of its creation since it has been chosen.
LEMMA CreatedFrom ==
  ASSUME BaseInv, ~Finishing, NEW s \in Tids, CreatedAt(s, {"start"})', Effect \/ Kept
  PROVE  CreatedAt(s, {"start"}) \/ \E w \in Actors : Chooses(w) /\ s = next + 1
<1>b. TypeInv /\ LoopInv /\ OwnerInv /\ StatusInv /\ PlaceType /\ OnType /\ LockType
        /\ ~Finishing
  BY DEF BaseInv, TypeInv
<1>1. ASSUME NEW a \in Actors, Chooses(a)
      PROVE  CreatedAt(s, {"start"}) \/ \E w \in Actors : Chooses(w) /\ s = next + 1
  BY <1>1, <1>b, ActorFacts DEF Chooses, CreatedAt, PlaceType, OnType, LockType, OwnerInv,
     StartPlaces, CreatePlaces
<1>2. ASSUME NEW a \in Actors, Spawns(a)
      PROVE  CreatedAt(s, {"start"}) \/ \E w \in Actors : Chooses(w) /\ s = next + 1
  <2>1. on[a] \in Tids /\ on[a] \in Actors /\ on[a] # Main
    BY <1>2, <1>b, OnMember, ActorFacts DEF Spawns, StartPlaces, CreatePlaces
  <2>2. pc[on[a]] \in {"absent", "entry", "dead"}
    BY <1>2, <2>1, <1>b DEF Spawns, StatusInv, StatusOf
  <2>3. QED
    BY <1>2, <2>1, <2>2, <1>b, ActorFacts DEF Spawns, CreatedAt, PlaceType, OnType,
       LockType, OwnerInv, StartPlaces, CreatePlaces
<1>3. ASSUME NEW a \in Actors, Restarts(a)
      PROVE  CreatedAt(s, {"start"}) \/ \E w \in Actors : Chooses(w) /\ s = next + 1
  BY <1>3, <1>b, ActorFacts DEF Restarts, Put, CreatedAt, PlaceType, OnType, LockType,
     OwnerInv, StartPlaces, CreatePlaces
<1>4. ASSUME NEW a \in Actors, TakesStarted(a)
      PROVE  CreatedAt(s, {"start"}) \/ \E w \in Actors : Chooses(w) /\ s = next + 1
  BY <1>4, <1>b, ActorFacts DEF TakesStarted, CreatedAt, PlaceType, OnType, LockType,
     OwnerInv, StartPlaces, CreatePlaces
<1>5. ASSUME NEW a \in Actors, FirstSignal(a)
      PROVE  CreatedAt(s, {"start"}) \/ \E w \in Actors : Chooses(w) /\ s = next + 1
  BY <1>5, <1>b, ActorFacts DEF FirstSignal, CreatedAt, PlaceType, OnType, LockType,
     OwnerInv, StartPlaces, CreatePlaces
<1>6. ASSUME NEW a \in Actors, SendsTransfer(a)
      PROVE  CreatedAt(s, {"start"}) \/ \E w \in Actors : Chooses(w) /\ s = next + 1
  BY <1>6, <1>b, ActorFacts DEF SendsTransfer, Put, CreatedAt, PlaceType, OnType,
     LockType, OwnerInv, StartPlaces, CreatePlaces
<1>7. ASSUME NEW a \in Actors, BeginsWait(a)
      PROVE  CreatedAt(s, {"start"}) \/ \E w \in Actors : Chooses(w) /\ s = next + 1
  BY <1>7, <1>b, ActorFacts DEF BeginsWait, CreatedAt, PlaceType, OnType, LockType,
     OwnerInv, StartPlaces, CreatePlaces
<1>8. ASSUME NEW a \in Actors, TakeToken(a)
      PROVE  CreatedAt(s, {"start"}) \/ \E w \in Actors : Chooses(w) /\ s = next + 1
  BY <1>8, <1>b, ActorFacts DEF TakeToken, CreatedAt, PlaceType, OnType, LockType,
     OwnerInv, StartPlaces, CreatePlaces
<1>9. ASSUME NEW a \in Actors, GiveBack(a)
      PROVE  CreatedAt(s, {"start"}) \/ \E w \in Actors : Chooses(w) /\ s = next + 1
  BY <1>9, <1>b, ActorFacts DEF GiveBack, CreatedAt, PlaceType, OnType, LockType,
     OwnerInv, StartPlaces, CreatePlaces
<1>10. ASSUME NEW t \in Tids, JoinReturns(t)
       PROVE  CreatedAt(s, {"start"}) \/ \E w \in Actors : Chooses(w) /\ s = next + 1
  BY <1>10, <1>b, ActorFacts DEF JoinReturns, CreatedAt, PlaceType, OnType, LockType,
     OwnerInv, StartPlaces, CreatePlaces
<1>11. ASSUME NEW t \in Tids, LockPthread(t, "callCreate", "create")
       PROVE  CreatedAt(s, {"start"}) \/ \E w \in Actors : Chooses(w) /\ s = next + 1
  BY <1>11, <1>b, ActorFacts DEF LockPthread, CreatedAt, PlaceType, OnType, LockType,
     OwnerInv, StartPlaces, CreatePlaces
<1>12. ASSUME NEW t \in Tids, LockPthread(t, "callJoin", "wait")
       PROVE  CreatedAt(s, {"start"}) \/ \E w \in Actors : Chooses(w) /\ s = next + 1
  BY <1>12, <1>b, ActorFacts DEF LockPthread, CreatedAt, PlaceType, OnType, LockType,
     OwnerInv, StartPlaces, CreatePlaces
<1>13. ASSUME NEW t \in Tids, SutMoves(t)
       PROVE  CreatedAt(s, {"start"}) \/ \E w \in Actors : Chooses(w) /\ s = next + 1
  BY <1>13, <1>b, ActorFacts DEF SutMoves, CreatedAt, PlaceType, OnType, LockType,
     OwnerInv, StartPlaces, CreatePlaces
<1>14. ASSUME NEW t \in Tids, CallCreate(t)
       PROVE  CreatedAt(s, {"start"}) \/ \E w \in Actors : Chooses(w) /\ s = next + 1
  BY <1>14, <1>b, ActorFacts DEF CallCreate, CreatedAt, PlaceType, OnType, LockType,
     OwnerInv, StartPlaces, CreatePlaces
<1>15. ASSUME NEW t \in Tids, SetsStarted(t)
       PROVE  CreatedAt(s, {"start"}) \/ \E w \in Actors : Chooses(w) /\ s = next + 1
  BY <1>15, <1>b, ActorFacts DEF SetsStarted, CreatedAt, PlaceType, OnType, LockType,
     OwnerInv, StartPlaces, CreatePlaces
<1>16. ASSUME NEW t \in Tids, SendsStarted(t)
       PROVE  CreatedAt(s, {"start"}) \/ \E w \in Actors : Chooses(w) /\ s = next + 1
  BY <1>16, <1>b, ActorFacts DEF SendsStarted, Put, CreatedAt, PlaceType, OnType,
     LockType, OwnerInv, StartPlaces, CreatePlaces
<1>17. ASSUME NEW t \in Tids, Receives(t)
       PROVE  CreatedAt(s, {"start"}) \/ \E w \in Actors : Chooses(w) /\ s = next + 1
  BY <1>17, <1>b, ActorFacts DEF Receives, CreatedAt, PlaceType, OnType, LockType,
     OwnerInv, StartPlaces, CreatePlaces
<1>18. ASSUME NEW t \in Tids, Enable(t)
       PROVE  CreatedAt(s, {"start"}) \/ \E w \in Actors : Chooses(w) /\ s = next + 1
  BY <1>18, <1>b, ActorFacts DEF Enable, CreatedAt, PlaceType, OnType, LockType, OwnerInv,
     StartPlaces, CreatePlaces
<1>19. ASSUME NEW t \in Tids, SetEnded(t)
       PROVE  CreatedAt(s, {"start"}) \/ \E w \in Actors : Chooses(w) /\ s = next + 1
  BY <1>19, <1>b, ActorFacts DEF SetEnded, CreatedAt, PlaceType, OnType, LockType,
     OwnerInv, StartPlaces, CreatePlaces
<1>20. ASSUME NEW t \in Tids, SecondSignal(t)
       PROVE  CreatedAt(s, {"start"}) \/ \E w \in Actors : Chooses(w) /\ s = next + 1
  BY <1>20, <1>b, ActorFacts DEF SecondSignal, CreatedAt, PlaceType, OnType, LockType,
     OwnerInv, StartPlaces, CreatePlaces
<1>21. ASSUME NEW t \in Tids, Terminate(t)
       PROVE  CreatedAt(s, {"start"}) \/ \E w \in Actors : Chooses(w) /\ s = next + 1
  BY <1>21, <1>b, ActorFacts DEF Terminate, CreatedAt, PlaceType, OnType, LockType,
     OwnerInv, StartPlaces, CreatePlaces
<1>22. ASSUME NEW t \in Tids, NEW u \in Tids, Joins(t, u)
       PROVE  CreatedAt(s, {"start"}) \/ \E w \in Actors : Chooses(w) /\ s = next + 1
  BY <1>22, <1>b, ActorFacts DEF Joins, CreatedAt, PlaceType, OnType, LockType, OwnerInv,
     StartPlaces, CreatePlaces
<1>23. ASSUME MainPasses
       PROVE  CreatedAt(s, {"start"}) \/ \E w \in Actors : Chooses(w) /\ s = next + 1
  BY <1>23, <1>b, ActorFacts DEF MainPasses, CreatedAt, PlaceType, OnType, LockType,
     OwnerInv, StartPlaces, CreatePlaces
<1>24. ASSUME WaitTimeout
       PROVE  CreatedAt(s, {"start"}) \/ \E w \in Actors : Chooses(w) /\ s = next + 1
  BY <1>24, <1>b, ActorFacts DEF WaitTimeout, CreatedAt, PlaceType, OnType, LockType,
     OwnerInv, StartPlaces, CreatePlaces
<1>25. ASSUME Begin
       PROVE  CreatedAt(s, {"start"}) \/ \E w \in Actors : Chooses(w) /\ s = next + 1
  BY <1>25, <1>b, ActorFacts DEF Begin, RestartGroup, CreatedAt, PlaceType, OnType,
     LockType, OwnerInv, StartPlaces, CreatePlaces
<1>26. ASSUME DriverLoaded
       PROVE  CreatedAt(s, {"start"}) \/ \E w \in Actors : Chooses(w) /\ s = next + 1
  BY <1>26, <1>b, ActorFacts DEF DriverLoaded, CreatedAt, PlaceType, OnType, LockType,
     OwnerInv, StartPlaces, CreatePlaces
<1>27. ASSUME NEW b \in BOOLEAN, ScriptEnds(b)
       PROVE  CreatedAt(s, {"start"}) \/ \E w \in Actors : Chooses(w) /\ s = next + 1
  BY <1>27, <1>b, ActorFacts DEF ScriptEnds, CreatedAt, PlaceType, OnType, LockType,
     OwnerInv, StartPlaces, CreatePlaces
<1>28. ASSUME JoinAllThreads
       PROVE  CreatedAt(s, {"start"}) \/ \E w \in Actors : Chooses(w) /\ s = next + 1
  BY <1>28, <1>b, ActorFacts DEF JoinAllThreads, CreatedAt, PlaceType, OnType, LockType,
     OwnerInv, StartPlaces, CreatePlaces
<1>29. ASSUME LooksAtMember
       PROVE  CreatedAt(s, {"start"}) \/ \E w \in Actors : Chooses(w) /\ s = next + 1
  BY <1>29, <1>b, ActorFacts DEF LooksAtMember, CreatedAt, PlaceType, OnType, LockType,
     OwnerInv, StartPlaces, CreatePlaces
<1>30. ASSUME Backtrack
       PROVE  CreatedAt(s, {"start"}) \/ \E w \in Actors : Chooses(w) /\ s = next + 1
  BY <1>30, <1>b, ActorFacts DEF Backtrack, CreatedAt, PlaceType, OnType, LockType,
     OwnerInv, StartPlaces, CreatePlaces
<1>31. ASSUME FinishesMember
       PROVE  CreatedAt(s, {"start"}) \/ \E w \in Actors : Chooses(w) /\ s = next + 1
  BY <1>31, <1>b DEF FinishesMember, Finishing
<1>32. ASSUME SendsTerminate
       PROVE  CreatedAt(s, {"start"}) \/ \E w \in Actors : Chooses(w) /\ s = next + 1
  BY <1>32, <1>b DEF SendsTerminate, Finishing
<1>33. ASSUME Cancels
       PROVE  CreatedAt(s, {"start"}) \/ \E w \in Actors : Chooses(w) /\ s = next + 1
  BY <1>33, <1>b DEF Cancels, Finishing
<1>34. ASSUME JoinPthread
       PROVE  CreatedAt(s, {"start"}) \/ \E w \in Actors : Chooses(w) /\ s = next + 1
  BY <1>34, <1>b DEF JoinPthread, Finishing
<1>35. ASSUME Kept
       PROVE  CreatedAt(s, {"start"}) \/ \E w \in Actors : Chooses(w) /\ s = next + 1
  BY <1>35 DEF Kept, CreatedAt
<1>36. QED
  BY <1>1, <1>2, <1>3, <1>4, <1>5, <1>6, <1>7, <1>8, <1>9, <1>10, <1>11, <1>12, <1>13,
     <1>14, <1>15, <1>16, <1>17, <1>18, <1>19, <1>20, <1>21, <1>22, <1>23, <1>24, <1>25,
     <1>26, <1>27, <1>28, <1>29, <1>30, <1>31, <1>32, <1>33, <1>34, <1>35 DEF Effect

\* Whoever has both tokens had them, or takes the second one.
LEMMA JoinedFrom ==
  ASSUME BaseInv, ~Finishing, NEW w \in Actors, pc'[w] \in {"giveBack", "waited"}, Effect \/ Kept
  PROVE  on'[w] = on[w] /\ (pc[w] \in {"giveBack", "waited"} \/ (pc[w] = "token2"
           /\ sem[on[w]] > 0))
<1>b. TypeInv /\ LoopInv /\ OwnerInv /\ StatusInv /\ PlaceType /\ OnType /\ LockType
        /\ ~Finishing
  BY DEF BaseInv, TypeInv
<1>1. ASSUME NEW a \in Actors, Chooses(a)
      PROVE  on'[w] = on[w] /\ (pc[w] \in {"giveBack", "waited"} \/ (pc[w] = "token2"
               /\ sem[on[w]] > 0))
  BY <1>1, <1>b, ActorFacts DEF Chooses, PlaceType, OnType
<1>2. ASSUME NEW a \in Actors, Spawns(a)
      PROVE  on'[w] = on[w] /\ (pc[w] \in {"giveBack", "waited"} \/ (pc[w] = "token2"
               /\ sem[on[w]] > 0))
  <2>1. on[a] \in Tids /\ on[a] \in Actors /\ on[a] # Main
    BY <1>2, <1>b, OnMember, ActorFacts DEF Spawns, StartPlaces, CreatePlaces
  <2>2. pc[on[a]] \in {"absent", "entry", "dead"}
    BY <1>2, <2>1, <1>b DEF Spawns, StatusInv, StatusOf
  <2>3. QED
    BY <1>2, <2>1, <2>2, <1>b, ActorFacts DEF Spawns, PlaceType, OnType
<1>3. ASSUME NEW a \in Actors, Restarts(a)
      PROVE  on'[w] = on[w] /\ (pc[w] \in {"giveBack", "waited"} \/ (pc[w] = "token2"
               /\ sem[on[w]] > 0))
  BY <1>3, <1>b, ActorFacts DEF Restarts, Put, PlaceType, OnType
<1>4. ASSUME NEW a \in Actors, TakesStarted(a)
      PROVE  on'[w] = on[w] /\ (pc[w] \in {"giveBack", "waited"} \/ (pc[w] = "token2"
               /\ sem[on[w]] > 0))
  BY <1>4, <1>b, ActorFacts DEF TakesStarted, PlaceType, OnType
<1>5. ASSUME NEW a \in Actors, FirstSignal(a)
      PROVE  on'[w] = on[w] /\ (pc[w] \in {"giveBack", "waited"} \/ (pc[w] = "token2"
               /\ sem[on[w]] > 0))
  BY <1>5, <1>b, ActorFacts DEF FirstSignal, PlaceType, OnType
<1>6. ASSUME NEW a \in Actors, SendsTransfer(a)
      PROVE  on'[w] = on[w] /\ (pc[w] \in {"giveBack", "waited"} \/ (pc[w] = "token2"
               /\ sem[on[w]] > 0))
  BY <1>6, <1>b, ActorFacts DEF SendsTransfer, Put, PlaceType, OnType
<1>7. ASSUME NEW a \in Actors, BeginsWait(a)
      PROVE  on'[w] = on[w] /\ (pc[w] \in {"giveBack", "waited"} \/ (pc[w] = "token2"
               /\ sem[on[w]] > 0))
  BY <1>7, <1>b, ActorFacts DEF BeginsWait, PlaceType, OnType
<1>8. ASSUME NEW a \in Actors, TakeToken(a)
      PROVE  on'[w] = on[w] /\ (pc[w] \in {"giveBack", "waited"} \/ (pc[w] = "token2"
               /\ sem[on[w]] > 0))
  BY <1>8, <1>b, ActorFacts DEF TakeToken, PlaceType, OnType
<1>9. ASSUME NEW a \in Actors, GiveBack(a)
      PROVE  on'[w] = on[w] /\ (pc[w] \in {"giveBack", "waited"} \/ (pc[w] = "token2"
               /\ sem[on[w]] > 0))
  BY <1>9, <1>b, ActorFacts DEF GiveBack, PlaceType, OnType
<1>10. ASSUME NEW t \in Tids, JoinReturns(t)
       PROVE  on'[w] = on[w] /\ (pc[w] \in {"giveBack", "waited"} \/ (pc[w] = "token2"
                /\ sem[on[w]] > 0))
  BY <1>10, <1>b, ActorFacts DEF JoinReturns, PlaceType, OnType
<1>11. ASSUME NEW t \in Tids, LockPthread(t, "callCreate", "create")
       PROVE  on'[w] = on[w] /\ (pc[w] \in {"giveBack", "waited"} \/ (pc[w] = "token2"
                /\ sem[on[w]] > 0))
  BY <1>11, <1>b, ActorFacts DEF LockPthread, PlaceType, OnType
<1>12. ASSUME NEW t \in Tids, LockPthread(t, "callJoin", "wait")
       PROVE  on'[w] = on[w] /\ (pc[w] \in {"giveBack", "waited"} \/ (pc[w] = "token2"
                /\ sem[on[w]] > 0))
  BY <1>12, <1>b, ActorFacts DEF LockPthread, PlaceType, OnType
<1>13. ASSUME NEW t \in Tids, SutMoves(t)
       PROVE  on'[w] = on[w] /\ (pc[w] \in {"giveBack", "waited"} \/ (pc[w] = "token2"
                /\ sem[on[w]] > 0))
  BY <1>13, <1>b, ActorFacts DEF SutMoves, PlaceType, OnType
<1>14. ASSUME NEW t \in Tids, CallCreate(t)
       PROVE  on'[w] = on[w] /\ (pc[w] \in {"giveBack", "waited"} \/ (pc[w] = "token2"
                /\ sem[on[w]] > 0))
  BY <1>14, <1>b, ActorFacts DEF CallCreate, PlaceType, OnType
<1>15. ASSUME NEW t \in Tids, SetsStarted(t)
       PROVE  on'[w] = on[w] /\ (pc[w] \in {"giveBack", "waited"} \/ (pc[w] = "token2"
                /\ sem[on[w]] > 0))
  BY <1>15, <1>b, ActorFacts DEF SetsStarted, PlaceType, OnType
<1>16. ASSUME NEW t \in Tids, SendsStarted(t)
       PROVE  on'[w] = on[w] /\ (pc[w] \in {"giveBack", "waited"} \/ (pc[w] = "token2"
                /\ sem[on[w]] > 0))
  BY <1>16, <1>b, ActorFacts DEF SendsStarted, Put, PlaceType, OnType
<1>17. ASSUME NEW t \in Tids, Receives(t)
       PROVE  on'[w] = on[w] /\ (pc[w] \in {"giveBack", "waited"} \/ (pc[w] = "token2"
                /\ sem[on[w]] > 0))
  BY <1>17, <1>b, ActorFacts DEF Receives, PlaceType, OnType
<1>18. ASSUME NEW t \in Tids, Enable(t)
       PROVE  on'[w] = on[w] /\ (pc[w] \in {"giveBack", "waited"} \/ (pc[w] = "token2"
                /\ sem[on[w]] > 0))
  BY <1>18, <1>b, ActorFacts DEF Enable, PlaceType, OnType
<1>19. ASSUME NEW t \in Tids, SetEnded(t)
       PROVE  on'[w] = on[w] /\ (pc[w] \in {"giveBack", "waited"} \/ (pc[w] = "token2"
                /\ sem[on[w]] > 0))
  BY <1>19, <1>b, ActorFacts DEF SetEnded, PlaceType, OnType
<1>20. ASSUME NEW t \in Tids, SecondSignal(t)
       PROVE  on'[w] = on[w] /\ (pc[w] \in {"giveBack", "waited"} \/ (pc[w] = "token2"
                /\ sem[on[w]] > 0))
  BY <1>20, <1>b, ActorFacts DEF SecondSignal, PlaceType, OnType
<1>21. ASSUME NEW t \in Tids, Terminate(t)
       PROVE  on'[w] = on[w] /\ (pc[w] \in {"giveBack", "waited"} \/ (pc[w] = "token2"
                /\ sem[on[w]] > 0))
  BY <1>21, <1>b, ActorFacts DEF Terminate, PlaceType, OnType
<1>22. ASSUME NEW t \in Tids, NEW u \in Tids, Joins(t, u)
       PROVE  on'[w] = on[w] /\ (pc[w] \in {"giveBack", "waited"} \/ (pc[w] = "token2"
                /\ sem[on[w]] > 0))
  BY <1>22, <1>b, ActorFacts DEF Joins, PlaceType, OnType
<1>23. ASSUME MainPasses
       PROVE  on'[w] = on[w] /\ (pc[w] \in {"giveBack", "waited"} \/ (pc[w] = "token2"
                /\ sem[on[w]] > 0))
  BY <1>23, <1>b, ActorFacts DEF MainPasses, PlaceType, OnType
<1>24. ASSUME WaitTimeout
       PROVE  on'[w] = on[w] /\ (pc[w] \in {"giveBack", "waited"} \/ (pc[w] = "token2"
                /\ sem[on[w]] > 0))
  BY <1>24, <1>b, ActorFacts DEF WaitTimeout, PlaceType, OnType
<1>25. ASSUME Begin
       PROVE  on'[w] = on[w] /\ (pc[w] \in {"giveBack", "waited"} \/ (pc[w] = "token2"
                /\ sem[on[w]] > 0))
  BY <1>25, <1>b, ActorFacts DEF Begin, RestartGroup, PlaceType, OnType
<1>26. ASSUME DriverLoaded
       PROVE  on'[w] = on[w] /\ (pc[w] \in {"giveBack", "waited"} \/ (pc[w] = "token2"
                /\ sem[on[w]] > 0))
  BY <1>26, <1>b, ActorFacts DEF DriverLoaded, PlaceType, OnType
<1>27. ASSUME NEW b \in BOOLEAN, ScriptEnds(b)
       PROVE  on'[w] = on[w] /\ (pc[w] \in {"giveBack", "waited"} \/ (pc[w] = "token2"
                /\ sem[on[w]] > 0))
  BY <1>27, <1>b, ActorFacts DEF ScriptEnds, PlaceType, OnType
<1>28. ASSUME JoinAllThreads
       PROVE  on'[w] = on[w] /\ (pc[w] \in {"giveBack", "waited"} \/ (pc[w] = "token2"
                /\ sem[on[w]] > 0))
  BY <1>28, <1>b, ActorFacts DEF JoinAllThreads, PlaceType, OnType
<1>29. ASSUME LooksAtMember
       PROVE  on'[w] = on[w] /\ (pc[w] \in {"giveBack", "waited"} \/ (pc[w] = "token2"
                /\ sem[on[w]] > 0))
  BY <1>29, <1>b, ActorFacts DEF LooksAtMember, PlaceType, OnType
<1>30. ASSUME Backtrack
       PROVE  on'[w] = on[w] /\ (pc[w] \in {"giveBack", "waited"} \/ (pc[w] = "token2"
                /\ sem[on[w]] > 0))
  BY <1>30, <1>b, ActorFacts DEF Backtrack, PlaceType, OnType
<1>31. ASSUME FinishesMember
       PROVE  on'[w] = on[w] /\ (pc[w] \in {"giveBack", "waited"} \/ (pc[w] = "token2"
                /\ sem[on[w]] > 0))
  BY <1>31, <1>b DEF FinishesMember, Finishing
<1>32. ASSUME SendsTerminate
       PROVE  on'[w] = on[w] /\ (pc[w] \in {"giveBack", "waited"} \/ (pc[w] = "token2"
                /\ sem[on[w]] > 0))
  BY <1>32, <1>b DEF SendsTerminate, Finishing
<1>33. ASSUME Cancels
       PROVE  on'[w] = on[w] /\ (pc[w] \in {"giveBack", "waited"} \/ (pc[w] = "token2"
                /\ sem[on[w]] > 0))
  BY <1>33, <1>b DEF Cancels, Finishing
<1>34. ASSUME JoinPthread
       PROVE  on'[w] = on[w] /\ (pc[w] \in {"giveBack", "waited"} \/ (pc[w] = "token2"
                /\ sem[on[w]] > 0))
  BY <1>34, <1>b DEF JoinPthread, Finishing
<1>35. ASSUME Kept
       PROVE  on'[w] = on[w] /\ (pc[w] \in {"giveBack", "waited"} \/ (pc[w] = "token2"
                /\ sem[on[w]] > 0))
  BY <1>35 DEF Kept
<1>36. QED
  BY <1>1, <1>2, <1>3, <1>4, <1>5, <1>6, <1>7, <1>8, <1>9, <1>10, <1>11, <1>12, <1>13,
     <1>14, <1>15, <1>16, <1>17, <1>18, <1>19, <1>20, <1>21, <1>22, <1>23, <1>24, <1>25,
     <1>26, <1>27, <1>28, <1>29, <1>30, <1>31, <1>32, <1>33, <1>34, <1>35 DEF Effect

\* A thread comes into being when it is spawned.
LEMMA AbsentStays ==
  ASSUME BaseInv, ~Finishing, NEW s \in Tids, pc[s] = "absent", pc'[s] # "absent", Effect \/ Kept
  PROVE  \E w \in Actors : Spawns(w) /\ on[w] = s
<1>b. PlaceType
  BY DEF BaseInv, TypeInv
<1>1. ASSUME NEW a \in Actors, Chooses(a) PROVE \E w \in Actors : Spawns(w) /\ on[w] = s
  BY <1>1, <1>b, ActorFacts DEF Chooses, PlaceType, CreatePlaces, WaitPlaces
<1>2. ASSUME NEW a \in Actors, Spawns(a) PROVE \E w \in Actors : Spawns(w) /\ on[w] = s
  BY <1>2, <1>b, ActorFacts DEF Spawns, PlaceType, CreatePlaces, WaitPlaces
<1>3. ASSUME NEW a \in Actors, Restarts(a) PROVE \E w \in Actors : Spawns(w) /\ on[w] = s
  BY <1>3, <1>b, ActorFacts DEF Restarts, Put, PlaceType, CreatePlaces, WaitPlaces
<1>4. ASSUME NEW a \in Actors, TakesStarted(a)
      PROVE  \E w \in Actors : Spawns(w) /\ on[w] = s
  BY <1>4, <1>b, ActorFacts DEF TakesStarted, PlaceType, CreatePlaces, WaitPlaces
<1>5. ASSUME NEW a \in Actors, FirstSignal(a) PROVE \E w \in Actors : Spawns(w) /\ on[w] = s
  BY <1>5, <1>b, ActorFacts DEF FirstSignal, PlaceType, CreatePlaces, WaitPlaces
<1>6. ASSUME NEW a \in Actors, SendsTransfer(a)
      PROVE  \E w \in Actors : Spawns(w) /\ on[w] = s
  BY <1>6, <1>b, ActorFacts DEF SendsTransfer, Put, PlaceType, CreatePlaces, WaitPlaces
<1>7. ASSUME NEW a \in Actors, BeginsWait(a) PROVE \E w \in Actors : Spawns(w) /\ on[w] = s
  BY <1>7, <1>b, ActorFacts DEF BeginsWait, PlaceType, CreatePlaces, WaitPlaces
<1>8. ASSUME NEW a \in Actors, TakeToken(a) PROVE \E w \in Actors : Spawns(w) /\ on[w] = s
  BY <1>8, <1>b, ActorFacts DEF TakeToken, PlaceType, CreatePlaces, WaitPlaces
<1>9. ASSUME NEW a \in Actors, GiveBack(a) PROVE \E w \in Actors : Spawns(w) /\ on[w] = s
  BY <1>9, <1>b, ActorFacts DEF GiveBack, PlaceType, CreatePlaces, WaitPlaces
<1>10. ASSUME NEW t \in Tids, JoinReturns(t) PROVE \E w \in Actors : Spawns(w) /\ on[w] = s
  BY <1>10, <1>b, ActorFacts DEF JoinReturns, PlaceType, CreatePlaces, WaitPlaces
<1>11. ASSUME NEW t \in Tids, LockPthread(t, "callCreate", "create")
       PROVE  \E w \in Actors : Spawns(w) /\ on[w] = s
  BY <1>11, <1>b, ActorFacts DEF LockPthread, PlaceType, CreatePlaces, WaitPlaces
<1>12. ASSUME NEW t \in Tids, LockPthread(t, "callJoin", "wait")
       PROVE  \E w \in Actors : Spawns(w) /\ on[w] = s
  BY <1>12, <1>b, ActorFacts DEF LockPthread, PlaceType, CreatePlaces, WaitPlaces
<1>13. ASSUME NEW t \in Tids, SutMoves(t) PROVE \E w \in Actors : Spawns(w) /\ on[w] = s
  BY <1>13, <1>b, ActorFacts DEF SutMoves, PlaceType, CreatePlaces, WaitPlaces
<1>14. ASSUME NEW t \in Tids, CallCreate(t) PROVE \E w \in Actors : Spawns(w) /\ on[w] = s
  BY <1>14, <1>b, ActorFacts DEF CallCreate, PlaceType, CreatePlaces, WaitPlaces
<1>15. ASSUME NEW t \in Tids, SetsStarted(t) PROVE \E w \in Actors : Spawns(w) /\ on[w] = s
  BY <1>15, <1>b, ActorFacts DEF SetsStarted, PlaceType, CreatePlaces, WaitPlaces
<1>16. ASSUME NEW t \in Tids, SendsStarted(t) PROVE \E w \in Actors : Spawns(w) /\ on[w] = s
  BY <1>16, <1>b, ActorFacts DEF SendsStarted, Put, PlaceType, CreatePlaces, WaitPlaces
<1>17. ASSUME NEW t \in Tids, Receives(t) PROVE \E w \in Actors : Spawns(w) /\ on[w] = s
  BY <1>17, <1>b, ActorFacts DEF Receives, PlaceType, CreatePlaces, WaitPlaces
<1>18. ASSUME NEW t \in Tids, Enable(t) PROVE \E w \in Actors : Spawns(w) /\ on[w] = s
  BY <1>18, <1>b, ActorFacts DEF Enable, PlaceType, CreatePlaces, WaitPlaces
<1>19. ASSUME NEW t \in Tids, SetEnded(t) PROVE \E w \in Actors : Spawns(w) /\ on[w] = s
  BY <1>19, <1>b, ActorFacts DEF SetEnded, PlaceType, CreatePlaces, WaitPlaces
<1>20. ASSUME NEW t \in Tids, SecondSignal(t) PROVE \E w \in Actors : Spawns(w) /\ on[w] = s
  BY <1>20, <1>b, ActorFacts DEF SecondSignal, PlaceType, CreatePlaces, WaitPlaces
<1>21. ASSUME NEW t \in Tids, Terminate(t) PROVE \E w \in Actors : Spawns(w) /\ on[w] = s
  BY <1>21, <1>b, ActorFacts DEF Terminate, PlaceType, CreatePlaces, WaitPlaces
<1>22. ASSUME NEW t \in Tids, NEW u \in Tids, Joins(t, u)
       PROVE  \E w \in Actors : Spawns(w) /\ on[w] = s
  BY <1>22, <1>b, ActorFacts DEF Joins, PlaceType, CreatePlaces, WaitPlaces
<1>23. ASSUME MainPasses PROVE \E w \in Actors : Spawns(w) /\ on[w] = s
  BY <1>23, <1>b, ActorFacts DEF MainPasses, PlaceType, CreatePlaces, WaitPlaces
<1>24. ASSUME WaitTimeout PROVE \E w \in Actors : Spawns(w) /\ on[w] = s
  BY <1>24, <1>b, ActorFacts DEF WaitTimeout, PlaceType, CreatePlaces, WaitPlaces
<1>25. ASSUME Begin PROVE \E w \in Actors : Spawns(w) /\ on[w] = s
  BY <1>25, <1>b, ActorFacts DEF Begin, RestartGroup, PlaceType, CreatePlaces, WaitPlaces
<1>26. ASSUME DriverLoaded PROVE \E w \in Actors : Spawns(w) /\ on[w] = s
  BY <1>26, <1>b, ActorFacts DEF DriverLoaded, PlaceType, CreatePlaces, WaitPlaces
<1>27. ASSUME NEW b \in BOOLEAN, ScriptEnds(b)
       PROVE  \E w \in Actors : Spawns(w) /\ on[w] = s
  BY <1>27, <1>b, ActorFacts DEF ScriptEnds, PlaceType, CreatePlaces, WaitPlaces
<1>28. ASSUME JoinAllThreads PROVE \E w \in Actors : Spawns(w) /\ on[w] = s
  BY <1>28, <1>b, ActorFacts DEF JoinAllThreads, PlaceType, CreatePlaces, WaitPlaces
<1>29. ASSUME LooksAtMember PROVE \E w \in Actors : Spawns(w) /\ on[w] = s
  BY <1>29, <1>b, ActorFacts DEF LooksAtMember, PlaceType, CreatePlaces, WaitPlaces
<1>30. ASSUME Backtrack PROVE \E w \in Actors : Spawns(w) /\ on[w] = s
  BY <1>30, <1>b, ActorFacts DEF Backtrack, PlaceType, CreatePlaces, WaitPlaces
<1>31. ASSUME FinishesMember PROVE \E w \in Actors : Spawns(w) /\ on[w] = s
  BY <1>31, <1>b DEF FinishesMember, Finishing
<1>32. ASSUME SendsTerminate PROVE \E w \in Actors : Spawns(w) /\ on[w] = s
  BY <1>32, <1>b DEF SendsTerminate, Finishing
<1>33. ASSUME Cancels PROVE \E w \in Actors : Spawns(w) /\ on[w] = s
  BY <1>33, <1>b DEF Cancels, Finishing
<1>34. ASSUME JoinPthread PROVE \E w \in Actors : Spawns(w) /\ on[w] = s
  BY <1>34, <1>b DEF JoinPthread, Finishing
<1>35. ASSUME Kept PROVE \E w \in Actors : Spawns(w) /\ on[w] = s
  BY <1>35 DEF Kept
<1>36. QED
  BY <1>1, <1>2, <1>3, <1>4, <1>5, <1>6, <1>7, <1>8, <1>9, <1>10, <1>11, <1>12, <1>13,
     <1>14, <1>15, <1>16, <1>17, <1>18, <1>19, <1>20, <1>21, <1>22, <1>23, <1>24, <1>25,
     <1>26, <1>27, <1>28, <1>29, <1>30, <1>31, <1>32, <1>33, <1>34, <1>35 DEF Effect

\* Nobody creates a thread when main has waited for all.
LEMMA NoneCreates ==
  ASSUME BaseInv, ~Finishing, Waited
  PROVE  cmx = Nobody /\ \A a \in Actors : ~Chooses(a)
<1>1. ASSUME NEW a \in Actors, pc[a] \in CreatePlaces PROVE FALSE
  <2>1. a # Main
    BY <1>1 DEF Waited, CreatePlaces
  <2>2. QED
    BY <1>1, <2>1, SettledPlace, ActorFacts DEF CreatePlaces, Calls
<1>2. cmx = Nobody
  BY <1>1 DEF BaseInv, OwnerInv, TypeInv, LockType, StartPlaces
<1>3. QED
  BY <1>1, <1>2 DEF Chooses, CreatePlaces

\* A thread with two tokens of which somebody has one has ended.
LEMMA TwoTokens ==
  ASSUME BaseInv, ~Finishing, NEW u \in Tids, u <= size, Tokens(u) >= 2,
         Share(Main, u) > 0 \/ JoinShare(u) > 0
  PROVE  Done(u)
<1>1. ~CreatedAt(u, ResetPlaces)
  BY NoShareWhenStarted
<1>2. Tokens(u) \in Nat /\ ExactOf(u) /\ ChannelOK(u)
  BY ShareNat DEF BaseInv, LiveInv, ExactInv, ChannelInv
<1>3. pc[u] = "awaitEnd"
  BY <1>1, <1>2 DEF ExactOf
<1>4. ~CreatedAt(u, {"awaitStarted"})
  BY <1>1 DEF CreatedAt, ResetPlaces
<1>5. QED
  BY <1>2, <1>3, <1>4 DEF ChannelOK, Done

\* A thread that is joined, by main or by a thread, is a member.
LEMMA JoinedMember ==
  ASSUME BaseInv, ~Finishing, NEW a \in Actors, pc[a] \in WaitPlaces
  PROVE  /\ on[a] \in Tids /\ on[a] <= size
         /\ ~CreatedAt(on[a], {"start"})
         /\ pc[a] = "token2" => Share(Main, on[a]) + JoinShare(on[a]) >= 1
<1>t. TypeInv /\ LoopInv /\ OwnerInv /\ StatusInv /\ ChannelInv
  BY DEF BaseInv, LiveInv
<1>1. on[a] \in Tids
  BY <1>t, OnMember
<1>2. /\ Share(Main, on[a]) \in {0, 1, 2} /\ JoinShare(on[a]) \in {0, 1, 2}
  BY <1>1, ShareNat
<1>3. CASE a = Main
  <2>1. on[a] <= size
    BY <1>3, <1>t DEF LoopInv
  <2>2. ~CreatedAt(on[a], {"start"})
    <3>1. CASE cmx = Nobody
      BY <3>1 DEF CreatedAt
    <3>2. CASE cmx # Nobody
      BY <3>2, <1>1, <1>3, <1>t, MainBehind, Typed, ActorFacts DEF MemberPlaces,
         CreatedAt, OwnerInv
    <3>3. QED
      BY <3>1, <3>2
  <2>3. QED
    BY <1>1, <1>2, <1>3, <2>1, <2>2 DEF Share
<1>4. CASE a \in Tids
  <2>1. StatusOf(a) /\ StatusOf(on[a]) /\ ChannelOK(on[a])
    BY <1>1, <1>4, <1>t DEF StatusInv, ChannelInv
  <2>2. on[a] <= size
    BY <1>1, <2>1, <1>t, Typed, ActorFacts DEF StatusOf, ChannelOK, Tids
  <2>3. plock = a /\ a # Main
    BY <1>4, <1>t, ActorFacts DEF OwnerInv
  <2>4. ~CreatedAt(on[a], {"start"})
    <3>1. ASSUME CreatedAt(on[a], {"start"}) PROVE FALSE
      <4>1. cmx \in Actors /\ pc[cmx] = "start"
        BY <3>1 DEF CreatedAt, BaseInv, TypeInv, LockType
      <4>2. cmx = Main
        BY <4>1, <2>3, <1>t, ActorFacts DEF OwnerInv, CreatePlaces, WaitPlaces
      <4>3. on[a] = Driver
        BY <3>1, <4>1, <4>2, <1>t DEF CreatedAt, LoopInv, StartPlaces, CreatePlaces
      <4>4. QED
        BY <4>3, <2>1 DEF StatusOf
    <3>2. QED
      BY <3>1
  <2>5. pc[a] = "token2" => JoinShare(on[a]) = 1
    BY <2>3, <1>4, ActorFacts DEF JoinShare, Share
  <2>6. QED
    BY <1>1, <1>2, <2>2, <2>4, <2>5
<1>5. QED
  BY <1>3, <1>4, ActorFacts

\* Before Finish, every step keeps who is settled: the members not created yet, ...
LEMMA NextStep ==
  ASSUME BaseInv, ~Finishing, Effect \/ Kept
  PROVE  NextSettled'
<1>b. TypeInv /\ OwnerInv /\ NextSettled /\ WaitedSettled
  BY DEF BaseInv, LiveInv, OrderInv
<1>1. CASE next' = next /\ size' = size
  <2>1. ASSUME NEW t \in Tids, next < t, t <= size PROVE Settled(t)'
    <3>1. ~CreatedAt(t, {"start"}) /\ Settled(t)
      BY <2>1, <1>b, Typed, ActorFacts DEF CreatedAt, OwnerInv, NextSettled
    <3>2. QED
      BY <3>1, SettledStays
  <2>2. QED
    BY <2>1, <1>1 DEF NextSettled
<1>2. ASSUME NEW a \in Actors, Chooses(a) PROVE NextSettled'
  <2>1. /\ next' = next + 1 /\ size' = (IF next < size THEN size ELSE next + 1)
        /\ cmx = Nobody /\ size \in Nat /\ next \in Nat
    BY <1>2, <1>b, Typed DEF Chooses
  <2>2. ASSUME NEW t \in Tids, next' < t, t <= size' PROVE Settled(t)'
    <3>1. next < t /\ t <= size /\ t \in Nat
      BY <2>1, <2>2 DEF Tids
    <3>2. ~CreatedAt(t, {"start"}) /\ Settled(t)
      BY <2>1, <3>1, <1>b DEF CreatedAt, NextSettled
    <3>3. QED
      BY <3>2, SettledStays
  <2>3. QED
    BY <2>2 DEF NextSettled
<1>3. CASE Begin
  <2>1. Waited /\ size' = size
    BY <1>3 DEF Begin, Waited, RestartGroup
  <2>2. cmx = Nobody
    BY <2>1, NoneCreates
  <2>3. \A t \in Tids : t <= size => Settled(t)'
    BY <2>1, <2>2, <1>b, SettledStays DEF CreatedAt, WaitedSettled
  <2>4. QED
    BY <2>1, <2>3 DEF NextSettled
<1>4. QED
  BY <1>1, <1>2, <1>3, MainSteps DEF MainFrame, MainMoves, MainPasses, WaitTimeout,
     DriverLoaded, ScriptEnds,
     JoinAllThreads, LooksAtMember, Backtrack

\* ... the one chosen next, ...
LEMMA StartStep ==
  ASSUME BaseInv, ~Finishing, Effect \/ Kept
  PROVE  StartSettled'
<1>b. TypeInv /\ NextSettled /\ StartSettled /\ ChannelInv /\ ChannelInv' /\ PlaceType
        /\ OwnerInv
  BY ChannelStep DEF BaseInv, LiveInv, OrderInv, TypeInv
<1>1. SUFFICES ASSUME NEW s \in Tids, CreatedAt(s, {"start"})' PROVE Settled(s)'
        \/ pc'[s] = "absent"
  BY DEF StartSettled
<1>2. CASE CreatedAt(s, {"start"})
  <2>1. CASE Settled(s)
    BY <1>1, <2>1, SettledStays
  <2>2. CASE pc[s] = "absent"
    <3>1. ASSUME pc'[s] # "absent" PROVE FALSE
      <4>1. \E a \in Actors : Spawns(a) /\ on[a] = s
        BY <1>b, <2>2, <3>1, AbsentStays
      <4>2. PICK a \in Actors : Spawns(a) /\ on[a] = s
        BY <4>1
      <4>3. cmx = a /\ cmx' = a /\ pc'[a] # "start"
        BY <4>2, <1>b, <2>2, ActorFacts DEF Spawns, OwnerInv, StartPlaces, CreatePlaces,
           PlaceType
      <4>4. QED
        BY <1>1, <4>3 DEF CreatedAt
    <3>2. QED
      BY <3>1
  <2>3. QED
    BY <1>2, <2>1, <2>2, <1>b DEF StartSettled
<1>3. ASSUME NEW a \in Actors, Chooses(a), s = next + 1
      PROVE  Settled(s)' \/ pc'[s] = "absent"
  <2>1. cmx = Nobody /\ size \in Nat /\ next \in Nat /\ pc[a] = "create"
          /\ pc' = [pc EXCEPT ![a] = "start"]
    BY <1>3, <1>b, Typed DEF Chooses
  <2>2. CASE s <= size
    <3>1. Settled(s) /\ ~CreatedAt(s, {"start"})
      BY <1>3, <2>1, <2>2, <1>b DEF NextSettled, CreatedAt
    <3>2. QED
      BY <3>1, SettledStays
  <2>3. CASE ~(s <= size)
    <3>1. pc[s] = "absent"
      BY <1>3, <2>1, <2>3, <1>b DEF ChannelInv, ChannelOK
    <3>2. QED
      BY <3>1, <2>1, <1>b, ActorFacts DEF PlaceType
  <2>4. QED
    BY <2>2, <2>3
<1>4. QED
  BY <1>1, <1>2, <1>3, CreatedFrom

\* ... all of them, once main has waited for all, ...
LEMMA WaitedStep ==
  ASSUME BaseInv, ~Finishing, Effect \/ Kept
  PROVE  WaitedSettled' /\ EndedDone'
<1>b. TypeInv /\ PlaceType /\ OnType /\ LoopInv /\ WaitedSettled /\ EndedDone
        /\ PassedSettled
  BY DEF BaseInv, LiveInv, OrderInv, TypeInv
<1>w. AllEnded => Waited
  BY DEF AllEnded, Waited
<1>1. ASSUME Waited, size' = size PROVE WaitedSettled'
  <2>1. cmx = Nobody
    BY <1>1, NoneCreates
  <2>2. \A t \in Tids : t <= size => Settled(t)'
    BY <1>1, <2>1, <1>b, SettledStays DEF CreatedAt, WaitedSettled
  <2>3. QED
    BY <1>1, <2>2 DEF WaitedSettled
<1>2. ASSUME AllEnded, size' = size PROVE EndedDone'
  <2>1. cmx = Nobody
    BY <1>2, <1>w, NoneCreates
  <2>2. \A t \in Tids : t <= size => Done(t)'
    BY <1>2, <2>1, <1>b, DoneStays DEF CreatedAt, EndedDone
  <2>3. QED
    BY <1>2, <2>2 DEF EndedDone
<1>3. ASSUME (Waited' => Waited) /\ (AllEnded' => AllEnded), size' = size
      PROVE  WaitedSettled' /\ EndedDone'
  BY <1>1, <1>2, <1>3 DEF WaitedSettled, EndedDone
<1>4. CASE MainFrame
  BY <1>3, <1>4 DEF MainFrame, Waited, AllEnded, StartPlaces, CreatePlaces, WaitPlaces
<1>5. ASSUME NEW a \in Actors, Chooses(a) PROVE WaitedSettled' /\ EndedDone'
  <2>1. ~Waited
    BY <1>5, NoneCreates
  <2>2. ~Waited' /\ ~AllEnded'
    BY <1>5, <2>1, <1>w, <1>b, ActorFacts DEF Chooses, Waited, AllEnded, PlaceType
  <2>3. QED
    BY <2>2 DEF WaitedSettled, EndedDone
<1>6. CASE MainPasses \/ WaitTimeout \/ Begin \/ DriverLoaded
        \/ \E b \in BOOLEAN : ScriptEnds(b)
  <2>1. ~Waited' /\ ~AllEnded'
    BY <1>6, <1>b, ActorFacts DEF MainPasses, WaitTimeout, Begin, DriverLoaded,
       ScriptEnds, Waited, AllEnded, PlaceType
  <2>2. QED
    BY <2>1 DEF WaitedSettled, EndedDone
<1>7. CASE JoinAllThreads
  <2>1. ~AllEnded'
    BY <1>7, <1>b, ActorFacts DEF JoinAllThreads, AllEnded, PlaceType, LoopInv, MainType,
       TypeInv
  <2>2. Waited' => Waited
    BY <1>7, <1>b, ActorFacts DEF JoinAllThreads, Waited, PlaceType, MainType, TypeInv
  <2>3. size' = size
    BY <1>7 DEF JoinAllThreads
  <2>4. QED
    BY <1>1, <2>1, <2>2, <2>3 DEF WaitedSettled, EndedDone
<1>8. CASE LooksAtMember
  <2>1. CASE on[Main] > size
    <3>1. \A t \in Tids : t <= size => t < on[Main]
      BY <2>1, <1>b, Typed, ActorFacts DEF Tids
    <3>2. /\ UNCHANGED <<size, timedOut, cmx, woken, status, chan, plock>>
               /\ pc[Main] = "member"
          /\ pc'[Main] \in {"backtrack", "joinAll"}
          /\ pc'[Main] = "backtrack" => timedOut = 0
      BY <1>8, <2>1, <1>b, Typed, ActorFacts DEF LooksAtMember, PlaceType
    <3>3. \A t \in Tids : t <= size => Settled(t) /\ (timedOut = 0 => Done(t))
      BY <3>1, <3>2, <1>b DEF PassedSettled, MemberPlaces
    <3>4. \A t \in Tids : t <= size => ~CreatedAt(t, {"start"})
      BY <3>1, <3>2, MainBehind, Typed, ActorFacts, <1>b DEF CreatedAt, MemberPlaces,
         BaseInv, OwnerInv
    <3>5. \A t \in Tids : t <= size => Settled(t)' /\ (timedOut = 0 => Done(t)')
      BY <3>3, <3>4, SettledStays, DoneStays
    <3>6. QED
      BY <3>2, <3>5 DEF WaitedSettled, EndedDone, AllEnded
  <2>2. CASE ~(on[Main] > size)
    <3>1. ~Waited' /\ ~AllEnded'
      BY <1>8, <2>2, <1>b, ActorFacts DEF LooksAtMember, Waited, AllEnded, PlaceType
    <3>2. QED
      BY <3>1 DEF WaitedSettled, EndedDone
  <2>3. QED
    BY <2>1, <2>2
<1>9. CASE Backtrack
  <2>1. ~AllEnded' /\ (Waited' => Waited) /\ size' = size
    BY <1>9, <1>b, ActorFacts DEF Backtrack, AllEnded, Waited, PlaceType
  <2>2. QED
    BY <1>1, <2>1 DEF WaitedSettled, EndedDone
<1>10. QED
  BY <1>4, <1>5, <1>6, <1>7, <1>8, <1>9, MainSteps DEF MainMoves

\* ... the members main has passed, unless a timed wait expires early, ...
LEMMA PassedStep ==
  ASSUME ~Slow, BaseInv, ~Finishing, Effect \/ Kept
  PROVE  PassedSettled'
<1>b. TypeInv /\ PlaceType /\ OnType /\ LoopInv /\ OwnerInv /\ StatusInv
        /\ PassedSettled /\ JoinedDone
  BY DEF BaseInv, LiveInv, OrderInv, TypeInv
<1>1. ASSUME pc[Main] \in MemberPlaces, NEW t \in Tids, t < on[Main]
      PROVE  Settled(t)' /\ (timedOut = 0 => Done(t)')
  <2>1. Settled(t) /\ (timedOut = 0 => Done(t))
    BY <1>1, <1>b DEF PassedSettled
  <2>2. ~CreatedAt(t, {"start"})
    BY <1>1, MainBehind, <1>b, Typed, ActorFacts DEF CreatedAt, OwnerInv
  <2>3. QED
    BY <2>1, <2>2, SettledStays, DoneStays
<1>2. ASSUME pc[Main] \in MemberPlaces, on'[Main] = on[Main], timedOut' = timedOut
      PROVE  PassedSettled'
  BY <1>1, <1>2 DEF PassedSettled
\* Main goes on to the next member, and counts it unless it has ended.
<1>3. ASSUME pc[Main] \in MemberPlaces, NEW i \in Tids, i = on[Main], on'[Main] = i + 1,
             ~CreatedAt(i, {"start"}), Settled(i),
             (Done(i) /\ timedOut' = timedOut) \/ timedOut + 1 = timedOut'
      PROVE  PassedSettled'
  <2>1. timedOut \in Nat
    BY <1>b, ActorFacts DEF TypeInv, MainType
  <2>2. Settled(i)' /\ (Done(i) => Done(i)')
    BY <1>3, SettledStays, DoneStays
  <2>3. \A t \in Tids : t < on'[Main] => t < on[Main] \/ t = i
    BY <1>3 DEF Tids
  <2>4. timedOut' = 0 => timedOut = 0 /\ Done(i)
    BY <1>3, <2>1
  <2>5. ASSUME NEW t \in Tids, t < on'[Main]
        PROVE  Settled(t)' /\ (timedOut' = 0 => Done(t)')
    <3>1. CASE t < on[Main]
      BY <1>1, <1>3, <2>4, <3>1
    <3>2. CASE t = i
      BY <2>2, <2>4, <3>2
    <3>3. QED
      BY <2>3, <2>5, <3>1, <3>2
  <2>6. QED
    BY <2>5 DEF PassedSettled
<1>4. CASE MainFrame
  BY <1>2, <1>4 DEF MainFrame, PassedSettled, MemberPlaces, StartPlaces, CreatePlaces,
     WaitPlaces
<1>5. ASSUME NEW a \in Actors, Chooses(a) PROVE PassedSettled'
  <2>1. CASE a = Main
    BY <1>5, <2>1, <1>b DEF Chooses, PassedSettled, MemberPlaces, WaitPlaces, PlaceType
  <2>2. CASE a \in Tids
    <3>1. pc'[Main] = pc[Main] /\ on'[Main] = on[Main] /\ timedOut' = timedOut
      BY <1>5, <2>2, <1>b, ActorFacts DEF Chooses, PlaceType, OnType
    <3>2. QED
      BY <3>1, <1>2 DEF PassedSettled
  <2>3. QED
    BY <2>1, <2>2, ActorFacts
<1>6. CASE Begin \/ DriverLoaded \/ Backtrack \/ \E b \in BOOLEAN : ScriptEnds(b)
  BY <1>6, <1>b, ActorFacts DEF Begin, DriverLoaded, ScriptEnds, Backtrack, PassedSettled,
     MemberPlaces, WaitPlaces, PlaceType
<1>7. CASE JoinAllThreads
  <2>1. pc'[Main] = "backtrack" \/ on'[Main] = 1
    BY <1>7, <1>b, ActorFacts DEF JoinAllThreads, PlaceType, OnType
  <2>2. \A t \in Tids : ~(t < 1)
    BY DEF Tids
  <2>3. QED
    BY <2>1, <2>2 DEF PassedSettled, MemberPlaces, WaitPlaces
<1>8. CASE MainPasses
  <2>1. pc[Main] = "waited" /\ on'[Main] = on[Main] + 1 /\ timedOut' = timedOut
    BY <1>8, <1>b, ActorFacts DEF MainPasses, OnType
  <2>2. on[Main] \in Tids /\ ~CreatedAt(on[Main], {"start"})
    BY <2>1, JoinedMember, ActorFacts DEF WaitPlaces
  <2>3. Done(on[Main]) /\ Settled(on[Main])
    BY <2>1, <1>b, ActorFacts DEF JoinedDone, Settled
  <2>4. QED
    BY <1>3, <2>1, <2>2, <2>3 DEF MemberPlaces, WaitPlaces
<1>9. CASE WaitTimeout
  <2>1. /\ pc[Main] = "token2" /\ on'[Main] = on[Main] + 1 /\ timedOut' = timedOut + 1
        /\ Stuck(on[Main]) \/ Contended(on[Main])
    BY <1>9, <1>b, ActorFacts DEF WaitTimeout, OnType
  <2>2. /\ on[Main] \in Tids /\ on[Main] <= size /\ ~CreatedAt(on[Main], {"start"})
        /\ Share(Main, on[Main]) + JoinShare(on[Main]) >= 1
    BY <2>1, JoinedMember, ActorFacts DEF WaitPlaces
  <2>3. ASSUME Contended(on[Main]) PROVE Done(on[Main])
    <3>1. PICK t \in Tids : on[t] = on[Main] /\ pc[t] = "token2"
      BY <2>3 DEF Contended
    <3>2. plock = t /\ t # Main /\ plock # Nobody
      BY <3>1, <1>b, ActorFacts DEF OwnerInv, WaitPlaces
    <3>3. JoinShare(on[Main]) = 1 /\ Share(Main, on[Main]) = 1
      BY <2>1, <3>1, <3>2 DEF JoinShare, Share
    <3>4. Tokens(on[Main]) >= 2
      BY <2>2, <3>3, ShareNat DEF Tokens
    <3>5. Done(on[Main])
      BY <2>2, <3>3, <3>4, TwoTokens
    <3>6. QED
      BY <3>5
  <2>4. Settled(on[Main])
    BY <2>1, <2>3 DEF Settled
  <2>5. QED
    BY <1>3, <2>1, <2>2, <2>4 DEF MemberPlaces, WaitPlaces
<1>10. CASE LooksAtMember
  <2>1. pc[Main] = "member" /\ timedOut' = timedOut
    BY <1>10 DEF LooksAtMember
  <2>2. CASE on' = on
    BY <1>2, <2>1, <2>2 DEF MemberPlaces
  <2>3. CASE on[Main] <= size /\ status[on[Main]] = Passive
    <3>1. on[Main] \in Tids
      BY <2>3, <1>b, Typed, ActorFacts
    <3>2. StatusOf(on[Main]) /\ ChannelOK(on[Main])
      BY <3>1, <1>b DEF StatusInv, BaseInv, LiveInv, ChannelInv
    <3>3. cmx # Nobody /\ on[cmx] = on[Main]
      BY <2>3, <3>2, <3>1, <1>b, Typed, ActorFacts DEF StatusOf, ChannelOK, CreatedAt
    <3>4. FALSE
      BY <2>1, <3>3, <3>1, MainBehind, <1>b, Typed, ActorFacts DEF MemberPlaces, OwnerInv
    <3>5. QED
      BY <3>4
  <2>4. QED
    BY <1>10, <2>2, <2>3 DEF LooksAtMember
<1>11. QED
  BY <1>4, <1>5, <1>6, <1>7, <1>8, <1>9, <1>10, MainSteps DEF MainMoves

\* ... and those whose tokens somebody has.
LEMMA JoinedStep ==
  ASSUME BaseInv, ~Finishing, Effect \/ Kept
  PROVE  JoinedDone'
<1>0. \A w \in Actors : pc'[w] \in {"giveBack", "waited"} => on'[w] \in Tids
  BY JoinedFrom, JoinedMember DEF WaitPlaces
<1>1. SUFFICES ASSUME NEW w \in Actors, pc'[w] \in {"giveBack", "waited"},
                    NEW u \in Tids, u = on'[w]
             PROVE  Done(u)'
  BY <1>0 DEF JoinedDone, Done
<1>2. on'[w] = on[w] /\ (pc[w] \in {"giveBack", "waited"} \/ (pc[w] = "token2"
        /\ sem[on[w]] > 0))
  BY <1>1, JoinedFrom
<1>3. /\ on[w] \in Tids /\ on[w] <= size /\ ~CreatedAt(on[w], {"start"})
      /\ pc[w] = "token2" => Share(Main, on[w]) + JoinShare(on[w]) >= 1
  BY <1>2, JoinedMember DEF WaitPlaces
<1>4. Done(on[w])
  <2>1. CASE pc[w] = "token2" /\ sem[on[w]] > 0
    <3>1. /\ Share(Main, on[w]) \in {0, 1, 2} /\ JoinShare(on[w]) \in {0, 1, 2}
               /\ sem[on[w]] \in Nat
      BY <1>3, ShareNat
    <3>2. Tokens(on[w]) >= 2 /\ (Share(Main, on[w]) > 0 \/ JoinShare(on[w]) > 0)
      BY <1>3, <2>1, <3>1 DEF Tokens
    <3>3. QED
      BY <1>3, <3>2, TwoTokens
  <2>2. CASE pc[w] \in {"giveBack", "waited"}
    BY <2>2 DEF BaseInv, LiveInv, OrderInv, JoinedDone
  <2>3. QED
    BY <1>2, <2>1, <2>2
<1>5. Done(u) /\ ~CreatedAt(u, {"start"})
  BY <1>1, <1>2, <1>3, <1>4
<1>6. QED
  BY <1>5, DoneStays

-----------------------------------------------------------------------------
\* Finish is the end: main does not leave it, nor is the end node's assertion
\* violation or the number of turns ever changed.
LEMMA FinishingStays ==
  ASSUME BaseInv, Finishing, Effect \/ Kept
  PROVE  Finishing' /\ round' = round /\ (exc' = exc \/ exc' = "assertion")
<1>b. TypeInv /\ LoopInv /\ PlaceType
  BY DEF BaseInv, TypeInv
<1>1. ASSUME NEW a \in Actors, Chooses(a)
      PROVE  Finishing' /\ round' = round /\ (exc' = exc \/ exc' = "assertion")
  BY <1>1, <1>b, ActorFacts DEF Chooses, Finishing, StartPlaces, CreatePlaces, WaitPlaces,
     FinishPlaces, PlaceType
<1>2. ASSUME NEW a \in Actors, Spawns(a) PROVE Finishing' /\ round' = round /\ exc' = exc
  <2>1. on[a] # Main
    BY <1>2, <1>b, OnMember, ActorFacts DEF Spawns, StartPlaces, CreatePlaces, FinishPlaces
  <2>2. QED
    BY <1>2, <2>1, <1>b, ActorFacts DEF Spawns, Finishing, StartPlaces, CreatePlaces,
       WaitPlaces, FinishPlaces, PlaceType
<1>3. ASSUME NEW a \in Actors, Restarts(a)
      PROVE  Finishing' /\ round' = round /\ (exc' = exc \/ exc' = "assertion")
  BY <1>3, <1>b, ActorFacts DEF Restarts, Put, Finishing, StartPlaces, CreatePlaces,
     WaitPlaces, FinishPlaces, PlaceType
<1>4. ASSUME NEW a \in Actors, TakesStarted(a)
      PROVE  Finishing' /\ round' = round /\ (exc' = exc \/ exc' = "assertion")
  BY <1>4, <1>b, ActorFacts DEF TakesStarted, Finishing, StartPlaces, CreatePlaces,
     WaitPlaces, FinishPlaces, PlaceType
<1>5. ASSUME NEW a \in Actors, FirstSignal(a)
      PROVE  Finishing' /\ round' = round /\ (exc' = exc \/ exc' = "assertion")
  BY <1>5, <1>b, ActorFacts DEF FirstSignal, Finishing, StartPlaces, CreatePlaces,
     WaitPlaces, FinishPlaces, PlaceType
<1>6. ASSUME NEW a \in Actors, SendsTransfer(a)
      PROVE  Finishing' /\ round' = round /\ (exc' = exc \/ exc' = "assertion")
  BY <1>6, <1>b, ActorFacts DEF SendsTransfer, Put, Finishing, StartPlaces, CreatePlaces,
     WaitPlaces, FinishPlaces, PlaceType
<1>7. ASSUME NEW a \in Actors, BeginsWait(a)
      PROVE  Finishing' /\ round' = round /\ (exc' = exc \/ exc' = "assertion")
  BY <1>7, <1>b, ActorFacts DEF BeginsWait, Finishing, StartPlaces, CreatePlaces,
     WaitPlaces, FinishPlaces, PlaceType
<1>8. ASSUME NEW a \in Actors, TakeToken(a)
      PROVE  Finishing' /\ round' = round /\ (exc' = exc \/ exc' = "assertion")
  BY <1>8, <1>b, ActorFacts DEF TakeToken, Finishing, StartPlaces, CreatePlaces,
     WaitPlaces, FinishPlaces, PlaceType
<1>9. ASSUME NEW a \in Actors, GiveBack(a)
      PROVE  Finishing' /\ round' = round /\ (exc' = exc \/ exc' = "assertion")
  BY <1>9, <1>b, ActorFacts DEF GiveBack, Finishing, StartPlaces, CreatePlaces,
     WaitPlaces, FinishPlaces, PlaceType
<1>10. ASSUME NEW t \in Tids, JoinReturns(t)
       PROVE  Finishing' /\ round' = round /\ (exc' = exc \/ exc' = "assertion")
  BY <1>10, <1>b, ActorFacts DEF JoinReturns, Finishing, StartPlaces, CreatePlaces,
     WaitPlaces, FinishPlaces, PlaceType
<1>11. ASSUME NEW t \in Tids, LockPthread(t, "callCreate", "create")
       PROVE  Finishing' /\ round' = round /\ (exc' = exc \/ exc' = "assertion")
  BY <1>11, <1>b, ActorFacts DEF LockPthread, Finishing, StartPlaces, CreatePlaces,
     WaitPlaces, FinishPlaces, PlaceType
<1>12. ASSUME NEW t \in Tids, LockPthread(t, "callJoin", "wait")
       PROVE  Finishing' /\ round' = round /\ (exc' = exc \/ exc' = "assertion")
  BY <1>12, <1>b, ActorFacts DEF LockPthread, Finishing, StartPlaces, CreatePlaces,
     WaitPlaces, FinishPlaces, PlaceType
<1>13. ASSUME NEW t \in Tids, SutMoves(t)
       PROVE  Finishing' /\ round' = round /\ (exc' = exc \/ exc' = "assertion")
  BY <1>13, <1>b, ActorFacts DEF SutMoves, Finishing, StartPlaces, CreatePlaces,
     WaitPlaces, FinishPlaces, PlaceType
<1>14. ASSUME NEW t \in Tids, CallCreate(t)
       PROVE  Finishing' /\ round' = round /\ (exc' = exc \/ exc' = "assertion")
  BY <1>14, <1>b, ActorFacts DEF CallCreate, Finishing, StartPlaces, CreatePlaces,
     WaitPlaces, FinishPlaces, PlaceType
<1>15. ASSUME NEW t \in Tids, SetsStarted(t)
       PROVE  Finishing' /\ round' = round /\ (exc' = exc \/ exc' = "assertion")
  BY <1>15, <1>b, ActorFacts DEF SetsStarted, Finishing, StartPlaces, CreatePlaces,
     WaitPlaces, FinishPlaces, PlaceType
<1>16. ASSUME NEW t \in Tids, SendsStarted(t)
       PROVE  Finishing' /\ round' = round /\ (exc' = exc \/ exc' = "assertion")
  BY <1>16, <1>b, ActorFacts DEF SendsStarted, Put, Finishing, StartPlaces, CreatePlaces,
     WaitPlaces, FinishPlaces, PlaceType
<1>17. ASSUME NEW t \in Tids, Receives(t)
       PROVE  Finishing' /\ round' = round /\ (exc' = exc \/ exc' = "assertion")
  BY <1>17, <1>b, ActorFacts DEF Receives, Finishing, StartPlaces, CreatePlaces,
     WaitPlaces, FinishPlaces, PlaceType
<1>18. ASSUME NEW t \in Tids, Enable(t)
       PROVE  Finishing' /\ round' = round /\ (exc' = exc \/ exc' = "assertion")
  BY <1>18, <1>b, ActorFacts DEF Enable, Finishing, StartPlaces, CreatePlaces, WaitPlaces,
     FinishPlaces, PlaceType
<1>19. ASSUME NEW t \in Tids, SetEnded(t)
       PROVE  Finishing' /\ round' = round /\ (exc' = exc \/ exc' = "assertion")
  BY <1>19, <1>b, ActorFacts DEF SetEnded, Finishing, StartPlaces, CreatePlaces,
     WaitPlaces, FinishPlaces, PlaceType
<1>20. ASSUME NEW t \in Tids, SecondSignal(t)
       PROVE  Finishing' /\ round' = round /\ (exc' = exc \/ exc' = "assertion")
  BY <1>20, <1>b, ActorFacts DEF SecondSignal, Finishing, StartPlaces, CreatePlaces,
     WaitPlaces, FinishPlaces, PlaceType
<1>21. ASSUME NEW t \in Tids, Terminate(t)
       PROVE  Finishing' /\ round' = round /\ (exc' = exc \/ exc' = "assertion")
  BY <1>21, <1>b, ActorFacts DEF Terminate, Finishing, StartPlaces, CreatePlaces,
     WaitPlaces, FinishPlaces, PlaceType
<1>22. ASSUME NEW t \in Tids, NEW u \in Tids, Joins(t, u)
       PROVE  Finishing' /\ round' = round /\ (exc' = exc \/ exc' = "assertion")
  BY <1>22, <1>b, ActorFacts DEF Joins, Finishing, StartPlaces, CreatePlaces, WaitPlaces,
     FinishPlaces, PlaceType
<1>23. ASSUME MainPasses
       PROVE  Finishing' /\ round' = round /\ (exc' = exc \/ exc' = "assertion")
  BY <1>23, <1>b, ActorFacts DEF MainPasses, Finishing, StartPlaces, CreatePlaces,
     WaitPlaces, FinishPlaces, PlaceType
<1>24. ASSUME WaitTimeout
       PROVE  Finishing' /\ round' = round /\ (exc' = exc \/ exc' = "assertion")
  BY <1>24, <1>b, ActorFacts DEF WaitTimeout, Finishing, StartPlaces, CreatePlaces,
     WaitPlaces, FinishPlaces, PlaceType
<1>25. ASSUME Begin PROVE Finishing' /\ round' = round /\ (exc' = exc \/ exc' = "assertion")
  BY <1>25, <1>b, ActorFacts DEF Begin, RestartGroup, Finishing, StartPlaces,
     CreatePlaces, WaitPlaces, FinishPlaces, PlaceType
<1>26. ASSUME DriverLoaded
       PROVE  Finishing' /\ round' = round /\ (exc' = exc \/ exc' = "assertion")
  BY <1>26, <1>b, ActorFacts DEF DriverLoaded, Finishing, StartPlaces, CreatePlaces,
     WaitPlaces, FinishPlaces, PlaceType
<1>27. ASSUME NEW b \in BOOLEAN, ScriptEnds(b)
       PROVE  Finishing' /\ round' = round /\ (exc' = exc \/ exc' = "assertion")
  BY <1>27, <1>b, ActorFacts DEF ScriptEnds, Finishing, StartPlaces, CreatePlaces,
     WaitPlaces, FinishPlaces, PlaceType
<1>28. ASSUME JoinAllThreads
       PROVE  Finishing' /\ round' = round /\ (exc' = exc \/ exc' = "assertion")
  BY <1>28, <1>b, ActorFacts DEF JoinAllThreads, Finishing, StartPlaces, CreatePlaces,
     WaitPlaces, FinishPlaces, PlaceType
<1>29. ASSUME LooksAtMember
       PROVE  Finishing' /\ round' = round /\ (exc' = exc \/ exc' = "assertion")
  BY <1>29, <1>b, ActorFacts DEF LooksAtMember, Finishing, StartPlaces, CreatePlaces,
     WaitPlaces, FinishPlaces, PlaceType
<1>30. ASSUME Backtrack
       PROVE  Finishing' /\ round' = round /\ (exc' = exc \/ exc' = "assertion")
  BY <1>30, <1>b, ActorFacts DEF Backtrack, Finishing, StartPlaces, CreatePlaces,
     WaitPlaces, FinishPlaces, PlaceType
<1>31. ASSUME FinishesMember
       PROVE  Finishing' /\ round' = round /\ (exc' = exc \/ exc' = "assertion")
  BY <1>31, <1>b, ActorFacts DEF FinishesMember, Finishing, StartPlaces, CreatePlaces,
     WaitPlaces, FinishPlaces, PlaceType
<1>32. ASSUME SendsTerminate
       PROVE  Finishing' /\ round' = round /\ (exc' = exc \/ exc' = "assertion")
  BY <1>32, <1>b, ActorFacts DEF SendsTerminate, Put, Finishing, StartPlaces,
     CreatePlaces, WaitPlaces, FinishPlaces, PlaceType
<1>33. ASSUME Cancels PROVE Finishing' /\ round' = round /\ exc' = exc
  <2>1. on[Main] # Main
    BY <1>33, <1>b, OnMember, ActorFacts DEF Cancels, StartPlaces, CreatePlaces,
       FinishPlaces
  <2>2. QED
    BY <1>33, <2>1, <1>b, ActorFacts DEF Cancels, Finishing, StartPlaces, CreatePlaces,
       WaitPlaces, FinishPlaces, PlaceType
<1>34. ASSUME JoinPthread
       PROVE  Finishing' /\ round' = round /\ (exc' = exc \/ exc' = "assertion")
  BY <1>34, <1>b, ActorFacts DEF JoinPthread, Finishing, StartPlaces, CreatePlaces,
     WaitPlaces, FinishPlaces, PlaceType
<1>35. CASE Kept
  BY <1>35 DEF Kept, Finishing
<1>36. QED
  BY <1>1, <1>2, <1>3, <1>4, <1>5, <1>6, <1>7, <1>8, <1>9, <1>10, <1>11, <1>12, <1>13,
     <1>14, <1>15, <1>16, <1>17, <1>18, <1>19, <1>20, <1>21, <1>22, <1>23, <1>24, <1>25,
     <1>26, <1>27, <1>28, <1>29, <1>30, <1>31, <1>32, <1>33, <1>34, <1>35 DEF Effect

\* When all threads have ended before, they are where they wait for their restart,
\* but the one that Finish deals with and those it has done with.
LEMMA CleanPlaces ==
  ASSUME BaseInv, Finishing, CleanInv, NEW t \in Tids
  PROVE  pc[t] \in {"absent", "awaitEnd", "leave", "dead"}
<1>1. on[Main] \in Nat /\ size \in Nat /\ t \in Nat
  BY Typed, ActorFacts DEF BaseInv, TypeInv
<1>2. QED
  BY <1>1 DEF CleanInv, Done

\* ... and few steps are left.
CleanEffect ==
  \/ FinishesMember \/ SendsTerminate \/ JoinPthread
  \/ \E t \in Tids : Receives(t) \/ Terminate(t)

\* Finish then takes the steps of CleanEffect only.
LEMMA CleanSteps ==
  ASSUME BaseInv, Finishing, CleanInv, Effect \/ Kept
  PROVE  CleanEffect \/ Kept
<1>p. /\ \A t \in Tids : pc[t] \in {"absent", "awaitEnd", "leave", "dead"}
      /\ pc[Main] \in {"finish", "terminate", "joinPthread", "done"}
  BY CleanPlaces DEF CleanInv, Finishing
<1>a. \A a \in Actors :
        pc[a] \in {"absent", "awaitEnd", "leave", "dead",
                   "finish", "terminate", "joinPthread", "done"}
  BY <1>p, ActorFacts
<1>1. ASSUME NEW a \in Actors, Chooses(a) PROVE FALSE
  BY <1>1, <1>p, <1>a DEF Chooses
<1>2. ASSUME NEW a \in Actors, Spawns(a) PROVE FALSE
  BY <1>2, <1>p, <1>a DEF Spawns
<1>3. ASSUME NEW a \in Actors, Restarts(a) PROVE FALSE
  BY <1>3, <1>p, <1>a DEF Restarts
<1>4. ASSUME NEW a \in Actors, TakesStarted(a) PROVE FALSE
  BY <1>4, <1>p, <1>a DEF TakesStarted
<1>5. ASSUME NEW a \in Actors, FirstSignal(a) PROVE FALSE
  BY <1>5, <1>p, <1>a DEF FirstSignal
<1>6. ASSUME NEW a \in Actors, SendsTransfer(a) PROVE FALSE
  BY <1>6, <1>p, <1>a DEF SendsTransfer
<1>7. ASSUME NEW a \in Actors, BeginsWait(a) PROVE FALSE
  BY <1>7, <1>p, <1>a DEF BeginsWait
<1>8. ASSUME NEW a \in Actors, TakeToken(a) PROVE FALSE
  BY <1>8, <1>p, <1>a DEF TakeToken
<1>9. ASSUME NEW a \in Actors, GiveBack(a) PROVE FALSE
  BY <1>9, <1>p, <1>a DEF GiveBack
<1>10. ASSUME NEW t \in Tids, JoinReturns(t) PROVE FALSE
  BY <1>10, <1>p, <1>a DEF JoinReturns
<1>11. ASSUME NEW t \in Tids, LockPthread(t, "callCreate", "create") PROVE FALSE
  BY <1>11, <1>p, <1>a DEF LockPthread
<1>12. ASSUME NEW t \in Tids, LockPthread(t, "callJoin", "wait") PROVE FALSE
  BY <1>12, <1>p, <1>a DEF LockPthread
<1>13. ASSUME NEW t \in Tids, SutMoves(t) PROVE FALSE
  BY <1>13, <1>p, <1>a DEF SutMoves
<1>14. ASSUME NEW t \in Tids, CallCreate(t) PROVE FALSE
  BY <1>14, <1>p, <1>a DEF CallCreate
<1>15. ASSUME NEW t \in Tids, SetsStarted(t) PROVE FALSE
  BY <1>15, <1>p, <1>a DEF SetsStarted
<1>16. ASSUME NEW t \in Tids, SendsStarted(t) PROVE FALSE
  BY <1>16, <1>p, <1>a DEF SendsStarted
<1>17. ASSUME NEW t \in Tids, Enable(t) PROVE FALSE
  BY <1>17, <1>p, <1>a DEF Enable
<1>18. ASSUME NEW t \in Tids, SetEnded(t) PROVE FALSE
  BY <1>18, <1>p, <1>a DEF SetEnded
<1>19. ASSUME NEW t \in Tids, SecondSignal(t) PROVE FALSE
  BY <1>19, <1>p, <1>a DEF SecondSignal
<1>20. ASSUME NEW t \in Tids, NEW u \in Tids, Joins(t, u) PROVE FALSE
  BY <1>20, <1>p, <1>a DEF Joins
<1>21. ASSUME MainPasses PROVE FALSE
  BY <1>21, <1>p DEF MainPasses
<1>22. ASSUME WaitTimeout PROVE FALSE
  BY <1>22, <1>p DEF WaitTimeout
<1>23. ASSUME Begin PROVE FALSE
  BY <1>23, <1>p DEF Begin, RestartGroup
<1>24. ASSUME DriverLoaded PROVE FALSE
  BY <1>24, <1>p DEF DriverLoaded
<1>25. ASSUME NEW b \in BOOLEAN, ScriptEnds(b) PROVE FALSE
  BY <1>25, <1>p, <1>a DEF ScriptEnds
<1>26. ASSUME JoinAllThreads PROVE FALSE
  BY <1>26, <1>p DEF JoinAllThreads
<1>27. ASSUME LooksAtMember PROVE FALSE
  BY <1>27, <1>p DEF LooksAtMember
<1>28. ASSUME Backtrack PROVE FALSE
  BY <1>28, <1>p DEF Backtrack
<1>29. ASSUME Cancels PROVE FALSE
  BY <1>29, <1>p DEF Cancels
<1>30. QED
  BY <1>1, <1>2, <1>3, <1>4, <1>5, <1>6, <1>7, <1>8, <1>9, <1>10, <1>11, <1>12, <1>13,
     <1>14, <1>15, <1>16, <1>17, <1>18, <1>19, <1>20, <1>21, <1>22, <1>23, <1>24, <1>25,
     <1>26, <1>27, <1>28, <1>29 DEF Effect, CleanEffect

\* Finish terminates the threads one after the other, each of which answers.
LEMMA CleanStep ==
  ASSUME BaseInv, Finishing, CleanInv, Effect \/ Kept
  PROVE  CleanInv'
<1>b. TypeInv /\ LoopInv /\ PlaceType /\ OnType /\ ThreadType /\ LockType /\ OwnerInv
        /\ StatusInv
  BY DEF BaseInv, TypeInv
<1>n. on[Main] \in Nat /\ size \in Nat /\ next \in Nat
  BY <1>b, Typed, ActorFacts
<1>p. /\ \A t \in Tids : pc[t] \in {"absent", "awaitEnd", "leave", "dead"}
      /\ pc[Main] \in {"finish", "terminate", "joinPthread", "done"}
  BY CleanPlaces DEF CleanInv, Finishing
<1>m. pc[Main] \in FinishPlaces => on[Main] \in Tids
  BY <1>b, OnMember, ActorFacts
<1>1. ASSUME NEW t \in Tids, Receives(t) PROVE CleanInv'
  <2>1. pc[t] = "awaitEnd" /\ t \in woken
    BY <1>1, <1>p DEF Receives
  <2>2. t = on[Main] /\ t <= size /\ pc[Main] = "joinPthread" /\ chan[t] = "TERMINATE"
    BY <2>1, <1>n DEF CleanInv, Done, Tids
  <2>3. /\ pc' = [pc EXCEPT ![t] = "leave"] /\ chan' = [chan EXCEPT ![t] = "none"]
        /\ woken' = woken \ {t} /\ UNCHANGED <<size, status, on>>
    BY <1>1, <2>2 DEF Receives
  <2>4. pc'[Main] = pc[Main] /\ pc'[t] = "leave"
          /\ \A s \in Tids \ {t} : pc'[s] = pc[s] /\ (Done(s) => Done(s)')
    BY <2>3, <1>b, ActorFacts DEF PlaceType, ThreadType, Done
  <2>5. \A s \in Tids : s # t => ~(s = on[Main])
    BY <2>2
  <2>6. ASSUME NEW s \in Tids
        PROVE  /\ s > size' => pc'[s] = "absent"
               /\ s < on'[Main] /\ s <= size' => pc'[s] = "dead" /\ status'[s] = Terminated
               /\ on'[Main] < s /\ s <= size' => Done(s)'
               /\ s = on'[Main] /\ s <= size' => pc'[Main] = "joinPthread"
                    /\ pc'[s] = "leave"
    BY <2>2, <2>3, <2>4, <2>5, <1>n DEF CleanInv, Tids
  <2>7. pc'[Main] = "joinPthread"
    BY <2>2, <2>4
  <2>8. QED
    BY <2>6, <2>7 DEF CleanInv
<1>2. ASSUME NEW t \in Tids, Terminate(t) PROVE CleanInv'
  <2>1. pc[t] = "leave"
    BY <1>2 DEF Terminate
  <2>2. t = on[Main] /\ t <= size /\ pc[Main] = "joinPthread"
    BY <2>1, <1>n DEF CleanInv, Done, Tids
  <2>3. /\ pc' = [pc EXCEPT ![t] = "dead"] /\ status' = [status EXCEPT ![t] = Terminated]
        /\ UNCHANGED <<size, chan, woken, on>>
    BY <1>2 DEF Terminate
  <2>4. /\ pc'[Main] = pc[Main] /\ pc'[t] = "dead"
        /\ \A s \in Tids \ {t} : pc'[s] = pc[s] /\ status'[s] = status[s] /\ (Done(s)
             => Done(s)')
    BY <2>3, <1>b, ActorFacts DEF PlaceType, ThreadType, Done
  <2>5. \A s \in Tids : s # t => ~(s = on[Main])
    BY <2>2
  <2>6. ASSUME NEW s \in Tids
        PROVE  /\ s > size' => pc'[s] = "absent"
               /\ s < on'[Main] /\ s <= size' => pc'[s] = "dead" /\ status'[s] = Terminated
               /\ on'[Main] < s /\ s <= size' => Done(s)'
               /\ s = on'[Main] /\ s <= size' => pc'[Main] = "joinPthread"
                    /\ pc'[s] = "dead"
    BY <2>2, <2>3, <2>4, <2>5, <1>n DEF CleanInv, Tids
  <2>7. pc'[Main] = "joinPthread"
    BY <2>2, <2>4
  <2>8. QED
    BY <2>6, <2>7 DEF CleanInv
<1>3. CASE FinishesMember
  <2>1. \A s \in Tids : pc'[s] = pc[s] /\ (Done(s) => Done(s)')
    BY <1>3, <1>b, ActorFacts DEF FinishesMember, PlaceType, Done
  <2>2. pc[Main] = "finish" /\ UNCHANGED <<size, status, chan, woken, on>>
    BY <1>3 DEF FinishesMember
  <2>3. on[Main] <= size => on[Main] \in Tids
    BY <1>b, Typed, ActorFacts DEF GroupType, TypeInv, Tids
  <2>4. on[Main] <= size => Done(on[Main]) /\ status[on[Main]] = Ended
    BY <2>2, <2>3, <1>b DEF CleanInv, StatusInv, StatusOf, Done
  <2>5. pc'[Main] = IF on[Main] > size THEN "done" ELSE "terminate"
    BY <1>3, <2>4, <1>b, <1>n, ActorFacts DEF FinishesMember, PlaceType
  <2>6. ASSUME NEW s \in Tids
        PROVE  /\ s > size' => pc'[s] = "absent"
               /\ s < on'[Main] /\ s <= size' => pc'[s] = "dead" /\ status'[s] = Terminated
               /\ on'[Main] < s /\ s <= size' => Done(s)'
               /\ s = on'[Main] /\ s <= size' => pc'[Main] = "terminate" /\ Done(s)'
    BY <2>1, <2>2, <2>4, <2>5, <1>n DEF CleanInv, Tids
  <2>7. pc'[Main] \notin {"cancel", "finished"}
    BY <2>5
  <2>8. QED
    BY <2>6, <2>7 DEF CleanInv
<1>4. CASE SendsTerminate
  <2>1. /\ pc[Main] = "terminate" /\ pc' = [pc EXCEPT ![Main] = "joinPthread"]
        /\ chan' = [chan EXCEPT ![on[Main]] = "TERMINATE"] /\ Signal(on[Main])
        /\ UNCHANGED <<size, status, on>>
    BY <1>4 DEF SendsTerminate, Put
  <2>2. on[Main] \in Tids /\ on[Main] <= size /\ Done(on[Main])
    BY <2>1, <1>m, <1>b DEF CleanInv, LoopInv, FinishPlaces
  <2>3. woken' = woken \cup {on[Main]}
    <3>1. \A w \in Actors : pc[w] \in InWait /\ ChannelOf(w) = on[Main] => w = on[Main]
      <4>1. cmx = Nobody
        BY <1>b, <1>p, ActorFacts DEF OwnerInv, LockType, StartPlaces, CreatePlaces
      <4>2. QED
        BY <4>1, <2>2, WaitersOf DEF CreatedAt
    <3>2. pc[on[Main]] \in InWait /\ ChannelOf(on[Main]) = on[Main]
            /\ on[Main] \notin woken /\ on[Main] \in Actors
      BY <2>2, ActorFacts DEF Done, InWait, ChannelOf
    <3>3. QED
      BY <3>1, <3>2, <2>1, SignalEffect
  <2>4. /\ pc'[Main] = "joinPthread" /\ pc'[on[Main]] = "awaitEnd"
             /\ chan'[on[Main]] = "TERMINATE"
        /\ \A s \in Tids : pc'[s] = pc[s] /\ (s # on[Main] /\ Done(s) => Done(s)')
    BY <2>1, <2>2, <2>3, <1>b, ActorFacts DEF PlaceType, ThreadType, Done
  <2>6. ASSUME NEW s \in Tids
        PROVE  /\ s > size' => pc'[s] = "absent"
               /\ s < on'[Main] /\ s <= size' => pc'[s] = "dead" /\ status'[s] = Terminated
               /\ on'[Main] < s /\ s <= size' => Done(s)'
               /\ s = on'[Main] /\ s <= size' =>
                    pc'[s] = "awaitEnd" /\ chan'[s] = "TERMINATE" /\ s \in woken'
    BY <2>1, <2>2, <2>3, <2>4, <1>n DEF CleanInv, Tids
  <2>8. QED
    BY <2>4, <2>6 DEF CleanInv
<1>5. CASE JoinPthread
  <2>1. /\ pc[Main] = "joinPthread" /\ pc[on[Main]] = "dead"
             /\ pc' = [pc EXCEPT ![Main] = "finish"]
        /\ status' = [status EXCEPT ![on[Main]] = Terminated]
             /\ on' = [on EXCEPT ![Main] = on[Main] + 1]
        /\ UNCHANGED <<size, chan, woken>>
    BY <1>5, <1>p DEF JoinPthread
  <2>2. on[Main] \in Tids /\ on[Main] <= size
    BY <2>1, <1>m, <1>b DEF LoopInv, FinishPlaces
  <2>3. /\ pc'[Main] = "finish" /\ on'[Main] = on[Main] + 1
             /\ status'[on[Main]] = Terminated
        /\ \A s \in Tids : pc'[s] = pc[s] /\ (s # on[Main] => status'[s] = status[s])
             /\ (Done(s) => Done(s)')
    BY <2>1, <2>2, <1>b, ActorFacts DEF PlaceType, ThreadType, OnType, Done
  <2>4. \A s \in Tids : s < on[Main] + 1 => s < on[Main] \/ s = on[Main]
    BY <1>n DEF Tids
  <2>5. \A s \in Tids : on[Main] + 1 <= s => on[Main] < s
    BY <1>n DEF Tids
  <2>6. ASSUME NEW s \in Tids
        PROVE  /\ s > size' => pc'[s] = "absent"
               /\ s < on'[Main] /\ s <= size' => pc'[s] = "dead" /\ status'[s] = Terminated
               /\ on'[Main] < s /\ s <= size' => Done(s)'
               /\ s = on'[Main] /\ s <= size' => Done(s)'
    BY <2>1, <2>2, <2>3, <2>4, <2>5, <1>n DEF CleanInv, Tids
  <2>8. QED
    BY <2>3, <2>6 DEF CleanInv
<1>6. CASE Kept
  BY <1>6 DEF Kept, CleanInv, Done
<1>7. QED
  BY <1>1, <1>2, <1>3, <1>4, <1>5, <1>6, CleanSteps DEF CleanEffect

\* Before Finish no step terminates a thread.
LEMMA AliveStep ==
  ASSUME BaseInv, ~Finishing, Effect \/ Kept
  PROVE  AliveInv'
<1>b. TypeInv /\ ThreadType /\ AliveInv /\ \A t \in Tids : pc[t] # "leave"
  BY DEF BaseInv, TypeInv, LiveInv, ChannelInv, ChannelOK
<1>f. pc[Main] \notin {"joinPthread", "finished"}
  BY DEF Finishing
<1>1. CASE UNCHANGED status
  BY <1>1, <1>b DEF AliveInv
<1>2. ASSUME NEW t \in Tids, SetsStarted(t) \/ Enable(t) \/ SetEnded(t) \/ Terminate(t)
      PROVE  AliveInv'
  <2>1. \E x \in {Waiting, Enabled, Ended} : status' = [status EXCEPT ![t] = x]
    BY <1>2, <1>b DEF SetsStarted, Enable, SetEnded, Terminate
  <2>2. QED
    BY <2>1, <1>b DEF AliveInv, ThreadType
<1>3. CASE JoinPthread
  BY <1>3, <1>f DEF JoinPthread
<1>4. QED
  <2>1. ASSUME Effect
        PROVE  UNCHANGED status \/ JoinPthread \/ \E t \in Tids : SetsStarted(t)
                 \/ Enable(t) \/ SetEnded(t) \/ Terminate(t)
    <3>1. ASSUME NEW a \in Actors, Chooses(a) PROVE UNCHANGED status
      BY <3>1 DEF Chooses
    <3>2. ASSUME NEW a \in Actors, Spawns(a) PROVE UNCHANGED status
      BY <3>2 DEF Spawns
    <3>3. ASSUME NEW a \in Actors, Restarts(a) PROVE UNCHANGED status
      BY <3>3 DEF Restarts
    <3>4. ASSUME NEW a \in Actors, TakesStarted(a) PROVE UNCHANGED status
      BY <3>4 DEF TakesStarted
    <3>5. ASSUME NEW a \in Actors, FirstSignal(a) PROVE UNCHANGED status
      BY <3>5 DEF FirstSignal
    <3>6. ASSUME NEW a \in Actors, SendsTransfer(a) PROVE UNCHANGED status
      BY <3>6 DEF SendsTransfer
    <3>7. ASSUME NEW a \in Actors, BeginsWait(a) PROVE UNCHANGED status
      BY <3>7 DEF BeginsWait
    <3>8. ASSUME NEW a \in Actors, TakeToken(a) PROVE UNCHANGED status
      BY <3>8 DEF TakeToken
    <3>9. ASSUME NEW a \in Actors, GiveBack(a) PROVE UNCHANGED status
      BY <3>9 DEF GiveBack
    <3>10. ASSUME NEW t \in Tids, JoinReturns(t) PROVE UNCHANGED status
      BY <3>10 DEF JoinReturns
    <3>11. ASSUME NEW t \in Tids, LockPthread(t, "callCreate", "create")
           PROVE  UNCHANGED status
      BY <3>11 DEF LockPthread
    <3>12. ASSUME NEW t \in Tids, LockPthread(t, "callJoin", "wait") PROVE UNCHANGED status
      BY <3>12 DEF LockPthread
    <3>13. ASSUME NEW t \in Tids, SutMoves(t) PROVE UNCHANGED status
      BY <3>13 DEF SutMoves
    <3>14. ASSUME NEW t \in Tids, CallCreate(t) PROVE UNCHANGED status
      BY <3>14 DEF CallCreate
    <3>15. ASSUME NEW t \in Tids, SendsStarted(t) PROVE UNCHANGED status
      BY <3>15 DEF SendsStarted
    <3>16. ASSUME NEW t \in Tids, Receives(t) PROVE UNCHANGED status
      BY <3>16 DEF Receives
    <3>17. ASSUME NEW t \in Tids, SecondSignal(t) PROVE UNCHANGED status
      BY <3>17 DEF SecondSignal
    <3>18. ASSUME NEW t \in Tids, NEW u \in Tids, Joins(t, u) PROVE UNCHANGED status
      BY <3>18 DEF Joins
    <3>19. ASSUME MainPasses PROVE UNCHANGED status
      BY <3>19 DEF MainPasses
    <3>20. ASSUME WaitTimeout PROVE UNCHANGED status
      BY <3>20 DEF WaitTimeout
    <3>21. ASSUME Begin PROVE UNCHANGED status
      BY <3>21 DEF Begin, RestartGroup
    <3>22. ASSUME DriverLoaded PROVE UNCHANGED status
      BY <3>22 DEF DriverLoaded
    <3>23. ASSUME NEW b \in BOOLEAN, ScriptEnds(b) PROVE UNCHANGED status
      BY <3>23 DEF ScriptEnds
    <3>24. ASSUME JoinAllThreads PROVE UNCHANGED status
      BY <3>24 DEF JoinAllThreads
    <3>25. ASSUME LooksAtMember PROVE UNCHANGED status
      BY <3>25 DEF LooksAtMember
    <3>26. ASSUME Backtrack PROVE UNCHANGED status
      BY <3>26 DEF Backtrack
    <3>27. ASSUME FinishesMember PROVE UNCHANGED status
      BY <3>27 DEF FinishesMember
    <3>28. ASSUME SendsTerminate PROVE UNCHANGED status
      BY <3>28 DEF SendsTerminate
    <3>29. ASSUME Cancels PROVE UNCHANGED status
      BY <3>29 DEF Cancels
    <3>30. QED
      BY <2>1, <3>1, <3>2, <3>3, <3>4, <3>5, <3>6, <3>7, <3>8, <3>9, <3>10, <3>11, <3>12,
         <3>13, <3>14, <3>15, <3>16, <3>17, <3>18, <3>19, <3>20, <3>21, <3>22, <3>23,
         <3>24, <3>25, <3>26, <3>27, <3>28, <3>29 DEF Effect
  <2>2. QED
    BY <2>1, <1>1, <1>2, <1>3 DEF Kept

\* Main comes to Finish only from the end of an execution.
LEMMA FinishFrom ==
  ASSUME BaseInv, ~Finishing, Finishing', Effect \/ Kept
  PROVE  Backtrack
<1>1. ASSUME MainFrame PROVE FALSE
  BY <1>1 DEF MainFrame, Finishing, StartPlaces, CreatePlaces, WaitPlaces
<1>2. ASSUME NEW a \in Actors, Chooses(a) PROVE FALSE
  BY <1>2, ActorFacts DEF Chooses, BaseInv, TypeInv, PlaceType, Finishing
<1>3. ASSUME NEW b \in BOOLEAN, ScriptEnds(b) PROVE FALSE
  BY <1>3, ActorFacts DEF ScriptEnds, BaseInv, TypeInv, PlaceType, Finishing
<1>4. ASSUME MainPasses \/ WaitTimeout \/ Begin \/ DriverLoaded \/ JoinAllThreads
        \/ LooksAtMember
      PROVE  FALSE
  BY <1>4, ActorFacts
     DEF MainPasses, WaitTimeout, Begin, DriverLoaded, JoinAllThreads, LooksAtMember,
         BaseInv, TypeInv, PlaceType, Finishing
<1>5. QED
  BY <1>1, <1>2, <1>3, <1>4, MainSteps DEF MainMoves

\* Finish begins with all threads ended, unless JoinAllThreads has given up.
LEMMA CleanEntered ==
  ASSUME BaseInv, ~Finishing, Finishing', exc' # "assertion", round' # MaxTimeOuts, Effect \/ Kept
  PROVE  CleanInv'
<1>b. PlaceType /\ OnType /\ EndedDone /\ ChannelInv /\ GroupType
  BY DEF BaseInv, TypeInv, LiveInv, OrderInv
<1>1. /\ pc[Main] = "backtrack" /\ exc # "assertion" /\ round # MaxTimeOuts
      /\ on' = [on EXCEPT ![Main] = 1] /\ pc' = [pc EXCEPT ![Main] = "finish"]
      /\ UNCHANGED <<size, status, chan, woken>>
  <2>1. Backtrack
    BY FinishFrom
  <2>2. ~(pc' = [pc EXCEPT ![Main] = "begin"])
    BY <1>b, ActorFacts DEF PlaceType, Finishing
  <2>3. QED
    BY <2>1, <2>2 DEF Backtrack
<1>2. \A t \in Tids : (t <= size => Done(t)) /\ (t > size => pc[t] = "absent")
  BY <1>1, <1>b DEF EndedDone, AllEnded, ChannelInv, ChannelOK
<1>3. pc'[Main] = "finish" /\ on'[Main] = 1 /\ \A t \in Tids : pc'[t] = pc[t]
        /\ (Done(t) => Done(t)')
  BY <1>1, <1>b, ActorFacts DEF PlaceType, OnType, Done
<1>4. ASSUME NEW t \in Tids
      PROVE  (t > size' => pc'[t] = "absent") /\ ~(t < on'[Main]) /\ (t <= size'
               => Done(t)')
  BY <1>1, <1>2, <1>3 DEF Tids
<1>5. QED
  BY <1>3, <1>4 DEF CleanInv

\* Every step keeps the invariant, unless a timed wait expires early.
LEMMA BaseStep ==
  ASSUME ~Slow, BaseInv, Effect \/ Kept
  PROVE  BaseInv'
<1>1. TypeInv' /\ LoopInv' /\ OwnerInv' /\ RoomInv' /\ StatusInv' /\ TokenInv'
  BY TypeStep, LoopStep, OwnerStep, RoomStep, StatusStep, TokenStep DEF BaseInv
<1>2. ASSUME ~Finishing' PROVE LiveInv'
  <2>1. ~Finishing
    BY <1>2, FinishingStays
  <2>2. OrderInv'
    BY <2>1, NextStep, StartStep, WaitedStep, PassedStep, JoinedStep DEF OrderInv
  <2>3. QED
    BY <2>1, <2>2, ChannelStep, ExactStep, AliveStep DEF LiveInv
<1>3. ASSUME Finishing', exc' # "assertion", round' # MaxTimeOuts PROVE CleanInv'
  <2>1. CASE Finishing
    <3>1. exc # "assertion" /\ round # MaxTimeOuts
      BY <1>3, <2>1, FinishingStays
    <3>2. QED
      BY <2>1, <3>1, CleanStep DEF BaseInv
  <2>2. QED
    BY <1>3, <2>1, CleanEntered
<1>4. QED
  BY <1>1, <1>2, <1>3 DEF BaseInv

-----------------------------------------------------------------------------
\* The assertions of Coroutine, Channel and CoroutineGroup, one lemma for those of
\* creating and restarting a thread ...
LEMMA StartAsserts ==
  ASSUME BaseInv, ~Finishing, failed = "none", NEW a \in Actors, CreateStep(a)
  PROVE  failed' = "none" \/ (failed' = "unreachable" /\ \E t \in Tids : Stuck(t)')
<1>b. TypeInv /\ OwnerInv /\ StatusInv /\ ChannelInv /\ NextSettled /\ StartSettled
        /\ LoopInv /\ LockType
  BY DEF BaseInv, TypeInv, LiveInv, OrderInv
<1>s. pc[a] \in StartPlaces => cmx = a /\ cmx # Nobody /\ on[a] \in Tids
  BY <1>b, OnMember, ActorFacts DEF OwnerInv
<1>1. ASSUME ChooseMember(a) PROVE failed' = "none"
  <2>1. CASE next < size
    <3>1. next + 1 \in Tids /\ next < next + 1 /\ next + 1 <= size
      BY <2>1, <1>b, ActorFacts DEF TypeInv, GroupType, Tids
    <3>2. Settled(next + 1)
      BY <3>1, <1>b DEF NextSettled
    <3>3. status[next + 1] > Passive
      BY <3>1, <3>2, <1>b, Typed
         DEF Settled, Stuck, Halted, Done, StatusInv, StatusOf, Calls
    <3>4. QED
      BY <1>1, <3>3 DEF ChooseMember, Assert, IsExpected
  <2>2. CASE ~(next < size)
    BY <1>1, <2>2 DEF ChooseMember, Assert, Recreated
  <2>3. QED
    BY <2>1, <2>2
<1>2. ASSUME StartThread(a)
      PROVE  failed' = "none" \/ (failed' = "unreachable" /\ \E t \in Tids : Stuck(t)')
  <2>1. cmx = a /\ on[a] \in Tids /\ CreatedAt(on[a], {"start"})
    BY <1>2, <1>s DEF StartThread, StartPlaces, CreatePlaces, CreatedAt
  <2>2. Settled(on[a]) \/ status[on[a]] = Passive
    BY <2>1, <1>b DEF StartSettled, StatusInv, StatusOf
  <2>3. CASE failed' = "put"
    <3>1. status[on[a]] \in {Waiting, Ended} /\ chan[on[a]] # "none"
      BY <1>2, <2>3 DEF StartThread
    <3>2. Done(on[a])
      BY <2>1, <2>2, <3>1, SettledChannel
    <3>3. QED
      BY <3>1, <3>2 DEF Done
  <2>4. CASE failed' = "unreachable"
    <3>1. status[on[a]] = Enabled /\ UNCHANGED <<pc, on, plock>>
      BY <1>2, <2>4 DEF StartThread
    <3>2. ~Done(on[a])
      BY <2>1, <3>1, <1>b DEF Done, StatusInv, StatusOf
    <3>3. PICK t \in Tids : Stuck(t)
      BY <2>1, <2>2, <3>1, <3>2 DEF Settled
    <3>4. Stuck(t)'
      BY <3>1, <3>3 DEF Stuck, Halted
    <3>5. QED
      BY <2>4, <3>4
  <2>5. QED
    BY <1>2, <2>3, <2>4 DEF StartThread
<1>3. ASSUME TakeStarted(a) PROVE failed' = "none"
  <2>1. cmx = a /\ on[a] \in Tids /\ CreatedAt(on[a], {"awaitStarted"}) /\ cmx \in woken
    BY <1>3, <1>s DEF TakeStarted, Woken, StartPlaces, CreatePlaces, CreatedAt
  <2>2. ChannelOK(on[a])
    BY <2>1, <1>b DEF ChannelInv
  <2>3. chan[on[a]] = "STARTED"
    BY <2>1, <2>2 DEF ChannelOK
  <2>4. QED
    BY <1>3, <2>3 DEF TakeStarted, Assert
<1>4. ASSUME SendTransfer(a) PROVE failed' = "none"
  <2>1. on[a] \in Tids /\ CreatedAt(on[a], {"firstSignal", "transfer"})
    BY <1>4, <1>s DEF SendTransfer, StartPlaces, CreatePlaces, CreatedAt
  <2>2. ChannelOK(on[a]) /\ StatusOf(on[a])
    BY <2>1, <1>b DEF ChannelInv, StatusInv
  <2>3. status[on[a]] = Waiting /\ chan[on[a]] = "none"
    BY <2>1, <2>2 DEF ChannelOK, StatusOf
  <2>4. QED
    BY <1>4, <2>3 DEF SendTransfer, Assert
<1>5. ASSUME FirstSignal(a) PROVE failed' = "none"
  BY <1>5 DEF FirstSignal
<1>6. QED
  BY <1>1, <1>2, <1>3, <1>4, <1>5 DEF CreateStep

\* ... of waiting for one, ...
LEMMA WaitAsserts ==
  ASSUME BaseInv, ~Finishing, failed = "none", NEW a \in Actors, WaitStep(a)
  PROVE  failed' = "none"
<1>b. TypeInv /\ LoopInv /\ StatusInv /\ AliveInv /\ JoinedDone
  BY DEF BaseInv, LiveInv, OrderInv
<1>1. pc[a] \in WaitPlaces => on[a] \in Tids
  BY JoinedMember
<1>2. ASSUME BeginWait(a) PROVE failed' = "none"
  <2>1. pc[a] = "wait" /\ on[a] \in Tids
    BY <1>1, <1>2 DEF BeginWait, WaitPlaces
  <2>2. status[on[a]] # Passive
    BY <2>1, <1>b, ActorFacts DEF LoopInv, StatusInv, StatusOf, WaitPlaces
  <2>3. status[on[a]] \in {2, 3, 5}
    BY <2>1, <2>2, <1>b, Typed DEF AliveInv
  <2>4. QED
    BY <1>2, <2>3 DEF BeginWait, Assert
<1>3. ASSUME EndWait(a) PROVE failed' = "none"
  <2>1. pc[a] = "waited" /\ on[a] \in Tids
    BY <1>1, <1>3 DEF EndWait, WaitPlaces
  <2>2. status[on[a]] = Ended
    BY <2>1, <1>b DEF JoinedDone, Done, StatusInv, StatusOf
  <2>3. QED
    BY <1>3, <2>2 DEF EndWait, Assert
<1>4. QED
  BY <1>2, <1>3 DEF WaitStep, TakeToken, GiveBack

\* ... and of the thread itself.
LEMMA ThreadAsserts ==
  ASSUME BaseInv, ~Finishing \/ CleanInv, failed = "none", NEW t \in Tids,
         SetStarted(t) \/ SendStarted(t) \/ Receive(t)
  PROVE  failed' = "none"
<1>b. TypeInv /\ StatusInv /\ (~Finishing => ChannelOK(t) /\ AliveInv)
  BY DEF BaseInv, LiveInv, ChannelInv
<1>c. Finishing => pc[t] \in {"absent", "awaitEnd", "leave", "dead"}
  BY CleanPlaces
<1>1. ASSUME SetStarted(t) PROVE failed' = "none"
  BY <1>1, <1>b, <1>c, Typed DEF SetStarted, Assert, AliveInv
<1>2. ASSUME SendStarted(t) PROVE failed' = "none"
  BY <1>2, <1>b, <1>c DEF SendStarted, Assert, ChannelOK
<1>3. ASSUME Receive(t) PROVE failed' = "none"
  <2>1. t \in woken /\ pc[t] \in {"awaitTransfer", "awaitEnd"}
    BY <1>3 DEF Receive, Woken
  <2>2. CASE ~Finishing
    <3>1. chan[t] \in {"TRANSFER", "RESTART"}
      BY <2>1, <2>2, <1>b DEF ChannelOK
    <3>2. QED
      BY <1>3, <3>1 DEF Receive, Assert, Messages
  <2>3. CASE Finishing
    <3>1. on[Main] \in Nat /\ size \in Nat /\ t \in Nat /\ pc[t] = "awaitEnd" /\ CleanInv
      BY <2>1, <2>3, <1>b, <1>c, Typed, ActorFacts
    <3>2. chan[t] = "TERMINATE"
      BY <2>1, <3>1 DEF CleanInv, Done
    <3>3. QED
      BY <1>3, <3>2 DEF Receive, Assert, Messages
  <2>4. QED
    BY <2>2, <2>3
<1>4. QED
  BY <1>1, <1>2, <1>3

\* The assertions of main: all threads have ended when no wait has timed out, ...
LEMMA AllEndedAssert ==
  ASSUME BaseInv, ~Finishing, failed = "none", WaitForAllEnd
  PROVE  failed' = "none"
<1>b. TypeInv /\ StatusInv /\ PassedSettled
  BY DEF BaseInv, LiveInv, OrderInv
<1>n. on[Main] \in Nat /\ size \in 0..MaxThreads /\ timedOut \in Nat /\ MaxThreads \in Nat
  BY <1>b, Typed, ActorFacts DEF TypeInv, GroupType, MainType
<1>1. CASE on[Main] > size /\ timedOut = 0
  <2>1. ASSUME NEW t \in 1..size PROVE status[t] >= Ended
    <3>1. t \in Tids /\ t < on[Main]
      BY <1>1, <1>n DEF Tids
    <3>2. Done(t)
      BY <1>1, <3>1, <1>b DEF PassedSettled, WaitForAllEnd, MemberPlaces
    <3>3. status[t] = Ended
      BY <3>1, <3>2, <1>b DEF Done, StatusInv, StatusOf
    <3>4. QED
      BY <3>3
  <2>2. QED
    BY <2>1 DEF WaitForAllEnd, Assert, IsAllEnded
<1>2. CASE ~(on[Main] > size /\ timedOut = 0)
  BY <1>2, <1>n DEF WaitForAllEnd, Assert
<1>3. QED
  BY <1>1, <1>2

\* ... and Finish finds them waiting.
LEMMA FinishAsserts ==
  ASSUME BaseInv, Finishing, CleanInv, failed = "none",
         FinishMember \/ SendTerminate \/ Cancel
  PROVE  failed' = "none"
<1>b. TypeInv /\ LoopInv /\ StatusInv
  BY DEF BaseInv
<1>n. /\ on[Main] \in Nat /\ size \in 0..MaxThreads /\ MaxThreads \in Nat
      /\ on[Main] <= size => on[Main] \in Tids
  BY <1>b, Typed, ActorFacts DEF TypeInv, GroupType, Tids
<1>1. ASSUME FinishMember PROVE failed' = "none"
  <2>1. on[Main] <= size => Done(on[Main])
    BY <1>1, <1>n DEF FinishMember, CleanInv
  <2>2. on[Main] <= size => status[on[Main]] = Ended
    BY <2>1, <1>n, <1>b DEF Done, StatusInv, StatusOf
  <2>3. on[Main] > size \/ status[on[Main]] > Passive
    BY <2>2, <1>n
  <2>4. QED
    BY <1>1, <2>3 DEF FinishMember, Assert
<1>2. ASSUME SendTerminate PROVE failed' = "none"
  <2>1. on[Main] <= size /\ on[Main] \in Tids
    BY <1>2, <1>b, <1>n DEF SendTerminate, LoopInv, FinishPlaces
  <2>2. chan[on[Main]] = "none"
    BY <1>2, <2>1 DEF CleanInv, Done, SendTerminate
  <2>3. QED
    BY <1>2, <2>2 DEF SendTerminate, Assert
<1>3. ASSUME Cancel PROVE FALSE
  BY <1>3 DEF Cancel, CleanInv
<1>4. QED
  BY <1>1, <1>2, <1>3

\* No assertion fails but the two that are known to.
LEMMA AbortStep ==
  ASSUME BaseInv, Next
  PROVE  NoAbort'
<1>f. failed = "none"
  BY DEF Next
<1>t. Effect \/ Kept
  BY StepEffect DEF BaseInv
<1>p. pc[Main] \in MainPlaces \cup CreatePlaces \cup WaitPlaces
  BY DEF BaseInv, TypeInv, PlaceType
<1>1. CASE Finishing /\ (exc = "assertion" \/ round = MaxTimeOuts)
  BY <1>1, <1>t, FinishingStays DEF NoAbort
<1>2. CASE ~Finishing \/ CleanInv
  <2>1. ASSUME NEW a \in Actors, CreateStep(a) PROVE NoAbort'
    <3>1. ~Finishing
      <4>1. pc[a] \in CreatePlaces
        BY <2>1 DEF CreateStep, ChooseMember, StartThread, TakeStarted, FirstSignal,
           SendTransfer, CreatePlaces
      <4>2. QED
        BY <4>1, <1>2, CleanPlaces, ActorFacts DEF Finishing, CreatePlaces
    <3>2. QED
      BY <1>f, <2>1, <3>1, StartAsserts DEF NoAbort
  <2>2. ASSUME NEW a \in Actors, WaitStep(a) PROVE NoAbort'
    <3>1. ~Finishing
      <4>1. pc[a] \in WaitPlaces
        BY <2>2 DEF WaitStep, BeginWait, TakeToken, GiveBack, EndWait, WaitPlaces
      <4>2. QED
        BY <4>1, <1>2, CleanPlaces, ActorFacts DEF Finishing, WaitPlaces
    <3>2. QED
      BY <1>f, <2>2, <3>1, WaitAsserts DEF NoAbort
  <2>3. ASSUME NEW t \in Tids, SetStarted(t) \/ SendStarted(t) \/ Receive(t) PROVE NoAbort'
    BY <1>2, <1>f, <2>3, ThreadAsserts DEF NoAbort
  <2>4. CASE WaitForAllEnd
    BY <1>f, <2>4, AllEndedAssert DEF NoAbort, Finishing, WaitForAllEnd
  <2>5. CASE FinishMember \/ SendTerminate \/ Cancel
    <3>1. Finishing
      BY <2>5 DEF Finishing, FinishMember, SendTerminate, Cancel
    <3>2. QED
      BY <1>2, <1>f, <2>5, <3>1, FinishAsserts DEF NoAbort
  <2>6. ASSUME NEW t \in Tids, SutStep(t) PROVE failed' = "none"
    BY <1>f, <2>6 DEF SutStep, ReturnOrRaise, CallCreate, CallExit, Hang, CallJoin
  <2>7. ASSUME NEW t \in Tids,
               \/ LockPthread(t, "callCreate", "create")
                    \/ LockPthread(t, "callJoin", "wait")
               \/ Exit(t) \/ Enable(t) \/ SetEnded(t) \/ SecondSignal(t) \/ Terminate(t)
        PROVE  failed' = "none"
    BY <1>f, <2>7 DEF LockPthread, Exit, Enable, SetEnded, SecondSignal, Terminate
  <2>8. ASSUME NEW b \in BOOLEAN, ScriptEnds(b) PROVE failed' = "none"
    BY <1>f, <2>8 DEF ScriptEnds
  <2>9. CASE WaitTimeout \/ Begin \/ DriverLoaded \/ JoinAllThreads \/ Backtrack
          \/ JoinPthread
    BY <1>f, <2>9 DEF WaitTimeout, Begin, DriverLoaded, JoinAllThreads, Backtrack,
       JoinPthread, NoAbort
  <2>10. ASSUME NEW t \in Tids, ThreadStep(t) PROVE NoAbort'
    <3>1. failed' = "none" => NoAbort'
      BY DEF NoAbort
    <3>2. QED
      BY <2>1, <2>2, <2>3, <2>6, <2>7, <2>10, <3>1, ActorFacts DEF ThreadStep
  <2>11. CASE MainStep
    <3>1. failed' = "none" => NoAbort'
      BY DEF NoAbort
    <3>2. QED
      BY <2>1, <2>2, <2>4, <2>5, <2>8, <2>9, <2>11, <3>1, ActorFacts DEF MainStep
  <2>12. QED
    BY <2>10, <2>11 DEF Next
<1>3. QED
  BY <1>1, <1>2 DEF BaseInv

-----------------------------------------------------------------------------
\* The threads joined are threads, and failed names an assertion.
LEMMA FlagStep ==
  ASSUME FlagInv, Next
  PROVE  FlagInv'
<1>f. failed = "none" /\ joined \subseteq Tids
  BY DEF Next, FlagInv
<1>1. ASSUME NEW a \in Actors, CreateStep(a) PROVE FlagInv'
  BY <1>1, <1>f
     DEF CreateStep, ChooseMember, StartThread, TakeStarted, FirstSignal, SendTransfer, Assert,
         FlagInv
<1>2. ASSUME NEW a \in Actors, WaitStep(a) PROVE FlagInv'
  BY <1>2, <1>f DEF WaitStep, BeginWait, TakeToken, GiveBack, EndWait, Assert, FlagInv
<1>3. ASSUME NEW t \in Tids, SutStep(t) PROVE FlagInv'
  BY <1>3, <1>f DEF SutStep, ReturnOrRaise, CallCreate, CallExit, Hang, CallJoin, FlagInv
<1>4. ASSUME NEW t \in Tids,
             \/ LockPthread(t, "callCreate", "create") \/ LockPthread(t, "callJoin", "wait")
             \/ Exit(t) \/ Enable(t) \/ SetEnded(t) \/ SecondSignal(t) \/ Terminate(t)
      PROVE  FlagInv'
  BY <1>4, <1>f DEF LockPthread, Exit, Enable, SetEnded, SecondSignal, Terminate, FlagInv
<1>5. ASSUME NEW t \in Tids, SetStarted(t) \/ SendStarted(t) \/ Receive(t) PROVE FlagInv'
  BY <1>5, <1>f DEF SetStarted, SendStarted, Receive, Assert, FlagInv
<1>6. CASE \/ WaitForAllEnd \/ FinishMember \/ SendTerminate \/ Cancel
  BY <1>6, <1>f DEF WaitForAllEnd, FinishMember, SendTerminate, Cancel, Assert, FlagInv
<1>7. CASE WaitTimeout \/ Begin \/ DriverLoaded \/ JoinAllThreads \/ Backtrack
        \/ JoinPthread
  BY <1>7, <1>f
     DEF WaitTimeout, Begin, DriverLoaded, JoinAllThreads, Backtrack, JoinPthread, FlagInv
<1>8. ASSUME NEW b \in BOOLEAN, ScriptEnds(b) PROVE FlagInv'
  BY <1>8, <1>f DEF ScriptEnds, FlagInv
<1>9. ASSUME NEW t \in Tids, ThreadStep(t) PROVE FlagInv'
  BY <1>1, <1>2, <1>3, <1>4, <1>5, <1>9, ActorFacts DEF ThreadStep
<1>10. CASE MainStep
  BY <1>1, <1>2, <1>6, <1>7, <1>8, <1>10, ActorFacts DEF MainStep
<1>11. QED
  BY <1>9, <1>10 DEF Next

\* The invariant holds before the first execution: nobody holds a lock, no thread
\* has been created, and main is at its beginning.
LEMMA InitHolds == Init => GroupInv
<1> SUFFICES ASSUME Init PROVE GroupInv
  OBVIOUS
<1>a. /\ size = 0 /\ next = 0 /\ mx = Nobody /\ cmx = Nobody /\ plock = Nobody /\ woken = {}
      /\ status = [t \in Tids |-> Passive] /\ chan = [t \in Tids |-> "none"]
      /\ sem = [t \in Tids |-> 0] /\ on = [a \in Actors |-> Driver]
      /\ pc[Main] = "begin" /\ \A t \in Tids : pc[t] = "absent" /\ t # Main
  BY ActorFacts DEF Init
<1>t. TypeInv
  <2>1. GroupType /\ LockType
    BY <1>a, ActorFacts DEF GroupType, LockType
  <2>5. ThreadType
    BY <1>a DEF ThreadType, Statuses
  <2>6. MainType
    <3>1. round = 0 /\ timedOut = 0 /\ execs = 0 /\ loaded = FALSE /\ exc = "none"
      BY DEF Init
    <3>2. 0 \in -1..MaxTimeOuts /\ 0 \in 0..MaxThreads /\ 0 \in 0..MaxExecutions
      BY ActorFacts
    <3>3. QED
      BY <3>1, <3>2 DEF MainType
  <2>2. PlaceType
    BY ActorFacts DEF Init, PlaceType, MainPlaces, ThreadPlaces
  <2>3. OnType
    BY <1>a, ActorFacts DEF OnType, Tids, Actors, Driver
  <2>4. QED
    BY <2>1, <2>2, <2>3, <2>5, <2>6 DEF TypeInv
<1>1. LoopInv
  BY <1>a, ActorFacts
     DEF LoopInv, MemberPlaces, WaitPlaces, FinishPlaces, StartPlaces, CreatePlaces
<1>2. OwnerInv
  BY <1>a, ActorFacts DEF OwnerInv, StartPlaces, CreatePlaces, WaitPlaces
<1>3. RoomInv
  <2>1. Callers = {}
    BY <1>a DEF Callers
  <2>2. QED
    BY <2>1, <1>a, FS_EmptySet, ActorFacts DEF RoomInv
<1>4. StatusInv
  BY <1>a DEF StatusInv, StatusOf, CreatedAt, Running, Calls, CreatePlaces, WaitPlaces
<1>5. TokenInv /\ ExactInv
  <2>1. ASSUME NEW s \in Tids PROVE Tokens(s) = 0
    BY <2>1, <1>a DEF Tokens, Share, JoinShare
  <2>2. QED
    BY <2>1, <1>a DEF TokenInv, TokensOf, ExactInv, ExactOf, CreatedAt, Tids
<1>6. ChannelInv
  BY <1>a DEF ChannelInv, ChannelOK, CreatedAt, Tids
<1>7. OrderInv
  <2>1. \A t \in Tids : ~(t <= size)
    BY <1>a DEF Tids
  <2>2. NextSettled /\ WaitedSettled /\ StartSettled
    BY <1>a, <2>1 DEF NextSettled, WaitedSettled, StartSettled, CreatedAt
  <2>3. EndedDone /\ PassedSettled /\ JoinedDone
    BY <1>a, <2>1, ActorFacts DEF EndedDone, AllEnded, PassedSettled, MemberPlaces,
       WaitPlaces, JoinedDone
  <2>4. QED
    BY <2>2, <2>3 DEF OrderInv
<1>8. AliveInv /\ ~Finishing
  BY <1>a DEF AliveInv, Finishing
<1>9. FlagInv /\ NoAbort
  BY DEF Init, FlagInv, NoAbort
<1>10. QED
  BY <1>t, <1>1, <1>2, <1>3, <1>4, <1>5, <1>6, <1>7, <1>8, <1>9 DEF GroupInv, BaseInv,
     LiveInv

\* The invariant of the group, for any number of threads, executions and turns of
\* JoinAllThreads, when no timed wait of main expires that would succeed.
THEOREM GroupCorrect == ASSUME ~Slow PROVE Spec => []GroupInv
<1>1. GroupInv /\ [Next]_vars => GroupInv'
  <2>1. CASE GroupInv /\ Next
    <3>1. BaseInv /\ FlagInv /\ (Effect \/ Kept)
      BY <2>1, StepEffect DEF GroupInv, BaseInv
    <3>2. QED
      BY <2>1, <3>1, BaseStep, FlagStep, AbortStep DEF GroupInv
  <2>2. CASE GroupInv /\ UNCHANGED vars
    <3>1. Kept /\ UNCHANGED <<joined, failed>>
      BY <2>2 DEF Kept
    <3>2. FlagInv'
      BY <2>2, <3>1 DEF GroupInv, FlagInv
    <3>3. NoAbort'
      BY <2>2, <3>1 DEF GroupInv, NoAbort, Kept, Stuck, Halted, Finishing
    <3>4. QED
      BY <2>2, <3>1, <3>2, <3>3, BaseStep DEF GroupInv
  <2>3. QED
    BY <2>1, <2>2
<1>2. QED
  BY <1>1, InitHolds, PTL DEF Spec

\* Types, and sem_end_ never counts more than its two tokens.
THEOREM TypeCorrect == ASSUME ~Slow PROVE Spec => []TypeOK
<1>1. GroupInv => TypeOK
  <2>1. SUFFICES ASSUME GroupInv PROVE TypeOK
    OBVIOUS
  <2>2. BaseInv /\ FlagInv /\ TypeInv /\ TokenInv
    BY <2>1 DEF GroupInv, BaseInv
  <2>3. ASSUME NEW s \in Tids PROVE sem[s] \in 0..2
    BY <2>2, ShareNat DEF TokenInv, TokensOf
  <2>4. sem \in [Tids -> 0..2]
    BY <2>2, <2>3 DEF TypeInv, ThreadType
  <2>5. QED
    BY <2>2, <2>4, ActorFacts
       DEF TypeOK, FlagInv, TypeInv, GroupType, ThreadType, LockType, PlaceType, OnType, MainType
<1>2. QED
  BY <1>1, GroupCorrect, PTL

\* No assertion of Coroutine, Channel and CoroutineGroup fails but the two that are
\* known to: unreachable() in Start, for a thread stuck in an earlier execution, and
\* those of a Finish that has given up on a thread or leaves one running.
THEOREM NoAbortCorrect == ASSUME ~Slow PROVE Spec => []NoAbort
<1>1. GroupInv => NoAbort
  BY DEF GroupInv
<1>2. QED
  BY <1>1, GroupCorrect, PTL

\* The size of a set of at most two elements.
LEMMA CountTwo ==
  ASSUME NEW S, NEW x, NEW y, x # y, S \subseteq {x, y}
  PROVE  Cardinality(S) = (IF x \in S THEN 1 ELSE 0) + (IF y \in S THEN 1 ELSE 0)
<1>1. S = {} \/ S = {x} \/ S = {y} \/ S = {x} \cup {y}
  OBVIOUS
<1>2. Cardinality({}) = 0 /\ Cardinality({x}) = 1 /\ Cardinality({y}) = 1
  BY FS_EmptySet, FS_Singleton
<1>3. Cardinality({x} \cup {y}) = 2
  <2>1. IsFiniteSet({x}) /\ y \notin {x}
    BY FS_Singleton
  <2>2. Cardinality({x} \cup {y}) = Cardinality({x}) + 1
    BY <2>1, FS_AddElement
  <2>3. QED
    BY <1>2, <2>2
<1>4. QED
  BY <1>1, <1>2, <1>3

\* The tokens in hand are main's and those of the one pthread_join under way.
LEMMA HeldIsShared ==
  ASSUME BaseInv, NEW s \in Tids
  PROVE  Held(s) = Share(Main, s) + JoinShare(s)
<1>b. OwnerInv /\ LockType
  BY DEF BaseInv, TypeInv
<1> DEFINE Those(l) == {a \in Actors : on[a] = s /\ pc[a] = l}
<1>1. plock # Main /\ (plock \in Tids \/ plock = Nobody)
  BY <1>b, ActorFacts DEF LockType
<1>2. Those("token2") \subseteq {Main, plock} /\ Those("giveBack") \subseteq {Main, plock}
  BY <1>b, ActorFacts DEF OwnerInv, WaitPlaces
<1>3. /\ Cardinality(Those("token2")) =
           (IF Main \in Those("token2") THEN 1 ELSE 0)
           + (IF plock \in Those("token2") THEN 1 ELSE 0)
      /\ Cardinality(Those("giveBack")) =
           (IF Main \in Those("giveBack") THEN 1 ELSE 0)
           + (IF plock \in Those("giveBack") THEN 1 ELSE 0)
  BY <1>1, <1>2, CountTwo
<1>4. Held(s) = Cardinality(Those("token2")) + 2 * Cardinality(Those("giveBack"))
  BY DEF Held
<1>5. QED
  BY <1>1, <1>3, <1>4, ActorFacts DEF Share, JoinShare

\* The tokens of a thread are one when it has started and two when it has ended, in
\* sem_end_ or in a waiter's hand, and nobody has one when Start resets sem_end_.
THEOREM TokensCorrect == ASSUME ~Slow PROVE Spec => []EndTokens
<1>1. GroupInv => EndTokens
  <2>1. SUFFICES ASSUME GroupInv, ~Finishing, NEW s \in 1..size
        PROVE  IF Starting(s) THEN Held(s) = 0
               ELSE sem[s] + Held(s) = IF status[s] = Ended
                 /\ ~At(s, "secondSignal") THEN 2 ELSE 1
    BY DEF EndTokens
  <2>2. BaseInv /\ TypeInv /\ OwnerInv /\ LockType /\ StatusInv /\ ExactInv /\ ChannelInv
    BY <2>1 DEF GroupInv, BaseInv, LiveInv, TypeInv
  <2>3. s \in Tids /\ s <= size
    BY <2>1, <2>2, ActorFacts DEF TypeInv, GroupType, Tids
  <2>4. Starting(s) <=> CreatedAt(s, ResetPlaces)
    BY <2>2, ActorFacts
       DEF Starting, CreatedAt, ResetPlaces, OwnerInv, LockType, StartPlaces, CreatePlaces
  <2>5. CASE Starting(s)
    <3>1. Held(s) = 0
      BY <2>2, <2>3, <2>4, <2>5, NoShareWhenStarted, HeldIsShared
    <3>2. QED
      BY <2>5, <3>1
  <2>6. CASE ~Starting(s)
    <3>1. Tokens(s) = IF pc[s] = "awaitEnd" THEN 2 ELSE 1
      BY <2>2, <2>3, <2>4, <2>6 DEF ExactInv, ExactOf
    <3>2. Tokens(s) = sem[s] + Held(s)
      BY <2>2, <2>3, HeldIsShared, ShareNat DEF Tokens
    <3>3. StatusOf(s) /\ ChannelOK(s) /\ ~CreatedAt(s, {"awaitStarted"})
      BY <2>2, <2>3, <2>4, <2>6 DEF StatusInv, ChannelInv, CreatedAt, ResetPlaces
    <3>4. pc[s] \in ThreadPlaces \cup CreatePlaces \cup WaitPlaces
      BY <2>2, <2>3 DEF TypeInv, PlaceType
    <3>5. pc[s] = "awaitEnd" <=> status[s] = Ended /\ pc[s] # "secondSignal"
      BY <3>3, <3>4 DEF StatusOf, ChannelOK, Running, Calls, ThreadPlaces, CreatePlaces,
         WaitPlaces
    <3>6. QED
      BY <2>6, <3>1, <3>2, <3>5
  <2>7. QED
    BY <2>5, <2>6
<1>2. QED
  BY <1>1, GroupCorrect, PTL

\* An execution begins when each thread of the group waits for its restart or is
\* stuck in the code under test.
THEOREM IsolatedCorrect == ASSUME ~Slow PROVE Spec => []Isolated
<1>1. GroupInv => Isolated
  <2>1. SUFFICES ASSUME GroupInv, pc[Main] = "begin", NEW t \in 1..size
        PROVE  Stuck(t) \/ (pc[t] = "awaitEnd" /\ status[t] = Ended /\ chan[t] = "none")
    BY DEF Isolated
  <2>2. TypeInv /\ StatusInv /\ WaitedSettled
    BY <2>1 DEF GroupInv, BaseInv, LiveInv, OrderInv, Finishing
  <2>3. t \in Tids /\ t <= size
    BY <2>1, <2>2, ActorFacts DEF TypeInv, GroupType, Tids
  <2>4. Settled(t)
    BY <2>1, <2>2, <2>3 DEF WaitedSettled, Waited
  <2>5. QED
    BY <2>2, <2>3, <2>4 DEF Settled, Done, StatusInv, StatusOf
<1>2. QED
  BY <1>1, GroupCorrect, PTL

\* The one that a message in a channel is for has been signalled.
THEOREM MessageCorrect == ASSUME ~Slow PROVE Spec => []MessageHasReader
<1>1. GroupInv => MessageHasReader
  <2>1. SUFFICES ASSUME GroupInv, ~Finishing, NEW s \in Tids, chan[s] # "none"
        PROVE  \E a \in woken : pc[a] \in InWait /\ ChannelOf(a) = s
    BY DEF MessageHasReader
  <2>2. ChannelOK(s)
    BY <2>1 DEF GroupInv, BaseInv, LiveInv, ChannelInv
  <2>3. CASE s \in woken /\ pc[s] \in {"awaitTransfer", "awaitEnd"}
    BY <2>3 DEF InWait, ChannelOf
  <2>4. CASE cmx \in woken /\ CreatedAt(s, {"awaitStarted"})
    BY <2>4 DEF InWait, ChannelOf, CreatedAt
  <2>5. QED
    BY <2>1, <2>2, <2>3, <2>4 DEF ChannelOK
<1>2. QED
  BY <1>1, GroupCorrect, PTL

=============================================================================
