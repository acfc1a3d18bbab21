------------------------- MODULE RendezvousProofs -------------------------
(***************************************************************************)
(* Proofs about Rendezvous, for every set of threads, every script, every  *)
(* choice of the behaviours and every bound of the semaphore.              *)
(***************************************************************************)
EXTENDS Rendezvous, TLAPS

USE DEF Coroutines, At, Goto, Stopped, refVars, coVars

\* What ReleaseRef leaves in the state, whoever calls it.
LEMMA ReleaseRefTypes ==
  ASSUME TypeOK, NEW c, NEW value \in RefValues,
         NEW added \in Seq(Nodes \cup {EndNode}), ReleaseRef(c, value, added)
  PROVE  /\ ref' \in RefValues
         /\ owner' = NULL
         /\ path' \in Seq(Nodes \cup {EndNode})
         /\ aborted' \in Assertions \cup {"none"}
         /\ aborted' = "none" => aborted = "none"
         /\ UNCHANGED <<sem, mutex, prev, pinOn>>
<1>1. path' \in Seq(Nodes \cup {EndNode})
  BY DEF ReleaseRef, TypeOK
<1>2. QED
  BY <1>1 DEF ReleaseRef, Check, TypeOK, Assertions

\* Where the catch block of RunTestCase takes main.
LEMMA MainThrowsTypes ==
  ASSUME TypeOK, NEW r \in Exceptions \cup {"SUCCESS"}, MainThrows(r)
  PROVE  \E l \in {"exchange", "force"}, g \in {"endSuccess", "endException"},
            x \in Exceptions \cup {"SUCCESS"} :
              /\ pc' = [pc EXCEPT ![Main] = l]
              /\ goal' = [goal EXCEPT ![Main] = g]
              /\ err' = [err EXCEPT ![Main] = x]
BY DEF MainThrows, Catch, TypeOK, Exceptions, BacktrackReasons

\* One-element paths are sequences of path elements.
LEMMA Singletons ==
  /\ \A n \in Nodes \cup {EndNode} : <<n>> \in Seq(Nodes \cup {EndNode})
  /\ <<>> \in Seq(Nodes \cup {EndNode})
OBVIOUS

\* A throw that reaches RunTestCase with no decision of main's pending.
LEMMA ThrowKeepsTypeInv ==
  ASSUME TypeInv, ~Stopped, NEW r \in Exceptions \cup {"SUCCESS"}, MainThrows(r),
         sem' \in 0..MaxSem, out' = [out EXCEPT ![Main] = "none"],
         aborted' \in Assertions \cup {"none"},
         UNCHANGED <<ref, owner, path, node, prev, mutex, exc, stmt, pinOn>>
  PROVE  TypeInv'
<1>1. PICK l \in {"exchange", "force"}, g \in {"endSuccess", "endException"},
           x \in Exceptions \cup {"SUCCESS"} :
        /\ pc' = [pc EXCEPT ![Main] = l]
        /\ goal' = [goal EXCEPT ![Main] = g]
        /\ err' = [err EXCEPT ![Main] = x]
  BY MainThrowsTypes DEF TypeInv
<1>2. TypeOK'
  BY <1>1, RendezvousAssumption DEF TypeInv, TypeOK, Goals, MainLabels, Decisions
<1>3. QED
  BY <1>1, <1>2, RendezvousAssumption DEF TypeInv, TypeOK

\* TypeInv holds initially.
LEMMA TypeInit == Init => TypeInv
BY RendezvousAssumption
DEF Init, TypeInv, TypeOK, RefValues, Empty, Goals, AcquireModes, ThreadLabels,
    MainLabels, Decisions, Exceptions, Assertions

\* Every step of Next keeps TypeInv.
LEMMA TypeStep == TypeInv /\ [Next]_vars => TypeInv'
<1> USE RendezvousAssumption
    DEF TypeInv, TypeOK, Goals, ThreadLabels, MainLabels, Decisions, Exceptions,
        BacktrackReasons, NonBacktrack
<1> SUFFICES ASSUME TypeInv, [Next]_vars PROVE TypeInv'
  OBVIOUS
<1>1. ASSUME NEW c \in Coroutines, Exchange(c) PROVE TypeInv'
  BY <1>1 DEF Exchange, RefValues
<1>2. ASSUME NEW c \in Coroutines, ExchangeOwned(c) PROVE TypeInv'
  BY <1>2 DEF ExchangeOwned, Check, Mode, AcquireModes, Assertions
<1>3. ASSUME NEW c \in Coroutines, ResolveLock(c) PROVE TypeInv'
  BY <1>3 DEF ResolveLock, Check, Mode, AcquireModes, Assertions
<1>4. ASSUME NEW c \in Coroutines, ResolveRestore(c) PROVE TypeInv'
  BY <1>4 DEF ResolveRestore, Mode
<1>5. ASSUME NEW c \in Coroutines, ResolveEnd(c) PROVE TypeInv'
  BY <1>5 DEF ResolveEnd, RefValues
<1>6. ASSUME NEW c \in Coroutines, SemWait(c) PROVE TypeInv'
  BY <1>6 DEF SemWait
<1>7. ASSUME NEW c \in Coroutines, SemSignal(c) PROVE TypeInv'
  BY <1>7 DEF SemSignal, Signalled
<1>8. ASSUME NEW c \in Coroutines, FoundByException(c) PROVE TypeInv'
  BY <1>8 DEF FoundByException
<1>9. ASSUME NEW c \in Coroutines, WriteException(c) PROVE TypeInv'
  BY <1>9 DEF WriteException
<1>10. ASSUME NEW c \in Coroutines, InsertEnd(c) PROVE TypeInv'
  <2>1. ReleaseRef(c, EndNode, <<EndNode>>)
    BY <1>10 DEF InsertEnd
  <2>2. QED
    BY ZenonT(40), <1>10, <2>1, Singletons, ReleaseRefTypes DEF InsertEnd, RefValues, AddException
<1>11. ASSUME NEW c \in Coroutines, PostException(c) PROVE TypeInv'
  BY <1>11 DEF PostException, Signalled
<1>12. ASSUME NEW t \in Threads, BeginTransition(t) PROVE TypeInv'
  BY <1>12 DEF BeginTransition
<1>13. ASSUME NEW t \in Threads, FoundByTransition(t) PROVE TypeInv'
  BY <1>13 DEF FoundByTransition, Return, RefValues, Empty
<1>14. ASSUME NEW t \in Threads, Eval(t) PROVE TypeInv'
  BY <1>14 DEF Eval, Check, Assertions, Outcomes, Consuming, Broadcast
<1>15. ASSUME NEW t \in Threads, EvalViolation(t) PROVE TypeInv'
  BY <1>15 DEF EvalViolation
<1>16. ASSUME NEW t \in Threads, LockMutex(t) PROVE TypeInv'
  BY <1>16 DEF LockMutex
<1>17. ASSUME NEW t \in Threads, ReleaseTransition(t) PROVE TypeInv'
  <2>1. node[t] \in Nodes /\ goal[t] = "transition"
    BY <1>17 DEF ReleaseTransition
  <2>2. \E value \in RefValues, added \in Seq(Nodes \cup {EndNode}) :
           ReleaseRef(t, value, added)
    BY <1>17, <2>1, Singletons DEF ReleaseTransition, RefValues
  <2>3. TypeOK'
    BY <1>17, <2>2, ReleaseRefTypes DEF ReleaseTransition
  <2>4. QED
    BY <1>17, <2>1, <2>2, <2>3, ReleaseRefTypes DEF ReleaseTransition
<1>18. ASSUME NEW t \in Threads, PostTransition(t) PROVE TypeInv'
  <2>1. t # Main /\ sem' \in 0..MaxSem
    BY <1>18 DEF PostTransition, Signalled
  <2>2. CASE out[t] \in Taking
    <3>1. /\ pc' = [pc EXCEPT ![t] = "idle"]
          /\ goal' = [goal EXCEPT ![t] = "endException"]
          /\ node' = [node EXCEPT ![t] = NULL]
          /\ out' = [out EXCEPT ![t] = "none"]
          /\ prev' = [prev EXCEPT ![t] = NULL]
          /\ err' = [err EXCEPT ![t] = "SUCCESS"]
          /\ UNCHANGED <<ref, owner, path, mutex, exc, stmt, pinOn, aborted>>
      BY <1>18, <2>2 DEF PostTransition, Return
    <3>2. TypeOK'
      BY <2>1, <3>1 DEF RefValues, Empty
    <3>3. QED
      BY <2>1, <3>1, <3>2
  <2>3. CASE out[t] \notin Taking
    <3>1. /\ node[t] \in Nodes
          /\ prev' = [prev EXCEPT ![t] = node[t]]
          /\ \E l \in {"exchange", "park"} : pc' = [pc EXCEPT ![t] = l]
          /\ UNCHANGED <<goal, node, out, err, ref, owner, path, mutex, exc, stmt, pinOn,
                         aborted>>
      BY <1>18, <2>3 DEF PostTransition
    <3>2. TypeOK'
      BY <2>1, <3>1
    <3>3. QED
      BY <1>18, <2>1, <3>1, <3>2 DEF PostTransition
  <2>4. QED
    BY <2>2, <2>3
<1>19. ASSUME NEW t \in Threads, Park(t) PROVE TypeInv'
  BY <1>19 DEF Park
<1>20. ASSUME NEW t \in Threads, CondTimeout(t) PROVE TypeInv'
  BY <1>20 DEF CondTimeout
<1>21. ASSUME NEW t \in Threads, CondSpurious(t) PROVE TypeInv'
  BY <1>21 DEF CondSpurious
<1>22. ASSUME NEW t \in Threads, Reacquire(t) PROVE TypeInv'
  BY <1>22 DEF Reacquire
<1>23. ASSUME NEW t \in Threads, NEW e \in SutCalls, Raise(t, e) PROVE TypeInv'
  BY <1>23 DEF Raise
<1>24. ASSUME NEW t \in Threads, NotifyWaiters(t) PROVE TypeInv'
  BY <1>24 DEF NotifyWaiters, Broadcast, Return, RefValues, Empty
<1>25. ASSUME NEW t \in Threads, ThreadEnd(t) PROVE TypeInv'
  BY <1>25 DEF ThreadEnd
<1>26. ASSUME SpinTimeout PROVE TypeInv'
  <2>1. CASE goal[Main] = "endSuccess"
    BY <1>26, <2>1 DEF SpinTimeout, Check, Assertions
  <2>2. CASE goal[Main] # "endSuccess"
    <3>1. out[Main] = "none" /\ MainThrows("TIMEOUT") /\ UNCHANGED aborted
      BY <1>26, <2>2 DEF SpinTimeout
    <3>2. QED
      BY <1>26, <3>1, ThrowKeepsTypeInv DEF SpinTimeout
  <2>3. QED
    BY <2>1, <2>2
<1>27. ASSUME WaitTimeout PROVE TypeInv'
  <2>1. out[Main] = "none" /\ MainThrows("TIMEOUT")
    BY <1>27 DEF WaitTimeout
  <2>2. QED
    BY <1>27, <2>1, ThrowKeepsTypeInv DEF WaitTimeout
<1>28. ASSUME ElapsedTimeout PROVE TypeInv'
  <2>1. out[Main] = "none" /\ MainThrows("TIMEOUT")
    BY <1>28 DEF ElapsedTimeout
  <2>2. QED
    BY <1>28, <2>1, ThrowKeepsTypeInv DEF ElapsedTimeout, Signalled
<1>29. ASSUME BeginStatement PROVE TypeInv'
  <2>1. out[Main] = "none"
    BY <1>29 DEF BeginStatement
  <2>2. CASE MainThrows("THREADS_ALLENDED")
    BY <1>29, <2>1, <2>2, ThrowKeepsTypeInv DEF BeginStatement
  <2>3. CASE ~MainThrows("THREADS_ALLENDED")
    <3>1. /\ goal' = [goal EXCEPT ![Main] = "submit"]
          /\ pc' = [pc EXCEPT ![Main] = "exchange"]
          /\ UNCHANGED err
      BY <1>29, <2>3 DEF BeginStatement
    <3>2. QED
      BY <1>29, <2>1, <3>1 DEF BeginStatement
  <2>4. QED
    BY <2>2, <2>3
<1>30. ASSUME ScriptEnd PROVE TypeInv'
  <2>1. out[Main] = "none" /\ MainThrows("SUCCESS")
    BY <1>30 DEF ScriptEnd
  <2>2. QED
    BY <1>30, <2>1, ThrowKeepsTypeInv DEF ScriptEnd
<1>31. ASSUME NEW e \in ScriptThrows, ScriptThrow(e) PROVE TypeInv'
  <2>1. out[Main] = "none" /\ MainThrows(e)
    BY <1>31 DEF ScriptThrow
  <2>2. QED
    BY <1>31, <2>1, ThrowKeepsTypeInv DEF ScriptThrow
<1>32. ASSUME NEW o \in {"next", "TREENODE_COVERED", "REPLAY_FAILS"}, SubmitChoice(o)
       PROVE  TypeInv'
  <2>1. stmt \in Nodes
    BY <1>32 DEF SubmitChoice, Nodes
  <2>2. PICK added \in {<<>>, <<stmt>>} : ReleaseRef(Main, Empty, added)
    BY <1>32 DEF SubmitChoice
  <2>3. QED
    BY ZenonT(40), <1>32, <2>1, <2>2, Singletons, ReleaseRefTypes DEF SubmitChoice, RefValues
<1>33. ASSUME SubmitNode PROVE TypeInv'
  <2>1. stmt \in Nodes /\ ReleaseRef(Main, stmt, <<>>)
    BY <1>33 DEF SubmitNode, Nodes
  <2>2. QED
    BY ZenonT(40), <1>33, <2>1, Singletons, ReleaseRefTypes DEF SubmitNode, RefValues
<1>34. ASSUME Consumed PROVE TypeInv'
  <2>1. ReleaseRef(Main, Empty, <<>>)
    BY <1>34 DEF Consumed
  <2>2. QED
    BY ZenonT(40), <1>34, <2>1, Singletons, ReleaseRefTypes DEF Consumed, RefValues
<1>35. ASSUME PostScript PROVE TypeInv'
  <2>1. sem' \in 0..MaxSem /\ out' = [out EXCEPT ![Main] = "none"]
    BY <1>35 DEF PostScript, Signalled
  <2>2. CASE out[Main] = "next"
    BY <1>35, <2>1, <2>2 DEF PostScript
  <2>3. CASE out[Main] = "await"
    <3>1. /\ goal' = [goal EXCEPT ![Main] = "consumed"]
          /\ pc' = [pc EXCEPT ![Main] = "exchange"]
          /\ UNCHANGED <<stmt, err>>
      BY <1>35, <2>3 DEF PostScript
    <3>2. QED
      BY <1>35, <2>1, <2>3, <3>1 DEF PostScript
  <2>4. CASE out[Main] \in BacktrackReasons
    <3>1. MainThrows(out[Main]) /\ UNCHANGED stmt
      BY <1>35, <2>4 DEF PostScript
    <3>2. QED
      BY <1>35, <2>1, <2>4, <3>1, ThrowKeepsTypeInv DEF PostScript
  <2>5. QED
    BY <1>35, <2>2, <2>3, <2>4 DEF PostScript
<1>36. ASSUME FoundByScript PROVE TypeInv'
  <2>1. out[Main] = "none" /\ MainThrows(EndReason)
    BY <1>36 DEF FoundByScript
  <2>2. EndReason \in Exceptions \cup {"SUCCESS"}
    BY DEF EndReason
  <2>3. QED
    BY <1>36, <2>1, <2>2, ThrowKeepsTypeInv DEF FoundByScript, Check, Assertions
<1>37. ASSUME ForceLock PROVE TypeInv'
  BY <1>37 DEF ForceLock, RefValues
<1>38. ASSUME FoundByEndSuccess PROVE TypeInv'
  BY <1>38 DEF FoundByEndSuccess, Check, Assertions, EndReason
<1>39. ASSUME EndSuccess PROVE TypeInv'
  <2>1. PICK added \in {<<>>, <<EndNode>>} : ReleaseRef(Main, EndNode, added)
    BY <1>39 DEF EndSuccess
  <2>2. QED
    BY ZenonT(40), <1>39, <2>1, Singletons, ReleaseRefTypes DEF EndSuccess, RefValues
<1>40. ASSUME PostSuccess PROVE TypeInv'
  BY <1>40 DEF PostSuccess, Signalled
<1>41. ASSUME MainNotifyWaiters PROVE TypeInv'
  BY <1>41 DEF MainNotifyWaiters, Broadcast
<1>42. ASSUME RunUncontrolled PROVE TypeInv'
  BY ZenonT(40), <1>42 DEF RunUncontrolled
<1>43. ASSUME JoinAllThreads PROVE TypeInv'
  BY <1>43 DEF JoinAllThreads
<1>44. ASSUME JoinDeadlock PROVE TypeInv'
  BY <1>44 DEF JoinDeadlock, AddException
<1>45. ASSUME EndSearch PROVE TypeInv'
  BY <1>45 DEF EndSearch
<1>46. ASSUME Restart PROVE TypeInv'
  BY <1>46 DEF Restart, RefValues, Empty
<1>47. ASSUME StartUnreachable PROVE TypeInv'
  BY <1>47 DEF StartUnreachable, Check, Assertions
<1>48. CASE UNCHANGED vars
  BY <1>48 DEF vars
<1>49. QED
  BY ZenonT(40), <1>1, <1>2, <1>3, <1>4, <1>5, <1>6, <1>7, <1>8, <1>9, <1>10, <1>11, <1>12,
     <1>13, <1>14, <1>15, <1>16, <1>17, <1>18, <1>19, <1>20, <1>21, <1>22, <1>23,
     <1>24, <1>25, <1>26, <1>27, <1>28, <1>29, <1>30, <1>31, <1>32, <1>33, <1>34,
     <1>35, <1>36, <1>37, <1>38, <1>39, <1>40, <1>41, <1>42, <1>43, <1>44, <1>45,
     <1>46, <1>47, <1>48
  DEF Next, AcquireStep, EndStep, ThreadStep, MainStep

\* Every state the rendezvous reaches is well typed; in particular only submitted
\* statements and the end node get into the path, and sem_ref_ is never negative.
THEOREM TypeCorrect == Spec => []TypeOK
<1>1. TypeInv => TypeOK
  BY DEF TypeInv
<1>2. QED
  BY <1>1, TypeInit, TypeStep, PTL DEF Spec

-----------------------------------------------------------------------------
\* LockInv holds initially.
LEMMA LockInit == Init => LockInv
BY RendezvousAssumption
DEF Init, LockInv, LockExclusion, OwnerInv, LockAsserts, HoldsRef, LockNode, Empty

\* c leaves the lock: it moves to l, where it holds nothing, and stores a value
\* other than the lock node.
LEMMA Unlocking ==
  ASSUME TypeOK, LockExclusion, NEW c \in Coroutines, HoldsRef(c), owner' = NULL,
         ref' # LockNode, NEW l \in {"post", "wait", "found"},
         pc' = [pc EXCEPT ![c] = l]
  PROVE  LockExclusion'
BY RendezvousAssumption DEF LockExclusion, HoldsRef, TypeOK

\* ReleaseRef by the coroutine that holds the lock passes its asserts and unlocks.
LEMMA Releasing ==
  ASSUME TypeOK, LockInv, NEW c \in Coroutines, pc[c] \in {"hold", "release"},
         NEW value, value # LockNode, NEW added, ReleaseRef(c, value, added),
         pc' = [pc EXCEPT ![c] = "post"]
  PROVE  LockExclusion' /\ owner' = NULL /\ aborted' = aborted
<1>1. ref = LockNode /\ owner = c /\ HoldsRef(c)
  BY DEF LockInv, LockExclusion, OwnerInv, HoldsRef
<1>2. QED
  BY <1>1, Unlocking DEF LockInv, ReleaseRef, Check

\* The values that AcquireRef and ReleaseRef store are not the lock node.
LEMMA NotLockNode == \A v \in Nodes \cup {Empty, EndNode} : v # LockNode
BY RendezvousAssumption DEF Nodes, Empty, EndNode, LockNode

\* No end node can be re-thrown as THREADS_ALLENDED, so every step keeps LockInv.
LEMMA LockStep ==
  ASSUME "THREADS_ALLENDED" \notin SutCalls, TypeInv, LockInv, [Next]_vars
  PROVE  LockInv'
<1> USE RendezvousAssumption
    DEF LockInv, LockExclusion, HoldsRef, OwnerInv, LockAsserts, IsAllEnded
<1>0. /\ pc \in [Coroutines -> ThreadLabels \cup MainLabels]
      /\ goal \in [Coroutines -> Goals]
      /\ err \in [Coroutines -> Exceptions \cup {"SUCCESS"}]
      /\ out \in [Coroutines -> Decisions]
      /\ owner \in Coroutines \cup {NULL}
      /\ pc[Main] \in MainLabels
  BY DEF TypeInv, TypeOK
<1>1. ASSUME NEW c \in Coroutines, Exchange(c) PROVE LockInv'
  BY <1>1, <1>0 DEF Exchange
<1>2. ASSUME NEW c \in Coroutines, ExchangeOwned(c) PROVE LockInv'
  BY <1>2, <1>0 DEF ExchangeOwned, Check, Mode, AcquireModes
<1>3. ASSUME NEW c \in Coroutines, ResolveLock(c) PROVE LockInv'
  BY <1>3, <1>0 DEF ResolveLock, Check
<1>4. ASSUME NEW c \in Coroutines, ResolveRestore(c) PROVE LockInv'
  <2>1. HoldsRef(c) /\ owner' = NULL /\ ref' # LockNode /\ pc' = [pc EXCEPT ![c] = "wait"]
    BY <1>4, <1>0, NotLockNode DEF ResolveRestore
  <2>2. LockExclusion'
    BY <2>1, Unlocking DEF TypeInv
  <2>3. QED
    BY <1>4, <1>0, <2>1, <2>2 DEF ResolveRestore
<1>5. ASSUME NEW c \in Coroutines, ResolveEnd(c) PROVE LockInv'
  <2>1. HoldsRef(c) /\ owner' = NULL /\ ref' # LockNode /\ pc' = [pc EXCEPT ![c] = "found"]
    BY <1>5, <1>0, NotLockNode DEF ResolveEnd
  <2>2. LockExclusion'
    BY <2>1, Unlocking DEF TypeInv
  <2>3. QED
    BY <1>5, <1>0, <2>1, <2>2 DEF ResolveEnd
<1>6. ASSUME NEW c \in Coroutines, SemWait(c) PROVE LockInv'
  BY <1>6, <1>0 DEF SemWait
<1>7. ASSUME NEW c \in Coroutines, SemSignal(c) PROVE LockInv'
  BY <1>7, <1>0 DEF SemSignal
<1>8. ASSUME NEW c \in Coroutines, FoundByException(c) PROVE LockInv'
  BY <1>8, <1>0 DEF FoundByException
<1>9. ASSUME NEW c \in Coroutines, WriteException(c) PROVE LockInv'
  BY <1>9, <1>0 DEF WriteException
<1>10. ASSUME NEW c \in Coroutines, InsertEnd(c) PROVE LockInv'
  <2>1. LockExclusion' /\ owner' = NULL /\ aborted' = aborted
    BY <1>10, NotLockNode, Releasing DEF InsertEnd, TypeInv
  <2>2. OwnerInv'
    BY <1>10, <1>0, <2>1 DEF InsertEnd, ReleaseRef, AddException
  <2>3. QED
    BY <2>1, <2>2
<1>11. ASSUME NEW c \in Coroutines, PostException(c) PROVE LockInv'
  BY <1>11, <1>0 DEF PostException
<1>12. ASSUME NEW t \in Threads, BeginTransition(t) PROVE LockInv'
  BY <1>12, <1>0 DEF BeginTransition
<1>13. ASSUME NEW t \in Threads, FoundByTransition(t) PROVE LockInv'
  BY <1>13, <1>0 DEF FoundByTransition, Return
<1>14. ASSUME NEW t \in Threads, Eval(t) PROVE LockInv'
  BY <1>14, <1>0 DEF Eval, Check, Broadcast
<1>15. ASSUME NEW t \in Threads, EvalViolation(t) PROVE LockInv'
  BY <1>15, <1>0 DEF EvalViolation
<1>16. ASSUME NEW t \in Threads, LockMutex(t) PROVE LockInv'
  BY <1>16, <1>0 DEF LockMutex
<1>17. ASSUME NEW t \in Threads, ReleaseTransition(t) PROVE LockInv'
  <2>1. node[t] \in Nodes
    BY <1>17 DEF ReleaseTransition, TypeInv
  <2>2. LockExclusion' /\ owner' = NULL /\ aborted' = aborted
    BY <1>17, <2>1, NotLockNode, Releasing DEF ReleaseTransition, TypeInv
  <2>3. OwnerInv'
    BY <1>17, <1>0, <2>2 DEF ReleaseTransition
  <2>4. QED
    BY <2>2, <2>3
<1>18. ASSUME NEW t \in Threads, PostTransition(t) PROVE LockInv'
  BY <1>18, <1>0 DEF PostTransition, Return
<1>19. ASSUME NEW t \in Threads, Park(t) PROVE LockInv'
  BY <1>19, <1>0 DEF Park
<1>20. ASSUME NEW t \in Threads, CondTimeout(t) PROVE LockInv'
  BY <1>20, <1>0 DEF CondTimeout
<1>21. ASSUME NEW t \in Threads, CondSpurious(t) PROVE LockInv'
  BY <1>21, <1>0 DEF CondSpurious
<1>22. ASSUME NEW t \in Threads, Reacquire(t) PROVE LockInv'
  BY <1>22, <1>0 DEF Reacquire
<1>23. ASSUME NEW t \in Threads, NEW e \in SutCalls, Raise(t, e) PROVE LockInv'
  BY <1>23, <1>0 DEF Raise
<1>24. ASSUME NEW t \in Threads, NotifyWaiters(t) PROVE LockInv'
  <2>1. PICK l \in {"idle", "ended"} : pc' = [Broadcast(pc) EXCEPT ![t] = l]
    BY <1>24 DEF NotifyWaiters
  <2>2. pc'[t] \in {"idle", "ended"}
    BY <2>1 DEF Broadcast
  <2>3. \A d \in Coroutines : d # t => pc'[d] = pc[d] \/ (pc[d] = "asleep"
          /\ pc'[d] = "woken")
    <3>1. SUFFICES ASSUME NEW d \in Coroutines, d # t
                   PROVE  pc'[d] = pc[d] \/ (pc[d] = "asleep" /\ pc'[d] = "woken")
      OBVIOUS
    <3>2. pc'[d] = Broadcast(pc)[d]
      BY <2>1, <3>1 DEF Broadcast
    <3>3. QED
      BY <3>1, <3>2 DEF Broadcast
  <2>4. /\ goal' = [goal EXCEPT ![t] = "endException"]
        /\ err' = [err EXCEPT ![t] = "SUCCESS"]
        /\ UNCHANGED <<ref, owner, exc, aborted>>
    BY <1>24 DEF NotifyWaiters, Return
  <2>5. LockExclusion'
    BY <1>24, <1>0, <2>2, <2>3, <2>4 DEF NotifyWaiters
  <2>6. pc'[Main] = pc[Main]
    BY <1>0, <2>3 DEF MainLabels
  <2>7. OwnerInv'
    BY SMTT(30), <1>24, <1>0, <2>2, <2>3, <2>4, <2>6 DEF NotifyWaiters
  <2>8. QED
    BY <2>4, <2>5, <2>7
<1>25. ASSUME NEW t \in Threads, ThreadEnd(t) PROVE LockInv'
  BY <1>25, <1>0 DEF ThreadEnd
<1>26. ASSUME SpinTimeout PROVE LockInv'
  BY <1>26, <1>0 DEF SpinTimeout, Check, MainThrows, Catch
<1>27. ASSUME WaitTimeout PROVE LockInv'
  BY <1>27, <1>0 DEF WaitTimeout, MainThrows, Catch
<1>28. ASSUME ElapsedTimeout PROVE LockInv'
  BY <1>28, <1>0 DEF ElapsedTimeout, MainThrows, Catch
<1>29. ASSUME BeginStatement PROVE LockInv'
  BY <1>29, <1>0 DEF BeginStatement, MainThrows, Catch
<1>30. ASSUME ScriptEnd PROVE LockInv'
  BY <1>30, <1>0 DEF ScriptEnd, MainThrows, Catch
<1>31. ASSUME NEW e \in ScriptThrows, ScriptThrow(e) PROVE LockInv'
  BY <1>31, <1>0 DEF ScriptThrow, MainThrows, Catch
<1>32. ASSUME NEW o \in {"next", "TREENODE_COVERED", "REPLAY_FAILS"}, SubmitChoice(o)
       PROVE  LockInv'
  <2>1. LockExclusion' /\ owner' = NULL /\ aborted' = aborted
    BY <1>32, NotLockNode, Releasing DEF SubmitChoice, TypeInv
  <2>2. OwnerInv'
    BY <1>32, <1>0, <2>1 DEF SubmitChoice
  <2>3. QED
    BY <2>1, <2>2
<1>33. ASSUME SubmitNode PROVE LockInv'
  <2>1. stmt \in Nodes
    BY <1>33 DEF SubmitNode, TypeInv, TypeOK, Nodes
  <2>2. LockExclusion' /\ owner' = NULL /\ aborted' = aborted
    BY <1>33, <2>1, NotLockNode, Releasing DEF SubmitNode, TypeInv
  <2>3. OwnerInv'
    BY <1>33, <1>0, <2>2 DEF SubmitNode
  <2>4. QED
    BY <2>2, <2>3
<1>34. ASSUME Consumed PROVE LockInv'
  <2>1. LockExclusion' /\ owner' = NULL /\ aborted' = aborted
    BY <1>34, NotLockNode, Releasing DEF Consumed, TypeInv
  <2>2. OwnerInv'
    BY <1>34, <1>0, <2>1 DEF Consumed
  <2>3. QED
    BY <2>1, <2>2
<1>35. ASSUME PostScript PROVE LockInv'
  <2>1. /\ out[Main] # "none" /\ out[Main] # "THREADS_ALLENDED"
        /\ exc # "THREADS_ALLENDED"
    BY <1>35, <1>0 DEF PostScript, TypeInv, BacktrackReasons, Decisions
  <2>2. QED
    BY <1>35, <1>0, <2>1 DEF PostScript, MainThrows, Catch
<1>36. ASSUME FoundByScript PROVE LockInv'
  BY <1>36, <1>0 DEF FoundByScript, Check, MainThrows, Catch, EndReason
<1>37. ASSUME ForceLock PROVE LockInv'
  BY <1>37, <1>0 DEF ForceLock
<1>38. ASSUME FoundByEndSuccess PROVE LockInv'
  BY <1>38, <1>0 DEF FoundByEndSuccess, Check, EndReason
<1>39. ASSUME EndSuccess PROVE LockInv'
  <2>1. LockExclusion' /\ owner' = NULL /\ aborted' = aborted
    BY <1>39, NotLockNode, Releasing DEF EndSuccess, TypeInv
  <2>2. OwnerInv'
    BY <1>39, <1>0, <2>1 DEF EndSuccess
  <2>3. QED
    BY <2>1, <2>2
<1>40. ASSUME PostSuccess PROVE LockInv'
  <2>1. exc # "THREADS_ALLENDED"
    BY <1>40, <1>0 DEF PostSuccess, TypeInv
  <2>2. QED
    BY <1>40, <1>0, <2>1 DEF PostSuccess
<1>41. ASSUME MainNotifyWaiters PROVE LockInv'
  BY ZenonT(40), <1>41, <1>0 DEF MainNotifyWaiters, Broadcast
<1>42. ASSUME RunUncontrolled PROVE LockInv'
  BY <1>42, <1>0 DEF RunUncontrolled
<1>43. ASSUME JoinAllThreads PROVE LockInv'
  BY <1>43, <1>0 DEF JoinAllThreads
<1>44. ASSUME JoinDeadlock PROVE LockInv'
  BY <1>44, <1>0 DEF JoinDeadlock, AddException
<1>45. ASSUME EndSearch PROVE LockInv'
  BY <1>45, <1>0 DEF EndSearch
<1>46. ASSUME Restart PROVE LockInv'
  <2>1. owner = NULL
    BY <1>46, <1>0 DEF Restart
  <2>2. QED
    BY <1>46, <1>0, <2>1 DEF Restart, Empty, LockNode
<1>47. ASSUME StartUnreachable PROVE LockInv'
  BY <1>47, <1>0 DEF StartUnreachable, Check
<1>48. CASE UNCHANGED vars
  BY <1>48 DEF vars
<1>49. QED
  BY <1>1, <1>2, <1>3, <1>4, <1>5, <1>6, <1>7, <1>8, <1>9, <1>10, <1>11, <1>12,
     <1>13, <1>14, <1>15, <1>16, <1>17, <1>18, <1>19, <1>20, <1>21, <1>22, <1>23,
     <1>24, <1>25, <1>26, <1>27, <1>28, <1>29, <1>30, <1>31, <1>32, <1>33, <1>34,
     <1>35, <1>36, <1>37, <1>38, <1>39, <1>40, <1>41, <1>42, <1>43, <1>44, <1>45,
     <1>46, <1>47, <1>48
  DEF Next, AcquireStep, EndStep, ThreadStep, MainStep

\* AcquireRef/ReleaseRef exclude each other and their asserts hold, for any script
\* and any number of threads of a program that does not call concurritEndTest while
\* controlled: the forced lock of EndWithSuccess is then taken by main alone.
THEOREM LockCorrect ==
  ASSUME "THREADS_ALLENDED" \notin SutCalls
  PROVE  Spec => [](LockExclusion /\ LockAsserts)
<1>1. Init => TypeInv /\ LockInv
  BY TypeInit, LockInit
<1>2. TypeInv /\ LockInv /\ [Next]_vars => (TypeInv /\ LockInv)'
  BY TypeStep, LockStep
<1>3. TypeInv /\ LockInv => LockExclusion /\ LockAsserts
  BY DEF LockInv
<1>4. QED
  BY <1>1, <1>2, <1>3, PTL DEF Spec

-----------------------------------------------------------------------------
\* The nodes and the three special values of the ref are all different.
LEMMA NodesAreNot ==
  /\ \A n \in Nodes : n # Empty /\ n # EndNode /\ n # LockNode
  /\ Empty # EndNode /\ Empty # LockNode /\ EndNode # LockNode
BY RendezvousAssumption DEF Nodes, Empty, EndNode, LockNode

\* What ends a wait depends on the reason for it alone.
LEMMA WantedSame ==
  \A c \in Coroutines : goal'[c] = goal[c] => Wanted(c)' = Wanted(c)
BY DEF Wanted, Mode

\* The values that end a wait on sem_ref_; a locked ref never does.
LEMMA WantedValues ==
  ASSUME TypeOK, NEW c \in Coroutines
  PROVE  /\ LockNode \notin Wanted(c)
         /\ Mode(c) = "EXIT_ON_EMPTY" => Wanted(c) = {Empty, EndNode}
         /\ Mode(c) = "EXIT_ON_FULL" => Wanted(c) = Nodes \cup {EndNode}
BY NotLockNode DEF Wanted, Mode, TypeOK, AcquireModes, Goals

\* The step starts no wait on sem_ref_ and ends no signal.
StillWaiting ==
  /\ sem' = sem
  /\ \A d \in Coroutines :
       /\ pc'[d] = "wait" => pc[d] = "wait" /\ goal'[d] = goal[d]
       /\ pc[d] \in {"signal", "post"} => pc'[d] = pc[d]

\* Whoever still waits did so before, for a value that was there before.
LEMMA KeepsTurnstile ==
  ASSUME TypeOK, TurnstileInv, StillWaiting, \A v : v # LockNode /\ InRef(v)' => InRef(v)
  PROVE  TurnstileInv'
<1>1. SUFFICES ASSUME NEW c \in Coroutines, pc'[c] = "wait", sem' = 0,
                      NEW v \in Wanted(c)', InRef(v)'
               PROVE  \E d \in Coroutines : pc'[d] \in {"signal", "post"}
  BY DEF TurnstileInv
<1>2. v \in Wanted(c) /\ pc[c] = "wait" /\ sem = 0
  BY <1>1, WantedSame DEF StillWaiting
<1>3. InRef(v)
  BY <1>1, <1>2, WantedValues
<1>4. QED
  BY <1>2, <1>3 DEF StillWaiting, TurnstileInv

\* The step puts nothing in the ref either.
Quiet ==
  /\ StillWaiting
  /\ ref' = ref
  /\ \A d \in Coroutines : pc'[d] = "resolve" => pc[d] = "resolve" /\ node'[d] = node[d]

\* A quiet step keeps the turnstile as it is.
LEMMA QuietTurnstile ==
  ASSUME TypeOK, TurnstileInv, Quiet
  PROVE  TurnstileInv'
<1>1. \A v : v # LockNode /\ InRef(v)' => InRef(v)
  BY DEF Quiet, InRef
<1>2. QED
  BY <1>1, KeepsTurnstile DEF Quiet

\* Every step keeps TurnstileInv.
LEMMA TurnstileStep ==
  ASSUME TypeInv, LockInv, TurnstileInv, [Next]_vars
  PROVE  TurnstileInv'
<1> USE RendezvousAssumption 
<1>0. /\ pc \in [Coroutines -> ThreadLabels \cup MainLabels]
      /\ goal \in [Coroutines -> Goals]
      /\ node \in [Coroutines -> RefValues]
      /\ sem \in Nat
      /\ TypeOK
  BY DEF TypeInv, TypeOK

<1>1. ASSUME NEW c \in Coroutines, Exchange(c) PROVE TurnstileInv'
  <2>1. \A v : v # LockNode /\ InRef(v)' => InRef(v)
    BY <1>1, <1>0 DEF Exchange, InRef
  <2>2. StillWaiting
    BY <1>1, <1>0 DEF Exchange, StillWaiting
  <2>3. QED
    BY <2>1, <2>2, <1>0, KeepsTurnstile
<1>2. ASSUME NEW c \in Coroutines, ExchangeOwned(c) PROVE TurnstileInv'
  <2>1. Quiet
    BY <1>2, <1>0 DEF Quiet, StillWaiting, ExchangeOwned, Check
  <2>2. QED
    BY <2>1, <1>0, QuietTurnstile
<1>3. ASSUME NEW c \in Coroutines, ResolveLock(c) PROVE TurnstileInv'
  <2>1. Quiet
    BY <1>3, <1>0 DEF Quiet, StillWaiting, ResolveLock, Check
  <2>2. QED
    BY <2>1, <1>0, QuietTurnstile
<1>4. ASSUME NEW c \in Coroutines, ResolveRestore(c) PROVE TurnstileInv'
  <2>1. SUFFICES ASSUME NEW d \in Coroutines, pc'[d] = "wait", sem' = 0,
                        NEW v \in Wanted(d)', InRef(v)'
                 PROVE  \E e \in Coroutines : pc'[e] \in {"signal", "post"}
    BY DEF TurnstileInv
  <2>2. Wanted(d)' = Wanted(d) /\ v # LockNode
    BY <1>4, <1>0, <2>1, WantedSame, WantedValues DEF ResolveRestore
  <2>3. InRef(v)
    BY <1>4, <1>0, <2>1, <2>2 DEF ResolveRestore, InRef
  <2>4. v = node[c]
    BY <1>4, <1>0, <2>1, <2>2 DEF ResolveRestore, InRef, LockInv, LockExclusion, HoldsRef
  <2>5. d # c
    BY <1>4, <1>0, <2>2, <2>4, WantedValues, NodesAreNot DEF ResolveRestore
  <2>6. PICK e \in Coroutines : pc[e] \in {"signal", "post"}
    BY <1>4, <1>0, <2>1, <2>2, <2>3, <2>5 DEF ResolveRestore, TurnstileInv
  <2>7. QED
    BY <1>4, <1>0, <2>6 DEF ResolveRestore
<1>5. ASSUME NEW c \in Coroutines, ResolveEnd(c) PROVE TurnstileInv'
  <2>1. \A v : v # LockNode /\ InRef(v)' => InRef(v)
    BY <1>5, <1>0 DEF ResolveEnd, InRef
  <2>2. StillWaiting
    BY <1>5, <1>0 DEF ResolveEnd, StillWaiting
  <2>3. QED
    BY <2>1, <2>2, <1>0, KeepsTurnstile
<1>6. ASSUME NEW c \in Coroutines, SemWait(c) PROVE TurnstileInv'
  <2>1. pc'[c] = "signal"
    BY <1>6, <1>0 DEF SemWait
  <2>2. QED
    BY <2>1 DEF TurnstileInv
<1>7. ASSUME NEW c \in Coroutines, SemSignal(c) PROVE TurnstileInv'
  <2>1. sem' # 0
    BY <1>7, <1>0 DEF SemSignal, Signalled
  <2>2. QED
    BY <2>1 DEF TurnstileInv
<1>8. ASSUME NEW c \in Coroutines, FoundByException(c) PROVE TurnstileInv'
  <2>1. Quiet
    BY <1>8, <1>0 DEF Quiet, StillWaiting, FoundByException
  <2>2. QED
    BY <2>1, <1>0, QuietTurnstile
<1>9. ASSUME NEW c \in Coroutines, WriteException(c) PROVE TurnstileInv'
  <2>1. Quiet
    BY <1>9, <1>0 DEF Quiet, StillWaiting, WriteException
  <2>2. QED
    BY <2>1, <1>0, QuietTurnstile
<1>10. ASSUME NEW c \in Coroutines, InsertEnd(c) PROVE TurnstileInv'
  <2>1. pc'[c] = "post"
    BY <1>10, <1>0 DEF InsertEnd
  <2>2. QED
    BY <2>1 DEF TurnstileInv
<1>11. ASSUME NEW c \in Coroutines, PostException(c) PROVE TurnstileInv'
  <2>1. sem' # 0
    BY <1>11, <1>0 DEF PostException, Signalled
  <2>2. QED
    BY <2>1 DEF TurnstileInv
<1>12. ASSUME NEW t \in Threads, BeginTransition(t) PROVE TurnstileInv'
  <2>1. Quiet
    BY <1>12, <1>0 DEF Quiet, StillWaiting, BeginTransition
  <2>2. QED
    BY <2>1, <1>0, QuietTurnstile
<1>13. ASSUME NEW t \in Threads, FoundByTransition(t) PROVE TurnstileInv'
  <2>1. Quiet
    BY <1>13, <1>0 DEF Quiet, StillWaiting, FoundByTransition, Return
  <2>2. QED
    BY <2>1, <1>0, QuietTurnstile
<1>14. ASSUME NEW t \in Threads, Eval(t) PROVE TurnstileInv'
  <2>1. Quiet
    BY <1>14, <1>0 DEF Quiet, StillWaiting, Eval, Check, Broadcast
  <2>2. QED
    BY <2>1, <1>0, QuietTurnstile
<1>15. ASSUME NEW t \in Threads, EvalViolation(t) PROVE TurnstileInv'
  <2>1. Quiet
    BY <1>15, <1>0 DEF Quiet, StillWaiting, EvalViolation
  <2>2. QED
    BY <2>1, <1>0, QuietTurnstile
<1>16. ASSUME NEW t \in Threads, LockMutex(t) PROVE TurnstileInv'
  <2>1. Quiet
    BY <1>16, <1>0 DEF Quiet, StillWaiting, LockMutex
  <2>2. QED
    BY <2>1, <1>0, QuietTurnstile
<1>17. ASSUME NEW t \in Threads, ReleaseTransition(t) PROVE TurnstileInv'
  <2>1. pc'[t] = "post"
    BY <1>17, <1>0 DEF ReleaseTransition
  <2>2. QED
    BY <2>1 DEF TurnstileInv
<1>18. ASSUME NEW t \in Threads, PostTransition(t) PROVE TurnstileInv'
  <2>1. sem' # 0
    BY <1>18, <1>0 DEF PostTransition, Signalled
  <2>2. QED
    BY <2>1 DEF TurnstileInv
<1>19. ASSUME NEW t \in Threads, Park(t) PROVE TurnstileInv'
  <2>1. Quiet
    BY <1>19, <1>0 DEF Quiet, StillWaiting, Park
  <2>2. QED
    BY <2>1, <1>0, QuietTurnstile
<1>20. ASSUME NEW t \in Threads, CondTimeout(t) PROVE TurnstileInv'
  <2>1. Quiet
    BY <1>20, <1>0 DEF Quiet, StillWaiting, CondTimeout
  <2>2. QED
    BY <2>1, <1>0, QuietTurnstile
<1>21. ASSUME NEW t \in Threads, CondSpurious(t) PROVE TurnstileInv'
  <2>1. Quiet
    BY <1>21, <1>0 DEF Quiet, StillWaiting, CondSpurious
  <2>2. QED
    BY <2>1, <1>0, QuietTurnstile
<1>22. ASSUME NEW t \in Threads, Reacquire(t) PROVE TurnstileInv'
  <2>1. Quiet
    BY <1>22, <1>0 DEF Quiet, StillWaiting, Reacquire
  <2>2. QED
    BY <2>1, <1>0, QuietTurnstile
<1>23. ASSUME NEW t \in Threads, NEW e \in SutCalls, Raise(t, e) PROVE TurnstileInv'
  <2>1. Quiet
    BY <1>23, <1>0 DEF Quiet, StillWaiting, Raise
  <2>2. QED
    BY <2>1, <1>0, QuietTurnstile
<1>24. ASSUME NEW t \in Threads, NotifyWaiters(t) PROVE TurnstileInv'
  <2>1. Quiet
    BY <1>24, <1>0 DEF Quiet, StillWaiting, NotifyWaiters, Broadcast, Return
  <2>2. QED
    BY <2>1, <1>0, QuietTurnstile
<1>25. ASSUME NEW t \in Threads, ThreadEnd(t) PROVE TurnstileInv'
  <2>1. Quiet
    BY <1>25, <1>0 DEF Quiet, StillWaiting, ThreadEnd
  <2>2. QED
    BY <2>1, <1>0, QuietTurnstile
<1>26. ASSUME SpinTimeout PROVE TurnstileInv'
  <2>1. Quiet
    BY <1>26, <1>0 DEF Quiet, StillWaiting, SpinTimeout, Check, MainThrows
  <2>2. QED
    BY <2>1, <1>0, QuietTurnstile
<1>27. ASSUME WaitTimeout PROVE TurnstileInv'
  <2>1. Quiet
    BY <1>27, <1>0 DEF Quiet, StillWaiting, WaitTimeout, MainThrows
  <2>2. QED
    BY <2>1, <1>0, QuietTurnstile
<1>28. ASSUME ElapsedTimeout PROVE TurnstileInv'
  <2>1. sem' # 0
    BY <1>28, <1>0 DEF ElapsedTimeout, Signalled
  <2>2. QED
    BY <2>1 DEF TurnstileInv
<1>29. ASSUME BeginStatement PROVE TurnstileInv'
  <2>1. Quiet
    BY <1>29, <1>0 DEF Quiet, StillWaiting, BeginStatement, MainThrows
  <2>2. QED
    BY <2>1, <1>0, QuietTurnstile
<1>30. ASSUME ScriptEnd PROVE TurnstileInv'
  <2>1. Quiet
    BY <1>30, <1>0 DEF Quiet, StillWaiting, ScriptEnd, MainThrows
  <2>2. QED
    BY <2>1, <1>0, QuietTurnstile
<1>31. ASSUME NEW e \in ScriptThrows, ScriptThrow(e) PROVE TurnstileInv'
  <2>1. Quiet
    BY <1>31, <1>0 DEF Quiet, StillWaiting, ScriptThrow, MainThrows
  <2>2. QED
    BY <2>1, <1>0, QuietTurnstile
<1>32. ASSUME NEW o \in {"next", "TREENODE_COVERED", "REPLAY_FAILS"}, SubmitChoice(o)
       PROVE  TurnstileInv'
  <2>1. pc'[Main] = "post"
    BY <1>32, <1>0 DEF SubmitChoice
  <2>2. QED
    BY <2>1 DEF TurnstileInv
<1>33. ASSUME SubmitNode PROVE TurnstileInv'
  <2>1. pc'[Main] = "post"
    BY <1>33, <1>0 DEF SubmitNode
  <2>2. QED
    BY <2>1 DEF TurnstileInv
<1>34. ASSUME Consumed PROVE TurnstileInv'
  <2>1. pc'[Main] = "post"
    BY <1>34, <1>0 DEF Consumed
  <2>2. QED
    BY <2>1 DEF TurnstileInv
<1>35. ASSUME PostScript PROVE TurnstileInv'
  <2>1. sem' # 0
    BY <1>35, <1>0 DEF PostScript, Signalled
  <2>2. QED
    BY <2>1 DEF TurnstileInv
<1>36. ASSUME FoundByScript PROVE TurnstileInv'
  <2>1. Quiet
    BY <1>36, <1>0 DEF Quiet, StillWaiting, FoundByScript, Check, MainThrows
  <2>2. QED
    BY <2>1, <1>0, QuietTurnstile
<1>37. ASSUME ForceLock PROVE TurnstileInv'
  BY <1>37, <1>0 DEF ForceLock, TurnstileInv, LockInv, OwnerInv, IsAllEnded
<1>38. ASSUME FoundByEndSuccess PROVE TurnstileInv'
  <2>1. Quiet
    BY <1>38, <1>0 DEF Quiet, StillWaiting, FoundByEndSuccess, Check
  <2>2. QED
    BY <2>1, <1>0, QuietTurnstile
<1>39. ASSUME EndSuccess PROVE TurnstileInv'
  <2>1. pc'[Main] = "post"
    BY <1>39, <1>0 DEF EndSuccess
  <2>2. QED
    BY <2>1 DEF TurnstileInv
<1>40. ASSUME PostSuccess PROVE TurnstileInv'
  <2>1. sem' # 0
    BY <1>40, <1>0 DEF PostSuccess, Signalled
  <2>2. QED
    BY <2>1 DEF TurnstileInv
<1>41. ASSUME MainNotifyWaiters PROVE TurnstileInv'
  <2>1. Quiet
    BY <1>41, <1>0 DEF Quiet, StillWaiting, MainNotifyWaiters, Broadcast
  <2>2. QED
    BY <2>1, <1>0, QuietTurnstile
<1>42. ASSUME RunUncontrolled PROVE TurnstileInv'
  <2>1. Quiet
    BY <1>42, <1>0 DEF Quiet, StillWaiting, RunUncontrolled
  <2>2. QED
    BY <2>1, <1>0, QuietTurnstile
<1>43. ASSUME JoinAllThreads PROVE TurnstileInv'
  <2>1. Quiet
    BY <1>43, <1>0 DEF Quiet, StillWaiting, JoinAllThreads
  <2>2. QED
    BY <2>1, <1>0, QuietTurnstile
<1>44. ASSUME JoinDeadlock PROVE TurnstileInv'
  <2>1. Quiet
    BY <1>44, <1>0 DEF Quiet, StillWaiting, JoinDeadlock, AddException
  <2>2. QED
    BY <2>1, <1>0, QuietTurnstile
<1>45. ASSUME EndSearch PROVE TurnstileInv'
  <2>1. Quiet
    BY <1>45, <1>0 DEF Quiet, StillWaiting, EndSearch
  <2>2. QED
    BY <2>1, <1>0, QuietTurnstile
<1>46. ASSUME Restart PROVE TurnstileInv'
  BY <1>46 DEF Restart, TurnstileInv
<1>47. ASSUME StartUnreachable PROVE TurnstileInv'
  <2>1. Quiet
    BY <1>47, <1>0 DEF Quiet, StillWaiting, StartUnreachable, Check
  <2>2. QED
    BY <2>1, <1>0, QuietTurnstile
<1>48. CASE UNCHANGED vars
  <2>1. Quiet
    BY <1>48 DEF Quiet, StillWaiting, vars
  <2>2. QED
    BY <2>1, <1>0, QuietTurnstile
<1>49. QED
  BY <1>1, <1>2, <1>3, <1>4, <1>5, <1>6, <1>7, <1>8, <1>9, <1>10, <1>11, <1>12,
     <1>13, <1>14, <1>15, <1>16, <1>17, <1>18, <1>19, <1>20, <1>21, <1>22,
     <1>23, <1>24, <1>25, <1>26, <1>27, <1>28, <1>29, <1>30, <1>31, <1>32,
     <1>33, <1>34, <1>35, <1>36, <1>37, <1>38, <1>39, <1>40, <1>41, <1>42,
     <1>43, <1>44, <1>45, <1>46, <1>47, <1>48
  DEF Next, AcquireStep, EndStep, ThreadStep, MainStep

\* Nobody is left waiting on sem_ref_ for what the ref holds: every store to the ref
\* is followed by a Signal, whoever stored and whoever took the token meanwhile.
THEOREM NoLostWakeup ==
  ASSUME "THREADS_ALLENDED" \notin SutCalls
  PROVE  Spec => []NoSleepOnReadyRef
<1>1. Init => TypeInv /\ LockInv /\ TurnstileInv
  <2>1. Init => TurnstileInv
    BY DEF Init, TurnstileInv
  <2>2. QED
    BY <2>1, TypeInit, LockInit
<1>2. TypeInv /\ LockInv /\ TurnstileInv /\ [Next]_vars
        => (TypeInv /\ LockInv /\ TurnstileInv)'
  BY TypeStep, LockStep, TurnstileStep
<1>3. TurnstileInv => NoSleepOnReadyRef
  BY DEF TurnstileInv, NoSleepOnReadyRef, InRef
<1>4. QED
  BY <1>1, <1>2, <1>3, PTL DEF Spec
=============================================================================
