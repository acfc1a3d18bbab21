----------------------- MODULE RendezvousScriptProofs -----------------------
(***************************************************************************)
(* The order of the script: what the path holds, what is published, and    *)
(* that an end node is final, on top of the lock.                          *)
(***************************************************************************)
EXTENDS RendezvousProofs

USE DEF Coroutines, At, Goto, Stopped, refVars, coVars, MainEnds

\* The path decides how many statements are consumed and whether it has ended.
LEMMA PathSame ==
  path' = path => NumConsumed' = NumConsumed /\ PathEnded' = PathEnded
BY DEF NumConsumed, PathEnded

\* The number of statements consumed is a number.
LEMMA NumConsumedType == TypeOK => NumConsumed \in Nat
BY DEF NumConsumed, PathEnded, TypeOK

\* Consuming the next statement.
LEMMA PathConsumes ==
  ASSUME TypeOK, ~PathEnded, \A i \in 1..NumConsumed : path[i] = i,
         NEW n \in Nodes, n = NumConsumed + 1, path' = path \o <<n>>
  PROVE  /\ ~PathEnded' /\ NumConsumed' = n
         /\ \A i \in 1..NumConsumed' : path'[i] = i
<1>1. path \in Seq(Nodes \cup {EndNode}) /\ NumConsumed = Len(path) /\ Len(path) \in Nat
  BY DEF TypeOK, NumConsumed
<1>2. /\ Len(path') = Len(path) + 1 /\ path'[Len(path) + 1] = n
      /\ \A i \in 1..Len(path) : path'[i] = path[i]
  BY <1>1
<1>3. ~PathEnded' /\ NumConsumed' = n
  BY <1>1, <1>2, NodesAreNot DEF PathEnded, NumConsumed
<1>4. QED
  BY <1>1, <1>2, <1>3

\* Ending the path.
LEMMA PathEnds ==
  ASSUME TypeOK, ~PathEnded, \A i \in 1..NumConsumed : path[i] = i,
         path' = path \o <<EndNode>>
  PROVE  /\ PathEnded' /\ NumConsumed' = NumConsumed
         /\ \A i \in 1..NumConsumed' : path'[i] = i
<1>1. path \in Seq(Nodes \cup {EndNode}) /\ NumConsumed = Len(path) /\ Len(path) \in Nat
  BY DEF TypeOK, NumConsumed
<1>2. /\ Len(path') = Len(path) + 1 /\ path'[Len(path) + 1] = EndNode
      /\ \A i \in 1..Len(path) : path'[i] = path[i]
  BY <1>1 DEF EndNode
<1>3. path' # <<>>
  BY <1>1, <1>2
<1>4. PathEnded' /\ NumConsumed' = NumConsumed
  BY <1>1, <1>2, <1>3 DEF PathEnded, NumConsumed
<1>5. QED
  BY <1>1, <1>2, <1>4

-----------------------------------------------------------------------------
\* A step that moves no node: what is offered, consumed and ended stays.
Keeps ==
  /\ UNCHANGED <<path, stmt>>
  /\ \A n \in Nodes : Offered(n)' <=> Offered(n)
  /\ EndInRef' <=> EndInRef
  /\ \A t \in Threads : pc'[t] \in {"hold", "lock", "release"} /\ goal'[t] = "transition"
                           => node'[t] \in Nodes
  /\ \A c \in Coroutines : HoldsRef(c)' /\ pc'[c] # "resolve" => node'[c] # EndNode

\* The part of a step that main's control point does not decide.
LEMMA KeepsOfferInv ==
  ASSUME OfferInv, Keeps
  PROVE  OfferInv'
<1>1. NumConsumed' = NumConsumed /\ path' = path /\ stmt' = stmt
  BY PathSame DEF Keeps
<1>2. QED
  BY <1>1 DEF OfferInv, Keeps

\* Main stays where it is.
MainSame ==
  /\ pc'[Main] = pc[Main] /\ goal'[Main] = goal[Main]
  /\ out'[Main] = out[Main] /\ node'[Main] = node[Main]

\* Such a step by a thread keeps ScriptInv.
LEMMA KeepsScriptInv ==
  ASSUME TypeOK, ScriptInv, Keeps, MainSame
  PROVE  ScriptInv'
<1>1. /\ NumConsumed' = NumConsumed /\ stmt' = stmt
      /\ PathEnded' = PathEnded
      /\ \A n \in Nodes : Offered(n)' <=> Offered(n)
      /\ EndInRef' <=> EndInRef
  BY PathSame DEF Keeps
<1>2. Submitting' = Submitting /\ Awaiting' = Awaiting /\ Finished' = Finished
        /\ Forced' = Forced
  BY DEF MainSame, Submitting, Awaiting, Finished, Forced, Acquiring
<1>3. OfferInv'
  BY KeepsOfferInv DEF ScriptInv
<1>4. EndInv'
  BY <1>1, <1>2 DEF ScriptInv, EndInv, MainSame
<1>5. StatementInv'
  BY <1>1, <1>2 DEF ScriptInv, StatementInv, MainSame
<1>6. QED
  BY <1>3, <1>4, <1>5 DEF ScriptInv

\* A step outside the lock, or from one place inside it to another.
Outside ==
  /\ UNCHANGED <<ref, path, stmt>>
  /\ \A d \in Coroutines :
       /\ HoldsRef(d)' <=> HoldsRef(d)
       /\ HoldsRef(d) => node'[d] = node[d]
       /\ pc'[d] = "resolve" <=> pc[d] = "resolve"
  /\ \A t \in Threads :
       pc'[t] \in {"hold", "lock", "release"} /\ goal'[t] = "transition"
         => pc[t] \in {"hold", "lock", "release"} /\ goal[t] = "transition"

\* It moves no node.
LEMMA OutsideKeeps ==
  ASSUME OfferInv, Outside
  PROVE  Keeps
<1>1. \A n : Offered(n)' <=> Offered(n)
  BY DEF Outside, Offered
<1>2. EndInRef' <=> EndInRef
  BY DEF Outside, EndInRef, InRef, HoldsRef
<1>3. \A t \in Threads : pc'[t] \in {"hold", "lock", "release"} /\ goal'[t] = "transition"
                           => node'[t] \in Nodes
  BY DEF Outside, HoldsRef, OfferInv
<1>4. \A c \in Coroutines : HoldsRef(c)' /\ pc'[c] # "resolve" => node'[c] # EndNode
  BY DEF Outside, OfferInv
<1>5. QED
  BY <1>1, <1>2, <1>3, <1>4 DEF Keeps, Outside

\* Every step but those that store a node or the end node in the ref or the path.
LEMMA StepsKeep ==
  ASSUME TypeInv, LockInv, ScriptInv
  PROVE
         /\ \A c \in Coroutines : Exchange(c) => Keeps
         /\ \A c \in Coroutines : ExchangeOwned(c) => Keeps
         /\ \A c \in Coroutines : ResolveLock(c) => Keeps
         /\ \A c \in Coroutines : ResolveRestore(c) => Keeps
         /\ \A c \in Coroutines : ResolveEnd(c) => Keeps
         /\ \A c \in Coroutines : SemWait(c) => Keeps
         /\ \A c \in Coroutines : SemSignal(c) => Keeps
         /\ \A c \in Coroutines : FoundByException(c) => Keeps
         /\ \A c \in Coroutines : WriteException(c) => Keeps
         /\ \A c \in Coroutines : PostException(c) => Keeps
         /\ \A t \in Threads : BeginTransition(t) => Keeps
         /\ \A t \in Threads : FoundByTransition(t) => Keeps
         /\ \A t \in Threads : Eval(t) => Keeps
         /\ \A t \in Threads : EvalViolation(t) => Keeps
         /\ \A t \in Threads : LockMutex(t) => Keeps
         /\ \A t \in Threads : PostTransition(t) => Keeps
         /\ \A t \in Threads : Park(t) => Keeps
         /\ \A t \in Threads : CondTimeout(t) => Keeps
         /\ \A t \in Threads : CondSpurious(t) => Keeps
         /\ \A t \in Threads : Reacquire(t) => Keeps
         /\ \A t \in Threads, e \in SutCalls : Raise(t, e) => Keeps
         /\ \A t \in Threads : NotifyWaiters(t) => Keeps
         /\ \A t \in Threads : ThreadEnd(t) => Keeps
         /\ SpinTimeout => Keeps
         /\ WaitTimeout => Keeps
         /\ ElapsedTimeout => Keeps
         /\ BeginStatement => Keeps
         /\ ScriptEnd => Keeps
         /\ \A e \in ScriptThrows : ScriptThrow(e) => Keeps
         /\ FoundByScript => Keeps
         /\ FoundByEndSuccess => Keeps
         /\ PostSuccess => Keeps
         /\ MainNotifyWaiters => Keeps
         /\ RunUncontrolled => Keeps
         /\ JoinAllThreads => Keeps
         /\ JoinDeadlock => Keeps
         /\ EndSearch => Keeps
         /\ StartUnreachable => Keeps
<1> USE RendezvousAssumption
<1>0. /\ pc \in [Coroutines -> ThreadLabels \cup MainLabels]
      /\ goal \in [Coroutines -> Goals]
      /\ node \in [Coroutines -> RefValues]
      /\ out \in [Coroutines -> Decisions]
      /\ pc[Main] \in MainLabels
      /\ owner \in Coroutines \cup {NULL}
      /\ OwnerInv /\ LockExclusion /\ OfferInv
  BY DEF TypeInv, TypeOK, LockInv, ScriptInv
<1>1. ASSUME NEW c \in Coroutines, Exchange(c) PROVE Keeps
  <2>1. \A d \in Coroutines : ~HoldsRef(d) /\ pc[d] # "resolve"
    BY <1>1, <1>0 DEF Exchange, LockExclusion, HoldsRef
  <2>2. /\ \A d \in Coroutines : HoldsRef(d)' <=> d = c
        /\ \A d \in Coroutines : pc'[d] = "resolve" <=> d = c
        /\ node'[c] = ref /\ ref' = LockNode /\ UNCHANGED <<path, stmt>>
    BY <1>1, <1>0, <2>1 DEF Exchange, HoldsRef
  <2>3. \A n \in Nodes : Offered(n)' <=> Offered(n)
    BY <2>1, <2>2, NodesAreNot DEF Offered
  <2>4. EndInRef' <=> EndInRef
    BY <2>1, <2>2, NodesAreNot DEF EndInRef, InRef
  <2>5. \A t \in Threads : pc'[t] \notin {"hold", "lock", "release"}
    BY <1>1, <1>0, <2>1 DEF Exchange, HoldsRef
  <2>6. QED
    BY <2>2, <2>3, <2>4, <2>5 DEF Keeps
<1>2. ASSUME NEW c \in Coroutines, ExchangeOwned(c) PROVE Keeps
  <2>1. Outside
    BY <1>2, <1>0
    DEF ExchangeOwned, Check, Outside, HoldsRef, OwnerInv, LockExclusion, MainLabels
  <2>2. QED
    BY <2>1, <1>0, OutsideKeeps
<1>3. ASSUME NEW c \in Coroutines, ResolveLock(c) PROVE Keeps
  <2>1. /\ \A d \in Coroutines : HoldsRef(d) <=> d = c
        /\ node[c] # EndNode /\ pc[c] = "resolve" /\ ref = LockNode
    BY <1>3, <1>0, NodesAreNot DEF ResolveLock, LockExclusion, HoldsRef
  <2>2. /\ \A d \in Coroutines : HoldsRef(d)' <=> d = c
        /\ \A d \in Coroutines : pc'[d] # "resolve"
        /\ UNCHANGED <<ref, node, path, stmt, goal>>
    BY <1>3, <1>0, <2>1 DEF ResolveLock, HoldsRef
  <2>3. \A n \in Nodes : Offered(n)' <=> Offered(n)
    BY <2>1, <2>2 DEF Offered
  <2>4. EndInRef' <=> EndInRef
    BY <2>1, <2>2 DEF EndInRef, InRef, HoldsRef
  <2>5. \A t \in Threads : pc'[t] \in {"hold", "lock", "release"} /\ goal'[t] = "transition"
                           => node'[t] \in Nodes
    BY <1>3, <1>0, <2>1, <2>2 DEF ResolveLock, HoldsRef, Mode, AcquireModes
  <2>6. QED
    BY <2>1, <2>2, <2>3, <2>4, <2>5 DEF Keeps
<1>4. ASSUME NEW c \in Coroutines, ResolveRestore(c) PROVE Keeps
  <2>1. /\ \A d \in Coroutines : HoldsRef(d) <=> d = c
        /\ pc[c] = "resolve" /\ ref = LockNode
    BY <1>4, <1>0 DEF ResolveRestore, LockExclusion, HoldsRef
  <2>2. /\ \A d \in Coroutines : ~HoldsRef(d)' /\ pc'[d] # "resolve"
        /\ ref' = node[c] /\ UNCHANGED <<node, path, stmt>>
    BY <1>4, <1>0, <2>1 DEF ResolveRestore, HoldsRef
  <2>3. \A n \in Nodes : Offered(n)' <=> Offered(n)
    BY <2>1, <2>2, NodesAreNot DEF Offered
  <2>4. EndInRef' <=> EndInRef
    BY <2>1, <2>2, NodesAreNot DEF EndInRef, InRef, HoldsRef
  <2>5. QED
    BY <2>2, <2>3, <2>4 DEF Keeps, HoldsRef
<1>5. ASSUME NEW c \in Coroutines, ResolveEnd(c) PROVE Keeps
  <2>1. /\ \A d \in Coroutines : HoldsRef(d) <=> d = c
        /\ pc[c] = "resolve" /\ ref = LockNode
    BY <1>5, <1>0 DEF ResolveEnd, LockExclusion, HoldsRef
  <2>2. /\ \A d \in Coroutines : ~HoldsRef(d)' /\ pc'[d] # "resolve"
        /\ ref' = node[c] /\ UNCHANGED <<node, path, stmt>>
    BY <1>5, <1>0, <2>1 DEF ResolveEnd, HoldsRef
  <2>3. \A n \in Nodes : Offered(n)' <=> Offered(n)
    BY <2>1, <2>2, NodesAreNot DEF Offered
  <2>4. EndInRef' <=> EndInRef
    BY <2>1, <2>2, NodesAreNot DEF EndInRef, InRef, HoldsRef
  <2>5. QED
    BY <2>2, <2>3, <2>4 DEF Keeps, HoldsRef
<1>6. ASSUME NEW c \in Coroutines, SemWait(c) PROVE Keeps
  <2>1. Outside
    BY <1>6, <1>0 DEF SemWait, Outside, HoldsRef, OwnerInv, LockExclusion, MainLabels
  <2>2. QED
    BY <2>1, <1>0, OutsideKeeps
<1>7. ASSUME NEW c \in Coroutines, SemSignal(c) PROVE Keeps
  <2>1. Outside
    BY <1>7, <1>0
    DEF SemSignal, Signalled, Outside, HoldsRef, OwnerInv, LockExclusion, MainLabels
  <2>2. QED
    BY <2>1, <1>0, OutsideKeeps
<1>8. ASSUME NEW c \in Coroutines, FoundByException(c) PROVE Keeps
  <2>1. Outside
    BY <1>8, <1>0
    DEF FoundByException, Outside, HoldsRef, OwnerInv, LockExclusion, MainLabels
  <2>2. QED
    BY <2>1, <1>0, OutsideKeeps
<1>9. ASSUME NEW c \in Coroutines, WriteException(c) PROVE Keeps
  <2>1. Outside
    BY <1>9, <1>0 DEF WriteException, Outside, HoldsRef, OwnerInv, LockExclusion, MainLabels
  <2>2. QED
    BY <2>1, <1>0, OutsideKeeps
<1>10. ASSUME NEW c \in Coroutines, PostException(c) PROVE Keeps
  <2>1. Outside
    BY <1>10, <1>0
    DEF PostException, Signalled, Outside, HoldsRef, OwnerInv, LockExclusion,
        MainLabels
  <2>2. QED
    BY <2>1, <1>0, OutsideKeeps
<1>11. ASSUME NEW t \in Threads, BeginTransition(t) PROVE Keeps
  <2>1. Outside
    BY <1>11, <1>0
    DEF BeginTransition, Outside, HoldsRef, OwnerInv, LockExclusion, MainLabels
  <2>2. QED
    BY <2>1, <1>0, OutsideKeeps
<1>12. ASSUME NEW t \in Threads, FoundByTransition(t) PROVE Keeps
  <2>1. Outside
    BY <1>12, <1>0
    DEF FoundByTransition, Return, Outside, HoldsRef, OwnerInv, LockExclusion,
        MainLabels
  <2>2. QED
    BY <2>1, <1>0, OutsideKeeps
<1>13. ASSUME NEW t \in Threads, Eval(t) PROVE Keeps
  <2>1. Outside
    BY <1>13, <1>0
    DEF Eval, Check, Broadcast, Outside, HoldsRef, OwnerInv, LockExclusion, MainLabels
  <2>2. QED
    BY <2>1, <1>0, OutsideKeeps
<1>14. ASSUME NEW t \in Threads, EvalViolation(t) PROVE Keeps
  <2>1. Outside
    BY <1>14, <1>0 DEF EvalViolation, Outside, HoldsRef, OwnerInv, LockExclusion, MainLabels
  <2>2. QED
    BY <2>1, <1>0, OutsideKeeps
<1>15. ASSUME NEW t \in Threads, LockMutex(t) PROVE Keeps
  <2>1. Outside
    BY <1>15, <1>0 DEF LockMutex, Outside, HoldsRef, OwnerInv, LockExclusion, MainLabels
  <2>2. QED
    BY <2>1, <1>0, OutsideKeeps
<1>16. ASSUME NEW t \in Threads, PostTransition(t) PROVE Keeps
  <2>1. Outside
    BY <1>16, <1>0
    DEF PostTransition, Return, Signalled, Outside, HoldsRef, OwnerInv, LockExclusion,
        MainLabels
  <2>2. QED
    BY <2>1, <1>0, OutsideKeeps
<1>17. ASSUME NEW t \in Threads, Park(t) PROVE Keeps
  <2>1. Outside
    BY <1>17, <1>0 DEF Park, Outside, HoldsRef, OwnerInv, LockExclusion, MainLabels
  <2>2. QED
    BY <2>1, <1>0, OutsideKeeps
<1>18. ASSUME NEW t \in Threads, CondTimeout(t) PROVE Keeps
  <2>1. Outside
    BY <1>18, <1>0 DEF CondTimeout, Outside, HoldsRef, OwnerInv, LockExclusion, MainLabels
  <2>2. QED
    BY <2>1, <1>0, OutsideKeeps
<1>19. ASSUME NEW t \in Threads, CondSpurious(t) PROVE Keeps
  <2>1. Outside
    BY <1>19, <1>0 DEF CondSpurious, Outside, HoldsRef, OwnerInv, LockExclusion, MainLabels
  <2>2. QED
    BY <2>1, <1>0, OutsideKeeps
<1>20. ASSUME NEW t \in Threads, Reacquire(t) PROVE Keeps
  <2>1. Outside
    BY <1>20, <1>0 DEF Reacquire, Outside, HoldsRef, OwnerInv, LockExclusion, MainLabels
  <2>2. QED
    BY <2>1, <1>0, OutsideKeeps
<1>21. ASSUME NEW t \in Threads, NEW e \in SutCalls, Raise(t, e) PROVE Keeps
  <2>1. Outside
    BY <1>21, <1>0 DEF Raise, Outside, HoldsRef, OwnerInv, LockExclusion, MainLabels
  <2>2. QED
    BY <2>1, <1>0, OutsideKeeps
<1>22. ASSUME NEW t \in Threads, NotifyWaiters(t) PROVE Keeps
  <2>1. Outside
    BY <1>22, <1>0
    DEF NotifyWaiters, Broadcast, Return, Outside, HoldsRef, OwnerInv, LockExclusion,
        MainLabels
  <2>2. QED
    BY <2>1, <1>0, OutsideKeeps
<1>23. ASSUME NEW t \in Threads, ThreadEnd(t) PROVE Keeps
  <2>1. Outside
    BY <1>23, <1>0 DEF ThreadEnd, Outside, HoldsRef, OwnerInv, LockExclusion, MainLabels
  <2>2. QED
    BY <2>1, <1>0, OutsideKeeps
<1>24. ASSUME SpinTimeout PROVE Keeps
  <2>1. Outside
    BY <1>24, <1>0
    DEF SpinTimeout, Check, MainThrows, Outside, HoldsRef, OwnerInv, LockExclusion,
        MainLabels
  <2>2. QED
    BY <2>1, <1>0, OutsideKeeps
<1>25. ASSUME WaitTimeout PROVE Keeps
  <2>1. Outside
    BY <1>25, <1>0
    DEF WaitTimeout, MainThrows, Outside, HoldsRef, OwnerInv, LockExclusion,
        MainLabels
  <2>2. QED
    BY <2>1, <1>0, OutsideKeeps
<1>26. ASSUME ElapsedTimeout PROVE Keeps
  <2>1. Outside
    BY <1>26, <1>0
    DEF ElapsedTimeout, MainThrows, Signalled, Outside, HoldsRef, OwnerInv,
        LockExclusion, MainLabels
  <2>2. QED
    BY <2>1, <1>0, OutsideKeeps
<1>27. ASSUME BeginStatement PROVE Keeps
  <2>1. Outside
    BY <1>27, <1>0
    DEF BeginStatement, MainThrows, Outside, HoldsRef, OwnerInv, LockExclusion,
        MainLabels
  <2>2. QED
    BY <2>1, <1>0, OutsideKeeps
<1>28. ASSUME ScriptEnd PROVE Keeps
  <2>1. Outside
    BY <1>28, <1>0
    DEF ScriptEnd, MainThrows, Outside, HoldsRef, OwnerInv, LockExclusion, MainLabels
  <2>2. QED
    BY <2>1, <1>0, OutsideKeeps
<1>29. ASSUME NEW e \in ScriptThrows, ScriptThrow(e) PROVE Keeps
  <2>1. Outside
    BY <1>29, <1>0
    DEF ScriptThrow, MainThrows, Outside, HoldsRef, OwnerInv, LockExclusion,
        MainLabels
  <2>2. QED
    BY <2>1, <1>0, OutsideKeeps
<1>30. ASSUME FoundByScript PROVE Keeps
  <2>1. Outside
    BY <1>30, <1>0
    DEF FoundByScript, Check, MainThrows, Outside, HoldsRef, OwnerInv, LockExclusion,
        MainLabels
  <2>2. QED
    BY <2>1, <1>0, OutsideKeeps
<1>31. ASSUME FoundByEndSuccess PROVE Keeps
  <2>1. Outside
    BY <1>31, <1>0
    DEF FoundByEndSuccess, Check, Outside, HoldsRef, OwnerInv, LockExclusion,
        MainLabels
  <2>2. QED
    BY <2>1, <1>0, OutsideKeeps
<1>32. ASSUME PostSuccess PROVE Keeps
  <2>1. Outside
    BY <1>32, <1>0
    DEF PostSuccess, Signalled, Outside, HoldsRef, OwnerInv, LockExclusion, MainLabels
  <2>2. QED
    BY <2>1, <1>0, OutsideKeeps
<1>33. ASSUME MainNotifyWaiters PROVE Keeps
  <2>1. Outside
    BY <1>33, <1>0
    DEF MainNotifyWaiters, Broadcast, Outside, HoldsRef, OwnerInv, LockExclusion,
        MainLabels
  <2>2. QED
    BY <2>1, <1>0, OutsideKeeps
<1>34. ASSUME RunUncontrolled PROVE Keeps
  <2>1. Outside
    BY <1>34, <1>0
    DEF RunUncontrolled, Outside, HoldsRef, OwnerInv, LockExclusion, MainLabels
  <2>2. QED
    BY <2>1, <1>0, OutsideKeeps
<1>35. ASSUME JoinAllThreads PROVE Keeps
  <2>1. Outside
    BY <1>35, <1>0
    DEF JoinAllThreads, Outside, HoldsRef, OwnerInv, LockExclusion, MainLabels
  <2>2. QED
    BY <2>1, <1>0, OutsideKeeps
<1>36. ASSUME JoinDeadlock PROVE Keeps
  <2>1. Outside
    BY <1>36, <1>0
    DEF JoinDeadlock, AddException, Outside, HoldsRef, OwnerInv, LockExclusion,
        MainLabels
  <2>2. QED
    BY <2>1, <1>0, OutsideKeeps
<1>37. ASSUME EndSearch PROVE Keeps
  <2>1. Outside
    BY <1>37, <1>0 DEF EndSearch, Outside, HoldsRef, OwnerInv, LockExclusion, MainLabels
  <2>2. QED
    BY <2>1, <1>0, OutsideKeeps
<1>38. ASSUME StartUnreachable PROVE Keeps
  <2>1. Outside
    BY <1>38, <1>0
    DEF StartUnreachable, Check, Outside, HoldsRef, OwnerInv, LockExclusion,
        MainLabels
  <2>2. QED
    BY <2>1, <1>0, OutsideKeeps
<1>39. QED
  BY <1>1, <1>2, <1>3, <1>4, <1>5, <1>6, <1>7, <1>8, <1>9, <1>10, <1>11, <1>12, <1>13,
     <1>14, <1>15, <1>16, <1>17, <1>18, <1>19, <1>20, <1>21, <1>22, <1>23, <1>24, <1>25,
     <1>26, <1>27, <1>28, <1>29, <1>30, <1>31, <1>32, <1>33, <1>34, <1>35, <1>36, <1>37,
     <1>38

\* What a step that moves no node leaves as it was.
LEMMA Kept ==
  ASSUME Keeps
  PROVE  /\ NumConsumed' = NumConsumed /\ stmt' = stmt /\ PathEnded' = PathEnded
         /\ \A n \in Nodes : Offered(n)' <=> Offered(n)
         /\ EndInRef' <=> EndInRef
BY PathSame DEF Keeps

\* Who has the ref after the exchange is alone with it, and no end node is about.
LEMMA Alone ==
  ASSUME LockInv, EndInv, NEW c \in Coroutines, pc[c] \in {"hold", "release"}
  PROVE  /\ ref = LockNode
         /\ \A d \in Coroutines : HoldsRef(d) <=> d = c
         /\ ~EndInRef
         /\ goal[c] # "endSuccess" => ~PathEnded
<1>1. ref = LockNode /\ \A d \in Coroutines : HoldsRef(d) <=> d = c
  BY DEF LockInv, LockExclusion, HoldsRef
<1>2. ~EndInRef
  BY <1>1, NodesAreNot DEF EndInRef, InRef, HoldsRef
<1>3. goal[c] # "endSuccess" => ~Forced
  BY <1>1 DEF Forced, HoldsRef
<1>4. QED
  BY <1>1, <1>2, <1>3 DEF EndInv

\* ReleaseRef stores value in the ref and leaves nobody with the lock.
LEMMA Released ==
  ASSUME TypeOK, LockInv, NEW c \in Coroutines, pc[c] \in {"hold", "release"},
         NEW value \in RefValues, value # LockNode, NEW added,
         ReleaseRef(c, value, added), pc' = [pc EXCEPT ![c] = "post"]
  PROVE  /\ ref' = value /\ path' = path \o added
         /\ \A d \in Coroutines : ~HoldsRef(d)' /\ pc'[d] # "resolve"
         /\ \A n : Offered(n)' <=> value = n
         /\ EndInRef' <=> value = EndNode
         /\ \A t \in Threads : pc'[t] \notin {"hold", "lock", "release"}
<1>1. LockExclusion' /\ ref' = value /\ path' = path \o added
  BY Releasing DEF ReleaseRef
<1>2. \A d \in Coroutines : ~HoldsRef(d)'
  BY <1>1 DEF LockExclusion
<1>3. QED
  BY <1>1, <1>2 DEF HoldsRef, Offered, EndInRef, InRef

\* Nobody holds the ref, so OfferInv is about the path and the ref alone.
LEMMA ReleasedOffers ==
  ASSUME TypeOK', \A d \in Coroutines : ~HoldsRef(d)' /\ pc'[d] # "resolve",
         \A i \in 1..NumConsumed' : path'[i] = i,
         NumConsumed' \in {stmt' - 1, stmt'},
         \A n \in Nodes : Offered(n)' => n = stmt' /\ NumConsumed' = stmt' - 1
  PROVE  OfferInv'
BY DEF OfferInv, HoldsRef

\* Every step keeps ScriptInv.
LEMMA ScriptStep ==
  ASSUME TypeInv, TypeInv', LockInv, ScriptInv, [Next]_vars
  PROVE  ScriptInv'
<1> USE RendezvousAssumption
<1>0. /\ pc \in [Coroutines -> ThreadLabels \cup MainLabels]
      /\ goal \in [Coroutines -> Goals]
      /\ node \in [Coroutines -> RefValues]
      /\ out \in [Coroutines -> Decisions]
      /\ pc[Main] \in MainLabels
      /\ owner \in Coroutines \cup {NULL}
      /\ OwnerInv /\ LockExclusion /\ OfferInv /\ StatementInv /\ EndInv /\ TypeOK
  BY DEF TypeInv, TypeOK, LockInv, ScriptInv
<1>1. ASSUME NEW c \in Coroutines, Exchange(c) PROVE ScriptInv'
  <2>1. Keeps
    BY <1>1, StepsKeep
  <2>2. CASE c \in Threads
    <3>1. MainSame
      BY <1>1, <1>0, <2>2 DEF Exchange, MainSame
    <3>2. QED
      BY <2>1, <3>1, <1>0, KeepsScriptInv
  <2>3. CASE c = Main
    <3>1. OfferInv'
        BY <2>1, <1>0, KeepsOfferInv
    <3>2. StatementInv'
        BY <1>1, <1>0, <2>1, Kept, <2>3
        DEF Exchange, StatementInv, Submitting, Awaiting, Finished, Acquiring,
            Mode, AcquireModes
    <3>3. EndInv'
        BY <1>1, <1>0, <2>1, Kept, NodesAreNot, <2>3
        DEF Exchange, EndInv, StatementInv, Forced, Mode, AcquireModes
    <3>4. QED
        BY <3>1, <3>2, <3>3 DEF ScriptInv
  <2>4. QED
    BY <2>2, <2>3
<1>2. ASSUME NEW c \in Coroutines, ExchangeOwned(c) PROVE ScriptInv'
  <2>1. Keeps
    BY <1>2, StepsKeep
  <2>2. CASE c \in Threads
    <3>1. MainSame
      BY <1>2, <1>0, <2>2 DEF ExchangeOwned, Check, MainSame
    <3>2. QED
      BY <2>1, <3>1, <1>0, KeepsScriptInv
  <2>3. CASE c = Main
    <3>1. OfferInv'
        BY <2>1, <1>0, KeepsOfferInv
    <3>2. StatementInv'
        BY <1>2, <1>0, <2>1, Kept, <2>3
        DEF ExchangeOwned, Check, StatementInv, Submitting, Awaiting, Finished,
            Acquiring, OwnerInv, Mode, AcquireModes
    <3>3. EndInv'
        BY <1>2, <1>0, <2>1, Kept, NodesAreNot, <2>3
        DEF ExchangeOwned, Check, EndInv, StatementInv, Forced, Mode, AcquireModes
    <3>4. QED
        BY <3>1, <3>2, <3>3 DEF ScriptInv
  <2>4. QED
    BY <2>2, <2>3
<1>3. ASSUME NEW c \in Coroutines, ResolveLock(c) PROVE ScriptInv'
  <2>1. Keeps
    BY <1>3, StepsKeep
  <2>2. CASE c \in Threads
    <3>1. MainSame
      BY <1>3, <1>0, <2>2 DEF ResolveLock, Check, MainSame
    <3>2. QED
      BY <2>1, <3>1, <1>0, KeepsScriptInv
  <2>3. CASE c = Main
    <3>1. OfferInv'
        BY <2>1, <1>0, KeepsOfferInv
    <3>2. StatementInv'
        BY <1>3, <1>0, <2>1, Kept, <2>3
        DEF ResolveLock, Check, StatementInv, Submitting, Awaiting, Finished,
            Acquiring, Mode, AcquireModes
    <3>3. EndInv'
        BY <1>3, <1>0, <2>1, Kept, NodesAreNot, <2>3
        DEF ResolveLock, Check, EndInv, StatementInv, Forced, Mode, AcquireModes
    <3>4. QED
        BY <3>1, <3>2, <3>3 DEF ScriptInv
  <2>4. QED
    BY <2>2, <2>3
<1>4. ASSUME NEW c \in Coroutines, ResolveRestore(c) PROVE ScriptInv'
  <2>1. Keeps
    BY <1>4, StepsKeep
  <2>2. CASE c \in Threads
    <3>1. MainSame
      BY <1>4, <1>0, <2>2 DEF ResolveRestore, MainSame
    <3>2. QED
      BY <2>1, <3>1, <1>0, KeepsScriptInv
  <2>3. CASE c = Main
    <3>0. goal[Main] \in {"submit", "consumed"}
      BY <1>4, <1>0, <2>3 DEF ResolveRestore, Mode, AcquireModes, Goals, TypeOK
    <3>1. OfferInv'
        BY <2>1, <1>0, KeepsOfferInv
    <3>2. StatementInv'
        BY <1>4, <1>0, <2>1, Kept, <2>3, <3>0
        DEF ResolveRestore, StatementInv, Submitting, Awaiting, Finished,
            Acquiring, Mode, AcquireModes
    <3>3. EndInv'
        BY <1>4, <1>0, <2>1, Kept, NodesAreNot, <2>3
        DEF ResolveRestore, EndInv, StatementInv, Forced, Mode, AcquireModes
    <3>4. QED
        BY <3>1, <3>2, <3>3 DEF ScriptInv
  <2>4. QED
    BY <2>2, <2>3
<1>5. ASSUME NEW c \in Coroutines, ResolveEnd(c) PROVE ScriptInv'
  <2>1. Keeps
    BY <1>5, StepsKeep
  <2>2. CASE c \in Threads
    <3>1. MainSame
      BY <1>5, <1>0, <2>2 DEF ResolveEnd, MainSame
    <3>2. QED
      BY <2>1, <3>1, <1>0, KeepsScriptInv
  <2>3. CASE c = Main
    <3>1. OfferInv'
        BY <2>1, <1>0, KeepsOfferInv
    <3>2. StatementInv'
        BY <1>5, <1>0, <2>1, Kept, <2>3
        DEF ResolveEnd, StatementInv, Submitting, Awaiting, Finished, Acquiring,
            Mode, AcquireModes
    <3>3. EndInv'
        BY <1>5, <1>0, <2>1, Kept, NodesAreNot, <2>3
        DEF ResolveEnd, EndInv, StatementInv, Forced, Mode, AcquireModes
    <3>4. QED
        BY <3>1, <3>2, <3>3 DEF ScriptInv
  <2>4. QED
    BY <2>2, <2>3
<1>6. ASSUME NEW c \in Coroutines, SemWait(c) PROVE ScriptInv'
  <2>1. Keeps
    BY <1>6, StepsKeep
  <2>2. CASE c \in Threads
    <3>1. MainSame
      BY <1>6, <1>0, <2>2 DEF SemWait, MainSame
    <3>2. QED
      BY <2>1, <3>1, <1>0, KeepsScriptInv
  <2>3. CASE c = Main
    <3>1. OfferInv'
        BY <2>1, <1>0, KeepsOfferInv
    <3>2. StatementInv'
        BY <1>6, <1>0, <2>1, Kept, <2>3
        DEF SemWait, StatementInv, Submitting, Awaiting, Finished, Acquiring,
            Mode, AcquireModes
    <3>3. EndInv'
        BY <1>6, <1>0, <2>1, Kept, NodesAreNot, <2>3
        DEF SemWait, EndInv, StatementInv, Forced, Mode, AcquireModes
    <3>4. QED
        BY <3>1, <3>2, <3>3 DEF ScriptInv
  <2>4. QED
    BY <2>2, <2>3
<1>7. ASSUME NEW c \in Coroutines, SemSignal(c) PROVE ScriptInv'
  <2>1. Keeps
    BY <1>7, StepsKeep
  <2>2. CASE c \in Threads
    <3>1. MainSame
      BY <1>7, <1>0, <2>2 DEF SemSignal, Signalled, MainSame
    <3>2. QED
      BY <2>1, <3>1, <1>0, KeepsScriptInv
  <2>3. CASE c = Main
    <3>1. OfferInv'
        BY <2>1, <1>0, KeepsOfferInv
    <3>2. StatementInv'
        BY <1>7, <1>0, <2>1, Kept, <2>3
        DEF SemSignal, Signalled, StatementInv, Submitting, Awaiting, Finished,
            Acquiring, Mode, AcquireModes
    <3>3. EndInv'
        BY <1>7, <1>0, <2>1, Kept, NodesAreNot, <2>3
        DEF SemSignal, Signalled, EndInv, StatementInv, Forced, Mode, AcquireModes
    <3>4. QED
        BY <3>1, <3>2, <3>3 DEF ScriptInv
  <2>4. QED
    BY <2>2, <2>3
<1>8. ASSUME NEW c \in Coroutines, FoundByException(c) PROVE ScriptInv'
  <2>1. Keeps
    BY <1>8, StepsKeep
  <2>2. CASE c \in Threads
    <3>1. MainSame
      BY <1>8, <1>0, <2>2 DEF FoundByException, MainSame
    <3>2. QED
      BY <2>1, <3>1, <1>0, KeepsScriptInv
  <2>3. CASE c = Main
    <3>1. OfferInv'
        BY <2>1, <1>0, KeepsOfferInv
    <3>2. StatementInv'
        BY <1>8, <1>0, <2>1, Kept, <2>3
        DEF FoundByException, StatementInv, Submitting, Awaiting, Finished,
            Acquiring, Mode, AcquireModes
    <3>3. EndInv'
        BY <1>8, <1>0, <2>1, Kept, NodesAreNot, <2>3
        DEF FoundByException, EndInv, StatementInv, Forced, Mode, AcquireModes
    <3>4. QED
        BY <3>1, <3>2, <3>3 DEF ScriptInv
  <2>4. QED
    BY <2>2, <2>3
<1>9. ASSUME NEW c \in Coroutines, WriteException(c) PROVE ScriptInv'
  <2>1. Keeps
    BY <1>9, StepsKeep
  <2>2. CASE c \in Threads
    <3>1. MainSame
      BY <1>9, <1>0, <2>2 DEF WriteException, MainSame
    <3>2. QED
      BY <2>1, <3>1, <1>0, KeepsScriptInv
  <2>3. CASE c = Main
    <3>1. OfferInv'
        BY <2>1, <1>0, KeepsOfferInv
    <3>2. StatementInv'
        BY <1>9, <1>0, <2>1, Kept, <2>3
        DEF WriteException, StatementInv, Submitting, Awaiting, Finished,
            Acquiring, Mode, AcquireModes
    <3>3. EndInv'
        BY <1>9, <1>0, <2>1, Kept, NodesAreNot, <2>3
        DEF WriteException, EndInv, StatementInv, Forced, Mode, AcquireModes
    <3>4. QED
        BY <3>1, <3>2, <3>3 DEF ScriptInv
  <2>4. QED
    BY <2>2, <2>3
<1>10. ASSUME NEW c \in Coroutines, InsertEnd(c) PROVE ScriptInv'
  <2>1. /\ pc[c] = "hold" /\ goal[c] = "endException"
        /\ ReleaseRef(c, EndNode, <<EndNode>>) /\ pc' = [pc EXCEPT ![c] = "post"]
        /\ UNCHANGED <<goal, node, out, stmt>>
    BY <1>10 DEF InsertEnd
  <2>2. ~PathEnded
    BY <2>1, <1>0, Alone
  <2>3. /\ path' = path \o <<EndNode>>
        /\ \A d \in Coroutines : ~HoldsRef(d)' /\ pc'[d] # "resolve"
        /\ \A n \in Nodes : ~Offered(n)'
        /\ EndInRef'
    BY <1>0, <2>1, Released, NodesAreNot DEF RefValues
  <2>4. /\ PathEnded' /\ NumConsumed' = NumConsumed
        /\ \A i \in 1..NumConsumed' : path'[i] = i
    BY <1>0, <2>2, <2>3, PathEnds DEF OfferInv
  <2>5. OfferInv'
    BY <1>0, <2>1, <2>3, <2>4, ReleasedOffers DEF OfferInv, TypeInv
  <2>6. c = Main => out[Main] = "none"
    BY <1>10, <2>1 DEF InsertEnd, TypeInv
  <2>7. StatementInv'
    BY <1>0, <2>1, <2>3, <2>4, <2>6
    DEF StatementInv, Submitting, Awaiting, Finished, Acquiring
  <2>8. EndInv'
    BY <1>0, <2>1, <2>3, <2>4 DEF EndInv
  <2>9. QED
    BY <2>5, <2>7, <2>8 DEF ScriptInv
<1>11. ASSUME NEW c \in Coroutines, PostException(c) PROVE ScriptInv'
  <2>1. Keeps
    BY <1>11, StepsKeep
  <2>2. CASE c \in Threads
    <3>1. MainSame
      BY <1>11, <1>0, <2>2 DEF PostException, Signalled, MainSame
    <3>2. QED
      BY <2>1, <3>1, <1>0, KeepsScriptInv
  <2>3. CASE c = Main
    <3>1. OfferInv'
        BY <2>1, <1>0, KeepsOfferInv
    <3>2. StatementInv'
        BY <1>11, <1>0, <2>1, Kept, <2>3
        DEF PostException, Signalled, StatementInv, Submitting, Awaiting,
            Finished, Acquiring, Mode, AcquireModes
    <3>3. EndInv'
        BY <1>11, <1>0, <2>1, Kept, NodesAreNot, <2>3
        DEF PostException, Signalled, EndInv, StatementInv, Forced, Mode,
            AcquireModes
    <3>4. QED
        BY <3>1, <3>2, <3>3 DEF ScriptInv
  <2>4. QED
    BY <2>2, <2>3
<1>12. ASSUME NEW t \in Threads, BeginTransition(t) PROVE ScriptInv'
  <2>1. Keeps
    BY <1>12, StepsKeep
  <2>2. MainSame
    BY <1>12, <1>0 DEF BeginTransition, MainSame, MainLabels
  <2>3. QED
    BY <2>1, <2>2, <1>0, KeepsScriptInv
<1>13. ASSUME NEW t \in Threads, FoundByTransition(t) PROVE ScriptInv'
  <2>1. Keeps
    BY <1>13, StepsKeep
  <2>2. MainSame
    BY <1>13, <1>0 DEF FoundByTransition, Return, MainSame, MainLabels
  <2>3. QED
    BY <2>1, <2>2, <1>0, KeepsScriptInv
<1>14. ASSUME NEW t \in Threads, Eval(t) PROVE ScriptInv'
  <2>1. Keeps
    BY <1>14, StepsKeep
  <2>2. MainSame
    BY <1>14, <1>0 DEF Eval, Check, Broadcast, MainSame, MainLabels
  <2>3. QED
    BY <2>1, <2>2, <1>0, KeepsScriptInv
<1>15. ASSUME NEW t \in Threads, EvalViolation(t) PROVE ScriptInv'
  <2>1. Keeps
    BY <1>15, StepsKeep
  <2>2. MainSame
    BY <1>15, <1>0 DEF EvalViolation, MainSame, MainLabels
  <2>3. QED
    BY <2>1, <2>2, <1>0, KeepsScriptInv
<1>16. ASSUME NEW t \in Threads, LockMutex(t) PROVE ScriptInv'
  <2>1. Keeps
    BY <1>16, StepsKeep
  <2>2. MainSame
    BY <1>16, <1>0 DEF LockMutex, MainSame, MainLabels
  <2>3. QED
    BY <2>1, <2>2, <1>0, KeepsScriptInv
<1>17. ASSUME NEW t \in Threads, ReleaseTransition(t) PROVE ScriptInv'
  <2>1. /\ pc[t] = "release" /\ goal[t] = "transition" /\ node[t] \in Nodes
        /\ pc' = [pc EXCEPT ![t] = "post"] /\ UNCHANGED <<goal, node, out, stmt>>
    BY <1>17 DEF ReleaseTransition, TypeInv
  <2>2. /\ ~EndInRef /\ ~PathEnded /\ ref = LockNode
        /\ \A d \in Coroutines : HoldsRef(d) <=> d = t
    BY <2>1, <1>0, Alone
  <2>3. Offered(node[t]) /\ node[t] = stmt /\ NumConsumed = stmt - 1
    BY <2>1, <2>2, <1>0 DEF Offered, OfferInv
  <2>4. MainSame
    BY <2>1, <1>0 DEF MainSame
  <2>5. CASE out[t] \in Consuming
    <3>1. ReleaseRef(t, Empty, <<node[t]>>)
      BY <1>17, <2>5 DEF ReleaseTransition
    <3>2. /\ path' = path \o <<node[t]>>
          /\ \A d \in Coroutines : ~HoldsRef(d)' /\ pc'[d] # "resolve"
          /\ \A n \in Nodes : ~Offered(n)'
          /\ ~EndInRef'
      BY <1>0, <2>1, <3>1, Released, NodesAreNot DEF RefValues
    <3>3. node[t] = NumConsumed + 1
      BY <2>1, <2>3, <1>0, NumConsumedType DEF Nodes
    <3>4. /\ ~PathEnded' /\ NumConsumed' = stmt
          /\ \A i \in 1..NumConsumed' : path'[i] = i
      BY <1>0, <2>1, <2>2, <2>3, <3>2, <3>3, PathConsumes DEF OfferInv
    <3>5. OfferInv'
      BY <1>0, <2>1, <3>2, <3>4, ReleasedOffers DEF TypeInv
    <3>6. ~Submitting /\ ~Finished /\ Submitting' = Submitting /\ Finished' = Finished
      BY <1>0, <2>1, <2>3, <2>4 DEF MainSame, StatementInv, Submitting, Finished, Acquiring
    <3>7. QED
      BY <1>0, <2>1, <2>4, <3>2, <3>4, <3>5, <3>6
      DEF ScriptInv, EndInv, StatementInv, MainSame
  <2>6. CASE out[t] \notin Consuming
    <3>1. ReleaseRef(t, node[t], <<>>)
      BY <1>17, <2>6 DEF ReleaseTransition
    <3>2. /\ path' = path \o <<>>
          /\ \A d \in Coroutines : ~HoldsRef(d)' /\ pc'[d] # "resolve"
          /\ \A n \in Nodes : Offered(n)' <=> n = node[t]
          /\ ~EndInRef'
      BY ZenonT(40), <1>0, <2>1, <3>1, Released, NodesAreNot DEF RefValues
    <3>3. path' = path
      BY <3>2, <1>0 DEF TypeOK
    <3>4. \A n \in Nodes : Offered(n)' <=> Offered(n)
      BY <1>0, <2>1, <2>2, <2>3, <3>2 DEF OfferInv
    <3>5. Keeps
      BY <2>1, <2>2, <3>2, <3>3, <3>4 DEF Keeps, HoldsRef
    <3>6. QED
      BY <3>5, <2>4, <1>0, KeepsScriptInv
  <2>7. QED
    BY <2>5, <2>6
<1>18. ASSUME NEW t \in Threads, PostTransition(t) PROVE ScriptInv'
  <2>1. Keeps
    BY <1>18, StepsKeep
  <2>2. MainSame
    BY <1>18, <1>0 DEF PostTransition, Return, Signalled, MainSame, MainLabels
  <2>3. QED
    BY <2>1, <2>2, <1>0, KeepsScriptInv
<1>19. ASSUME NEW t \in Threads, Park(t) PROVE ScriptInv'
  <2>1. Keeps
    BY <1>19, StepsKeep
  <2>2. MainSame
    BY <1>19, <1>0 DEF Park, MainSame, MainLabels
  <2>3. QED
    BY <2>1, <2>2, <1>0, KeepsScriptInv
<1>20. ASSUME NEW t \in Threads, CondTimeout(t) PROVE ScriptInv'
  <2>1. Keeps
    BY <1>20, StepsKeep
  <2>2. MainSame
    BY <1>20, <1>0 DEF CondTimeout, MainSame, MainLabels
  <2>3. QED
    BY <2>1, <2>2, <1>0, KeepsScriptInv
<1>21. ASSUME NEW t \in Threads, CondSpurious(t) PROVE ScriptInv'
  <2>1. Keeps
    BY <1>21, StepsKeep
  <2>2. MainSame
    BY <1>21, <1>0 DEF CondSpurious, MainSame, MainLabels
  <2>3. QED
    BY <2>1, <2>2, <1>0, KeepsScriptInv
<1>22. ASSUME NEW t \in Threads, Reacquire(t) PROVE ScriptInv'
  <2>1. Keeps
    BY <1>22, StepsKeep
  <2>2. MainSame
    BY <1>22, <1>0 DEF Reacquire, MainSame, MainLabels
  <2>3. QED
    BY <2>1, <2>2, <1>0, KeepsScriptInv
<1>23. ASSUME NEW t \in Threads, NEW e \in SutCalls, Raise(t, e) PROVE ScriptInv'
  <2>1. Keeps
    BY <1>23, StepsKeep
  <2>2. MainSame
    BY <1>23, <1>0 DEF Raise, MainSame, MainLabels
  <2>3. QED
    BY <2>1, <2>2, <1>0, KeepsScriptInv
<1>24. ASSUME NEW t \in Threads, NotifyWaiters(t) PROVE ScriptInv'
  <2>1. Keeps
    BY <1>24, StepsKeep
  <2>2. MainSame
    BY <1>24, <1>0 DEF NotifyWaiters, Broadcast, Return, MainSame, MainLabels
  <2>3. QED
    BY <2>1, <2>2, <1>0, KeepsScriptInv
<1>25. ASSUME NEW t \in Threads, ThreadEnd(t) PROVE ScriptInv'
  <2>1. Keeps
    BY <1>25, StepsKeep
  <2>2. MainSame
    BY <1>25, <1>0 DEF ThreadEnd, MainSame, MainLabels
  <2>3. QED
    BY <2>1, <2>2, <1>0, KeepsScriptInv
<1>26. ASSUME SpinTimeout PROVE ScriptInv'
  <2>0. Keeps
    BY <1>26, StepsKeep
  <2>1. OfferInv'
      BY <2>0, <1>0, KeepsOfferInv
  <2>2. StatementInv'
      BY <1>26, <1>0, <2>0, Kept
      DEF SpinTimeout, Check, MainThrows, StatementInv, Submitting, Awaiting,
          Finished, Acquiring, Mode, AcquireModes
  <2>3. EndInv'
      BY <1>26, <1>0, <2>0, Kept, NodesAreNot
      DEF SpinTimeout, Timed, Check, MainThrows, Catch, Retriable, EndInv,
          StatementInv, Forced, Mode, AcquireModes
  <2>4. QED
      BY <2>1, <2>2, <2>3 DEF ScriptInv
<1>27. ASSUME WaitTimeout PROVE ScriptInv'
  <2>0. Keeps
    BY <1>27, StepsKeep
  <2>1. OfferInv'
      BY <2>0, <1>0, KeepsOfferInv
  <2>2. StatementInv'
      BY <1>27, <1>0, <2>0, Kept
      DEF WaitTimeout, MainThrows, StatementInv, Submitting, Awaiting, Finished,
          Acquiring, Mode, AcquireModes
  <2>3. EndInv'
      BY <1>27, <1>0, <2>0, Kept, NodesAreNot
      DEF WaitTimeout, MainThrows, Catch, Retriable, EndInv, StatementInv, Forced,
          Mode, AcquireModes
  <2>4. QED
      BY <2>1, <2>2, <2>3 DEF ScriptInv
<1>28. ASSUME ElapsedTimeout PROVE ScriptInv'
  <2>0. Keeps
    BY <1>28, StepsKeep
  <2>1. OfferInv'
      BY <2>0, <1>0, KeepsOfferInv
  <2>2. StatementInv'
      BY <1>28, <1>0, <2>0, Kept
      DEF ElapsedTimeout, MainThrows, Signalled, StatementInv, Submitting, Awaiting,
          Finished, Acquiring, Mode, AcquireModes
  <2>3. EndInv'
      BY <1>28, <1>0, <2>0, Kept, NodesAreNot
      DEF ElapsedTimeout, MainThrows, Catch, Retriable, EndInv, StatementInv,
          Forced, Mode, AcquireModes
  <2>4. QED
      BY <2>1, <2>2, <2>3 DEF ScriptInv
<1>29. ASSUME BeginStatement PROVE ScriptInv'
  <2>0. Keeps
    BY <1>29, StepsKeep
  <2>1. OfferInv'
      BY <2>0, <1>0, KeepsOfferInv
  <2>2. StatementInv'
      BY <1>29, <1>0, <2>0, Kept
      DEF BeginStatement, MainThrows, StatementInv, Submitting, Awaiting, Finished,
          Acquiring, Mode, AcquireModes
  <2>3. EndInv'
      BY <1>29, <1>0, <2>0, Kept, NodesAreNot
      DEF BeginStatement, MainThrows, Catch, Retriable, EndInv, StatementInv,
          Forced, Mode, AcquireModes
  <2>4. QED
      BY <2>1, <2>2, <2>3 DEF ScriptInv
<1>30. ASSUME ScriptEnd PROVE ScriptInv'
  <2>0. Keeps
    BY <1>30, StepsKeep
  <2>1. OfferInv'
      BY <2>0, <1>0, KeepsOfferInv
  <2>2. StatementInv'
      BY <1>30, <1>0, <2>0, Kept
      DEF ScriptEnd, MainThrows, StatementInv, Submitting, Awaiting, Finished,
          Acquiring, Mode, AcquireModes
  <2>3. EndInv'
      BY <1>30, <1>0, <2>0, Kept, NodesAreNot
      DEF ScriptEnd, MainThrows, Catch, Retriable, EndInv, StatementInv, Forced,
          Mode, AcquireModes
  <2>4. QED
      BY <2>1, <2>2, <2>3 DEF ScriptInv
<1>31. ASSUME NEW e \in ScriptThrows, ScriptThrow(e) PROVE ScriptInv'
  <2>0. Keeps
    BY <1>31, StepsKeep
  <2>1. OfferInv'
      BY <2>0, <1>0, KeepsOfferInv
  <2>2. StatementInv'
      BY <1>31, <1>0, <2>0, Kept
      DEF ScriptThrow, MainThrows, StatementInv, Submitting, Awaiting, Finished,
          Acquiring, Mode, AcquireModes
  <2>3. EndInv'
      BY <1>31, <1>0, <2>0, Kept, NodesAreNot
      DEF ScriptThrow, MainThrows, Catch, Retriable, EndInv, StatementInv, Forced,
          Mode, AcquireModes
  <2>4. QED
      BY <2>1, <2>2, <2>3 DEF ScriptInv
<1>32. ASSUME NEW o \in {"next", "TREENODE_COVERED", "REPLAY_FAILS"}, SubmitChoice(o)
       PROVE  ScriptInv'
  <2>1. /\ pc[Main] = "hold" /\ goal[Main] = "submit" /\ stmt \in Nodes
        /\ ReleaseRef(Main, Empty, IF o = "next" THEN <<stmt>> ELSE <<>>)
        /\ pc' = [pc EXCEPT ![Main] = "post"]
    BY <1>32 DEF SubmitChoice, TypeInv, TypeOK, Nodes
  <2>2. ~PathEnded /\ NumConsumed = stmt - 1
    BY <2>1, <1>0, Alone DEF StatementInv, Submitting, Acquiring
  <2>3. /\ path' = path \o (IF o = "next" THEN <<stmt>> ELSE <<>>)
        /\ \A d \in Coroutines : ~HoldsRef(d)' /\ pc'[d] # "resolve"
        /\ \A n \in Nodes : ~Offered(n)'
        /\ ~EndInRef'
    BY <1>0, <2>1, Released, NodesAreNot DEF RefValues
  <2>4. stmt' = stmt /\ pc'[Main] = "post" /\ out'[Main] = o /\ goal' = goal
    BY <1>32, <1>0 DEF SubmitChoice
  <2>5. CASE o = "next"
    <3>1. path' = path \o <<stmt>> /\ stmt = NumConsumed + 1
      BY <2>1, <2>2, <2>3, <2>5, <1>0, NumConsumedType DEF Nodes
    <3>2. /\ ~PathEnded' /\ NumConsumed' = stmt
          /\ \A i \in 1..NumConsumed' : path'[i] = i
      BY <1>0, <2>1, <2>2, <3>1, PathConsumes DEF OfferInv
    <3>3. OfferInv'
      BY <1>0, <2>3, <2>4, <3>2, ReleasedOffers DEF TypeInv
    <3>4. QED
      BY <2>3, <2>4, <3>2, <3>3
      DEF ScriptInv, EndInv, StatementInv, Submitting, Awaiting, Finished, Acquiring
  <2>6. CASE o # "next"
    <3>1. path' = path
      BY <2>3, <2>6, <1>0 DEF TypeOK
    <3>2. NumConsumed' = NumConsumed /\ ~PathEnded'
      BY <2>2, <3>1, PathSame
    <3>3. OfferInv'
      BY <1>0, <2>2, <2>3, <2>4, <3>1, <3>2, ReleasedOffers DEF OfferInv, TypeInv
    <3>4. QED
      BY <2>3, <2>4, <2>6, <3>2, <3>3
      DEF ScriptInv, EndInv, StatementInv, Submitting, Awaiting, Finished, Acquiring
  <2>7. QED
    BY <2>5, <2>6
<1>33. ASSUME SubmitNode PROVE ScriptInv'
  <2>1. /\ pc[Main] = "hold" /\ goal[Main] = "submit" /\ ReleaseRef(Main, stmt, <<>>)
        /\ stmt \in Nodes /\ pc' = [pc EXCEPT ![Main] = "post"]
    BY <1>33 DEF SubmitNode, TypeInv, TypeOK, Nodes
  <2>2. ~PathEnded /\ NumConsumed = stmt - 1
    BY <2>1, <1>0, Alone DEF StatementInv, Submitting, Acquiring
  <2>3. /\ path' = path \o <<>>
        /\ \A d \in Coroutines : ~HoldsRef(d)' /\ pc'[d] # "resolve"
        /\ \A n \in Nodes : Offered(n)' <=> n = stmt
        /\ ~EndInRef'
    <3>1. stmt \in RefValues /\ stmt # LockNode /\ stmt # EndNode
      BY <2>1, NodesAreNot DEF RefValues
    <3>2. QED
      BY <1>0, <2>1, <3>1, Released, NodesAreNot
  <2>4. /\ path' = path /\ stmt' = stmt /\ pc'[Main] = "post" /\ out'[Main] = "await"
        /\ goal' = goal
    BY <1>33, <1>0, <2>3 DEF SubmitNode, TypeOK
  <2>5. NumConsumed' = NumConsumed /\ ~PathEnded'
    BY <2>2, <2>4, PathSame
  <2>6. OfferInv'
    BY <1>0, <2>2, <2>3, <2>4, <2>5, ReleasedOffers DEF OfferInv, TypeInv
  <2>7. QED
    BY <2>1, <2>3, <2>4, <2>5, <2>6
    DEF ScriptInv, EndInv, StatementInv, Submitting, Awaiting, Finished, Acquiring
<1>34. ASSUME Consumed PROVE ScriptInv'
  <2>1. /\ pc[Main] = "hold" /\ goal[Main] = "consumed" /\ ReleaseRef(Main, Empty, <<>>)
        /\ pc' = [pc EXCEPT ![Main] = "post"]
    BY <1>34 DEF Consumed
  <2>2. /\ ~EndInRef /\ ~PathEnded /\ ref = LockNode
        /\ \A d \in Coroutines : HoldsRef(d) <=> d = Main
    BY <2>1, <1>0, Alone
  <2>3. \A n \in Nodes : ~Offered(n)
    BY <1>0, <2>1, <2>2, NodesAreNot DEF Offered, StatementInv
  <2>4. NumConsumed = stmt
    BY <1>0, <2>1, <2>2, <2>3 DEF StatementInv, Awaiting, Acquiring
  <2>5. /\ path' = path \o <<>>
        /\ \A d \in Coroutines : ~HoldsRef(d)' /\ pc'[d] # "resolve"
        /\ \A n \in Nodes : ~Offered(n)'
        /\ ~EndInRef'
    <3>1. Empty \in RefValues /\ Empty # LockNode /\ Empty # EndNode
      BY <2>1, NodesAreNot DEF RefValues
    <3>2. QED
      BY <1>0, <2>1, <3>1, Released, NodesAreNot
  <2>6. /\ path' = path /\ stmt' = stmt /\ pc'[Main] = "post" /\ out'[Main] = "next"
        /\ goal' = goal
    BY <1>34, <1>0, <2>5 DEF Consumed, TypeOK
  <2>7. NumConsumed' = NumConsumed /\ ~PathEnded'
    BY <2>2, <2>6, PathSame
  <2>8. OfferInv'
    BY <1>0, <2>5, <2>6, <2>7, ReleasedOffers DEF OfferInv, TypeInv
  <2>9. QED
    BY <2>4, <2>5, <2>6, <2>7, <2>8
    DEF ScriptInv, EndInv, StatementInv, Submitting, Awaiting, Finished, Acquiring
<1>35. ASSUME PostScript PROVE ScriptInv'
  <2>1. /\ UNCHANGED <<ref, path, node, owner>> /\ out'[Main] = "none"
        /\ \A d \in Coroutines : HoldsRef(d)' <=> HoldsRef(d)
        /\ \A d \in Coroutines : pc'[d] = "resolve" <=> pc[d] = "resolve"
        /\ \A t \in Threads : pc'[t] = pc[t] /\ goal'[t] = goal[t]
        /\ goal[Main] \notin {"endSuccess", "endException"}
        /\ pc'[Main] \in {"idle", "exchange", "force"}
        /\ stmt \in Nat
    BY <1>35, <1>0 DEF PostScript, MainThrows, HoldsRef, OwnerInv, LockExclusion, TypeInv,
         TypeOK, BacktrackReasons
  <2>2. /\ NumConsumed' = NumConsumed /\ PathEnded' = PathEnded
        /\ \A n : Offered(n)' <=> Offered(n)
        /\ EndInRef' <=> EndInRef
    BY <2>1, PathSame DEF Offered, EndInRef, InRef
  <2>3. ~Forced /\ (EndInRef => PathEnded)
    BY <1>35, <1>0, <2>1 DEF PostScript, Forced, EndInv
  <2>4. CASE out[Main] = "next"
    <3>1. stmt' = stmt + 1 /\ pc'[Main] = "idle" /\ Finished
      BY <1>35, <1>0, <2>4 DEF PostScript, Finished, BacktrackReasons
    <3>2. NumConsumed' = stmt' - 1 /\ \A n \in Nodes : ~Offered(n)'
      BY <1>0, <2>1, <2>2, <3>1 DEF StatementInv
    <3>3. OfferInv'
      BY <1>0, <2>1, <2>2, <3>2 DEF OfferInv
    <3>4. QED
      BY <2>1, <2>2, <2>3, <3>1, <3>2, <3>3, <1>0
      DEF ScriptInv, StatementInv, EndInv, Submitting, Awaiting, Finished, Acquiring
  <2>5. CASE out[Main] # "next"
    <3>1. stmt' = stmt
      BY <1>35, <2>5 DEF PostScript
    <3>2. OfferInv'
      BY <1>0, <2>1, <2>2, <3>1 DEF OfferInv
    <3>3. StatementInv'
      BY <1>35, <1>0, <2>1, <2>2, <2>5, <3>1
      DEF PostScript, MainThrows, StatementInv, Submitting, Awaiting, Finished, Acquiring
    <3>4. EndInv'
      BY <1>35, <1>0, <2>2, <2>3, <2>5
      DEF PostScript, MainThrows, EndInv, BacktrackReasons, Retriable
    <3>5. QED
      BY <3>2, <3>3, <3>4 DEF ScriptInv
  <2>6. QED
    BY <2>4, <2>5
<1>36. ASSUME FoundByScript PROVE ScriptInv'
  <2>0. Keeps
    BY <1>36, StepsKeep
  <2>1. OfferInv'
      BY <2>0, <1>0, KeepsOfferInv
  <2>2. StatementInv'
      BY <1>36, <1>0, <2>0, Kept
      DEF FoundByScript, Check, MainThrows, StatementInv, Submitting, Awaiting,
          Finished, Acquiring, Mode, AcquireModes
  <2>3. EndInv'
      BY <1>36, <1>0, <2>0, Kept, NodesAreNot
      DEF FoundByScript, Check, MainThrows, Catch, Retriable, EndInv, StatementInv,
          Forced, Mode, AcquireModes
  <2>4. QED
      BY <2>1, <2>2, <2>3 DEF ScriptInv
<1>37. ASSUME ForceLock PROVE ScriptInv'
  <2>1. /\ \A d \in Coroutines : HoldsRef(d)' <=> d = Main
        /\ node'[Main] = Empty /\ pc'[Main] = "resolve" /\ goal'[Main] = "endSuccess"
        /\ ref' = LockNode /\ UNCHANGED <<path, stmt>>
        /\ \A t \in Threads : pc'[t] = "ended"
    BY <1>37, <1>0 DEF ForceLock, HoldsRef, IsAllEnded, OwnerInv, EndInv
  <2>2. (\A n \in Nodes : ~Offered(n)') /\ ~EndInRef' /\ Forced'
    BY <2>1, NodesAreNot DEF Offered, EndInRef, InRef, Forced
  <2>3. NumConsumed' = NumConsumed
    BY <2>1, PathSame
  <2>4. OfferInv'
    BY <2>1, <2>2, <2>3, <1>0 DEF OfferInv
  <2>5. QED
    BY <2>1, <2>2, <2>4 DEF ScriptInv, EndInv, StatementInv, Submitting, Awaiting, Finished
<1>38. ASSUME FoundByEndSuccess PROVE ScriptInv'
  <2>0. Keeps
    BY <1>38, StepsKeep
  <2>1. OfferInv'
      BY <2>0, <1>0, KeepsOfferInv
  <2>2. StatementInv'
      BY <1>38, <1>0, <2>0, Kept
      DEF FoundByEndSuccess, Check, StatementInv, Submitting, Awaiting, Finished,
          Acquiring, Mode, AcquireModes
  <2>3. EndInv'
      BY <1>38, <1>0, <2>0, Kept, NodesAreNot
      DEF FoundByEndSuccess, Check, EndInv, StatementInv, Forced, Mode, AcquireModes
  <2>4. QED
      BY <2>1, <2>2, <2>3 DEF ScriptInv
<1>39. ASSUME EndSuccess PROVE ScriptInv'
  <2>1. /\ pc[Main] = "hold" /\ goal[Main] = "endSuccess"
             /\ pc' = [pc EXCEPT ![Main] = "post"]
        /\ UNCHANGED <<goal, node, stmt>> /\ out'[Main] = "finish"
    BY <1>39, <1>0 DEF EndSuccess
  <2>2. PICK added \in {<<>>, <<EndNode>>} :
          ReleaseRef(Main, EndNode, added) /\ (PathEnded => added = <<>>)
    BY <1>39 DEF EndSuccess
  <2>3. /\ path' = path \o added
        /\ \A d \in Coroutines : ~HoldsRef(d)' /\ pc'[d] # "resolve"
        /\ \A n \in Nodes : ~Offered(n)'
        /\ EndInRef'
    BY ZenonT(40), <1>0, <2>1, <2>2, Released, NodesAreNot DEF RefValues
  <2>4. NumConsumed' = NumConsumed /\ \A i \in 1..NumConsumed' : path'[i] = i
    <3>1. CASE added = <<>>
      <4>1. path' = path
        BY <2>3, <3>1, <1>0 DEF TypeOK
      <4>2. QED
        BY <4>1, <1>0, PathSame DEF OfferInv
    <3>2. CASE added # <<>>
      <4>1. path' = path \o <<EndNode>> /\ ~PathEnded
        BY <2>2, <2>3, <3>2
      <4>2. QED
        BY <4>1, <1>0, PathEnds DEF OfferInv
    <3>3. QED
      BY <3>1, <3>2
  <2>5. OfferInv'
    BY <1>0, <2>1, <2>3, <2>4, ReleasedOffers DEF OfferInv, TypeInv
  <2>6. QED
    BY <1>0, <2>1, <2>3, <2>5
    DEF ScriptInv, EndInv, StatementInv, Submitting, Awaiting, Finished, Acquiring
<1>40. ASSUME PostSuccess PROVE ScriptInv'
  <2>0. Keeps
    BY <1>40, StepsKeep
  <2>1. OfferInv'
      BY <2>0, <1>0, KeepsOfferInv
  <2>2. StatementInv'
      BY <1>40, <1>0, <2>0, Kept
      DEF PostSuccess, Signalled, StatementInv, Submitting, Awaiting, Finished,
          Acquiring, Mode, AcquireModes
  <2>3. EndInv'
      BY <1>40, <1>0, <2>0, Kept, NodesAreNot
      DEF PostSuccess, Signalled, EndInv, StatementInv, Forced, Mode, AcquireModes
  <2>4. QED
      BY <2>1, <2>2, <2>3 DEF ScriptInv
<1>41. ASSUME MainNotifyWaiters PROVE ScriptInv'
  <2>0. Keeps
    BY <1>41, StepsKeep
  <2>1. OfferInv'
      BY <2>0, <1>0, KeepsOfferInv
  <2>2. StatementInv'
      BY <1>41, <1>0, <2>0, Kept
      DEF MainNotifyWaiters, Broadcast, StatementInv, Submitting, Awaiting,
          Finished, Acquiring, Mode, AcquireModes
  <2>3. EndInv'
      BY <1>41, <1>0, <2>0, Kept, NodesAreNot
      DEF MainNotifyWaiters, Broadcast, EndInv, StatementInv, Forced, Mode,
          AcquireModes
  <2>4. QED
      BY <2>1, <2>2, <2>3 DEF ScriptInv
<1>42. ASSUME RunUncontrolled PROVE ScriptInv'
  <2>0. Keeps
    BY <1>42, StepsKeep
  <2>1. OfferInv'
      BY <2>0, <1>0, KeepsOfferInv
  <2>2. StatementInv'
      BY <1>42, <1>0, <2>0, Kept
      DEF RunUncontrolled, StatementInv, Submitting, Awaiting, Finished, Acquiring,
          Mode, AcquireModes
  <2>3. EndInv'
      BY <1>42, <1>0, <2>0, Kept, NodesAreNot
      DEF RunUncontrolled, EndInv, StatementInv, Forced, Mode, AcquireModes
  <2>4. QED
      BY <2>1, <2>2, <2>3 DEF ScriptInv
<1>43. ASSUME JoinAllThreads PROVE ScriptInv'
  <2>0. Keeps
    BY <1>43, StepsKeep
  <2>1. OfferInv'
      BY <2>0, <1>0, KeepsOfferInv
  <2>2. StatementInv'
      BY <1>43, <1>0, <2>0, Kept
      DEF JoinAllThreads, StatementInv, Submitting, Awaiting, Finished, Acquiring,
          Mode, AcquireModes
  <2>3. EndInv'
      BY <1>43, <1>0, <2>0, Kept, NodesAreNot
      DEF JoinAllThreads, EndInv, StatementInv, Forced, Mode, AcquireModes
  <2>4. QED
      BY <2>1, <2>2, <2>3 DEF ScriptInv
<1>44. ASSUME JoinDeadlock PROVE ScriptInv'
  <2>0. Keeps
    BY <1>44, StepsKeep
  <2>1. OfferInv'
      BY <2>0, <1>0, KeepsOfferInv
  <2>2. StatementInv'
      BY <1>44, <1>0, <2>0, Kept
      DEF JoinDeadlock, AddException, StatementInv, Submitting, Awaiting, Finished,
          Acquiring, Mode, AcquireModes
  <2>3. EndInv'
      BY <1>44, <1>0, <2>0, Kept, NodesAreNot
      DEF JoinDeadlock, AddException, EndInv, StatementInv, Forced, Mode,
          AcquireModes
  <2>4. QED
      BY <2>1, <2>2, <2>3 DEF ScriptInv
<1>45. ASSUME EndSearch PROVE ScriptInv'
  <2>0. Keeps
    BY <1>45, StepsKeep
  <2>1. OfferInv'
      BY <2>0, <1>0, KeepsOfferInv
  <2>2. StatementInv'
      BY <1>45, <1>0, <2>0, Kept
      DEF EndSearch, StatementInv, Submitting, Awaiting, Finished, Acquiring, Mode,
          AcquireModes
  <2>3. EndInv'
      BY <1>45, <1>0, <2>0, Kept, NodesAreNot
      DEF EndSearch, EndInv, StatementInv, Forced, Mode, AcquireModes
  <2>4. QED
      BY <2>1, <2>2, <2>3 DEF ScriptInv
<1>46. ASSUME Restart PROVE ScriptInv'
  <2>1. \A d \in Coroutines : ~HoldsRef(d)' /\ pc'[d] = "idle"
    BY <1>46, <1>0 DEF Restart, HoldsRef
  <2>2. NumConsumed' = 0 /\ ~PathEnded' /\ stmt' = 1 /\ ref' = Empty
    BY <1>46 DEF Restart, NumConsumed, PathEnded
  <2>3. (\A n \in Nodes : ~Offered(n)') /\ ~EndInRef'
    BY <2>1, <2>2, NodesAreNot DEF Offered, EndInRef, InRef
  <2>4. OfferInv'
    BY <2>1, <2>2, <2>3 DEF OfferInv
  <2>5. QED
    BY <2>1, <2>2, <2>3, <2>4
    DEF ScriptInv, EndInv, StatementInv, Awaiting, Finished, Acquiring
<1>47. ASSUME StartUnreachable PROVE ScriptInv'
  <2>0. Keeps
    BY <1>47, StepsKeep
  <2>1. OfferInv'
      BY <2>0, <1>0, KeepsOfferInv
  <2>2. StatementInv'
      BY <1>47, <1>0, <2>0, Kept
      DEF StartUnreachable, Check, StatementInv, Submitting, Awaiting, Finished,
          Acquiring, Mode, AcquireModes
  <2>3. EndInv'
      BY <1>47, <1>0, <2>0, Kept, NodesAreNot
      DEF StartUnreachable, Check, EndInv, StatementInv, Forced, Mode, AcquireModes
  <2>4. QED
      BY <2>1, <2>2, <2>3 DEF ScriptInv
<1>48. CASE UNCHANGED vars
  <2>1. Outside /\ MainSame
    BY <1>48 DEF Outside, MainSame, HoldsRef, vars
  <2>2. QED
    BY <2>1, <1>0, OutsideKeeps, KeepsScriptInv
<1>49. QED
  BY <1>1, <1>2, <1>3, <1>4, <1>5, <1>6, <1>7, <1>8, <1>9, <1>10, <1>11, <1>12,
     <1>13, <1>14, <1>15, <1>16, <1>17, <1>18, <1>19, <1>20, <1>21, <1>22,
     <1>23, <1>24, <1>25, <1>26, <1>27, <1>28, <1>29, <1>30, <1>31, <1>32,
     <1>33, <1>34, <1>35, <1>36, <1>37, <1>38, <1>39, <1>40, <1>41, <1>42,
     <1>43, <1>44, <1>45, <1>46, <1>47, <1>48
  DEF Next, AcquireStep, EndStep, ThreadStep, MainStep

\* ScriptInv holds initially.
LEMMA ScriptInit == Init => ScriptInv
<1> SUFFICES ASSUME Init PROVE ScriptInv
  OBVIOUS
<1>1. /\ \A d \in Coroutines : pc[d] = "idle" /\ ~HoldsRef(d)
      /\ NumConsumed = 0 /\ ~PathEnded /\ ref = Empty /\ stmt = 1
  BY RendezvousAssumption DEF Init, HoldsRef, NumConsumed, PathEnded
<1>2. (\A n \in Nodes : ~Offered(n)) /\ ~EndInRef
  BY <1>1, NodesAreNot DEF Offered, EndInRef, InRef
<1>3. OfferInv
  BY <1>1, <1>2 DEF OfferInv
<1>4. QED
  BY <1>1, <1>2, <1>3
  DEF ScriptInv, EndInv, StatementInv, Awaiting, Finished, Acquiring

\* ScriptInv says what ScriptInStep promises.
LEMMA ScriptInvImplies == ScriptInv => ScriptInStep
<1> SUFFICES ASSUME ScriptInv PROVE ScriptInStep
  OBVIOUS
<1>1. ref \in Nodes => Offered(ref)
  BY DEF Offered
<1>2. \A t \in Threads : pc[t] \in {"hold", "lock", "release"} => Offered(node[t])
  BY DEF Offered, HoldsRef
<1>3. QED
  BY <1>1, <1>2 DEF ScriptInv, ScriptInStep, OfferInv, StatementInv, Submitting

\* The script is in step with the path, for any script, any number of threads and
\* any interleaving: statements are consumed in order, each once, and what is
\* published or in a thread's hands is the statement main waits for.
THEOREM ScriptCorrect ==
  ASSUME "THREADS_ALLENDED" \notin SutCalls
  PROVE  Spec => []ScriptInStep
<1>1. Init => TypeInv /\ LockInv /\ ScriptInv
  BY TypeInit, LockInit, ScriptInit
<1>2. TypeInv /\ LockInv /\ ScriptInv /\ [Next]_vars => (TypeInv /\ LockInv /\ ScriptInv)'
  BY TypeStep, LockStep, ScriptStep
<1>3. QED
  BY <1>1, <1>2, ScriptInvImplies, PTL DEF Spec
=============================================================================
