---------------------- MODULE RendezvousEndProofs ------------------------
(***************************************************************************)
(* An end node is final, the rendezvous implements the mailbox, and no     *)
(* safe_assert of it fails.                                                *)
(***************************************************************************)
EXTENDS RendezvousScriptProofs

USE DEF Coroutines, At, Goto, Stopped, refVars, coVars, MainEnds

\* A step that moves no node, or one of the steps that may.
LEMMA StepKinds ==
  ASSUME TypeInv, LockInv, ScriptInv, [Next]_vars
  PROVE  \/ Keeps
         \/ PostScript \/ SubmitNode \/ Consumed \/ ForceLock \/ EndSuccess \/ Restart
         \/ \E c \in Coroutines : InsertEnd(c)
         \/ \E t \in Threads : ReleaseTransition(t)
         \/ \E o \in {"next", "TREENODE_COVERED", "REPLAY_FAILS"} : SubmitChoice(o)
<1>1. CASE UNCHANGED vars
  <2>1. Outside
    BY <1>1 DEF Outside, HoldsRef, vars
  <2>2. QED
    BY <2>1, OutsideKeeps DEF ScriptInv
<1>2. CASE Next
  BY <1>2, <1>1, StepsKeep DEF Next, AcquireStep, EndStep, ThreadStep, MainStep
<1>3. QED
  BY <1>1, <1>2

\* PostScript moves no node either, whatever statement it goes to.
LEMMA PostScriptKeeps ==
  ASSUME TypeInv, LockInv, PostScript
  PROVE  /\ path' = path
         /\ \A n \in Nodes : Offered(n)' <=> Offered(n)
         /\ EndInRef' <=> EndInRef
<1>1. pc \in [Coroutines -> ThreadLabels \cup MainLabels]
  BY DEF TypeInv, TypeOK
<1>2. /\ UNCHANGED <<ref, path, node>>
      /\ \A d \in Coroutines : HoldsRef(d)' <=> HoldsRef(d)
      /\ \A d \in Coroutines : pc'[d] = "resolve" <=> pc[d] = "resolve"
  BY <1>1, RendezvousAssumption
  DEF PostScript, MainThrows, HoldsRef, LockInv, OwnerInv, LockExclusion
<1>3. QED
  BY <1>2 DEF Offered, EndInRef, InRef

\* Once there is an end node, no step but Restart adds to the path or takes it away.
LEMMA EndStays ==
  ASSUME TypeInv, LockInv, ScriptInv, [Next]_vars, ~Restart, EndPublished
  PROVE  EndPublished' /\ path' = path
<1>0. TypeOK /\ EndInv /\ OfferInv
  BY DEF TypeInv, ScriptInv
<1>1. CASE Keeps
  BY <1>1, Kept DEF Keeps, EndPublished
<1>2. CASE PostScript
  BY <1>2, PostScriptKeeps, PathSame DEF EndPublished
<1>3. ASSUME NEW c \in Coroutines, pc[c] \in {"hold", "release"}, goal[c] # "endSuccess"
      PROVE  FALSE
  BY <1>0, <1>3, Alone DEF EndPublished
<1>4. CASE SubmitNode \/ Consumed
  BY <1>4, <1>3 DEF SubmitNode, Consumed
<1>5. CASE \E c \in Coroutines : InsertEnd(c)
  BY <1>5, <1>3 DEF InsertEnd
<1>6. CASE \E t \in Threads : ReleaseTransition(t)
  BY <1>6, <1>3 DEF ReleaseTransition, TypeInv
<1>7. CASE \E o \in {"next", "TREENODE_COVERED", "REPLAY_FAILS"} : SubmitChoice(o)
  BY <1>7, <1>3 DEF SubmitChoice
<1>8. CASE ForceLock
  <2>1. PathEnded /\ path' = path
    BY <1>8, <1>0 DEF ForceLock, EndPublished, EndInv
  <2>2. QED
    BY <2>1, PathSame DEF EndPublished
<1>9. CASE EndSuccess
  <2>1. pc[Main] = "hold" /\ PathEnded
    BY <1>0, <1>9, Alone DEF EndSuccess, EndPublished
  <2>2. path' = path \o <<>>
    BY <1>9, <2>1 DEF EndSuccess, ReleaseRef
  <2>3. path' = path
    BY <1>0, <2>2 DEF TypeOK
  <2>4. QED
    BY <2>1, <2>3, PathSame DEF EndPublished
<1>10. QED
  BY <1>1, <1>2, <1>4, <1>5, <1>6, <1>7, <1>8, <1>9, StepKinds

\* Where a step may lead: main into the script only from the script, and anyone past
\* the end only from there or with an end node in the ref; main does not go back
\* from its end.
LEMMA WhereTo ==
  ASSUME TypeInv, ScriptInv, [Next]_vars, ~Restart
  PROVE  /\ InScript' => InScript
         /\ MainEnds => MainEnds'
         /\ \A d \in Coroutines : PastEnd(d)' => PastEnd(d) \/ EndInRef'
<1> DEFINE Moves == /\ (InScript' => InScript) /\ (MainEnds => MainEnds')
                    /\ (\A d \in Coroutines : PastEnd(d)' => PastEnd(d) \/ EndInRef')
<1> USE RendezvousAssumption
<1>0. /\ pc \in [Coroutines -> ThreadLabels \cup MainLabels]
      /\ goal \in [Coroutines -> Goals]
      /\ out \in [Coroutines -> Decisions]
      /\ pc[Main] \in MainLabels /\ TypeOK
  BY DEF TypeInv, TypeOK
<1>1. ASSUME NEW c \in Coroutines, Exchange(c) PROVE Moves
  BY <1>1, <1>0 DEF Exchange, InScript, PastEnd
<1>2. ASSUME NEW c \in Coroutines, ExchangeOwned(c) PROVE Moves
  BY <1>2, <1>0 DEF ExchangeOwned, Check, InScript, PastEnd
<1>3. ASSUME NEW c \in Coroutines, ResolveLock(c) PROVE Moves
  BY <1>3, <1>0 DEF ResolveLock, Check, InScript, PastEnd
<1>4. ASSUME NEW c \in Coroutines, ResolveRestore(c) PROVE Moves
  BY <1>4, <1>0 DEF ResolveRestore, InScript, PastEnd
<1>5. ASSUME NEW c \in Coroutines, ResolveEnd(c) PROVE Moves
  BY <1>5, <1>0 DEF ResolveEnd, InScript, PastEnd, EndInRef, InRef
<1>6. ASSUME NEW c \in Coroutines, SemWait(c) PROVE Moves
  BY <1>6, <1>0 DEF SemWait, InScript, PastEnd
<1>7. ASSUME NEW c \in Coroutines, SemSignal(c) PROVE Moves
  BY <1>7, <1>0 DEF SemSignal, Signalled, InScript, PastEnd
<1>8. ASSUME NEW c \in Coroutines, FoundByException(c) PROVE Moves
  BY <1>8, <1>0 DEF FoundByException, InScript, PastEnd
<1>9. ASSUME NEW c \in Coroutines, WriteException(c) PROVE Moves
  BY <1>9, <1>0 DEF WriteException, InScript, PastEnd
<1>10. ASSUME NEW c \in Coroutines, InsertEnd(c) PROVE Moves
  BY <1>10, <1>0 DEF InsertEnd, ReleaseRef, InScript, PastEnd, EndInRef, InRef
<1>11. ASSUME NEW c \in Coroutines, PostException(c) PROVE Moves
  BY <1>11, <1>0 DEF PostException, Signalled, InScript, PastEnd
<1>12. ASSUME NEW t \in Threads, BeginTransition(t) PROVE Moves
  BY <1>12, <1>0 DEF BeginTransition, InScript, PastEnd
<1>13. ASSUME NEW t \in Threads, FoundByTransition(t) PROVE Moves
  BY <1>13, <1>0 DEF FoundByTransition, Return, InScript, PastEnd
<1>14. ASSUME NEW t \in Threads, Eval(t) PROVE Moves
  BY <1>14, <1>0 DEF Eval, Check, Broadcast, InScript, PastEnd, TypeInv, TypeOK, Goals,
     BacktrackReasons, MainLabels
<1>15. ASSUME NEW t \in Threads, EvalViolation(t) PROVE Moves
  BY <1>15, <1>0 DEF EvalViolation, InScript, PastEnd
<1>16. ASSUME NEW t \in Threads, LockMutex(t) PROVE Moves
  BY <1>16, <1>0 DEF LockMutex, InScript, PastEnd
<1>17. ASSUME NEW t \in Threads, ReleaseTransition(t) PROVE Moves
  BY <1>17, <1>0 DEF ReleaseTransition, ReleaseRef, InScript, PastEnd, TypeInv, TypeOK,
     Goals, BacktrackReasons, MainLabels
<1>18. ASSUME NEW t \in Threads, PostTransition(t) PROVE Moves
  BY <1>18, <1>0 DEF PostTransition, Return, Signalled, InScript, PastEnd, TypeInv,
     TypeOK, Goals, BacktrackReasons, MainLabels
<1>19. ASSUME NEW t \in Threads, Park(t) PROVE Moves
  BY <1>19, <1>0 DEF Park, InScript, PastEnd
<1>20. ASSUME NEW t \in Threads, CondTimeout(t) PROVE Moves
  BY <1>20, <1>0 DEF CondTimeout, InScript, PastEnd
<1>21. ASSUME NEW t \in Threads, CondSpurious(t) PROVE Moves
  BY <1>21, <1>0 DEF CondSpurious, InScript, PastEnd
<1>22. ASSUME NEW t \in Threads, Reacquire(t) PROVE Moves
  BY <1>22, <1>0 DEF Reacquire, InScript, PastEnd
<1>23. ASSUME NEW t \in Threads, NEW e \in SutCalls, Raise(t, e) PROVE Moves
  BY <1>23, <1>0 DEF Raise, InScript, PastEnd
<1>24. ASSUME NEW t \in Threads, NotifyWaiters(t) PROVE Moves
  BY <1>24, <1>0 DEF NotifyWaiters, Broadcast, Return, InScript, PastEnd, TypeInv, TypeOK,
     Goals, BacktrackReasons, MainLabels
<1>25. ASSUME NEW t \in Threads, ThreadEnd(t) PROVE Moves
  BY <1>25, <1>0 DEF ThreadEnd, InScript, PastEnd
<1>26. ASSUME SpinTimeout PROVE Moves
  BY <1>26, <1>0 DEF SpinTimeout, Check, MainThrows, Catch, InScript, PastEnd, Timed
<1>27. ASSUME WaitTimeout PROVE Moves
  BY <1>27, <1>0 DEF WaitTimeout, MainThrows, Catch, InScript, PastEnd, TypeInv, TypeOK,
     Goals, BacktrackReasons, MainLabels, ScriptInv, StatementInv
<1>28. ASSUME ElapsedTimeout PROVE Moves
  BY <1>28, <1>0 DEF ElapsedTimeout, MainThrows, Signalled, Catch, InScript, PastEnd,
     TypeInv, TypeOK, Goals, BacktrackReasons, MainLabels, ScriptInv, StatementInv
<1>29. ASSUME BeginStatement PROVE Moves
  BY <1>29, <1>0 DEF BeginStatement, MainThrows, Catch, InScript, PastEnd
<1>30. ASSUME ScriptEnd PROVE Moves
  BY <1>30, <1>0 DEF ScriptEnd, MainThrows, Catch, InScript, PastEnd
<1>31. ASSUME NEW e \in ScriptThrows, ScriptThrow(e) PROVE Moves
  BY <1>31, <1>0 DEF ScriptThrow, MainThrows, Catch, InScript, PastEnd
<1>32. ASSUME NEW o \in {"next", "TREENODE_COVERED", "REPLAY_FAILS"}, SubmitChoice(o)
       PROVE  Moves
  BY <1>32, <1>0 DEF SubmitChoice, ReleaseRef, InScript, PastEnd
<1>33. ASSUME SubmitNode PROVE Moves
  BY <1>33, <1>0 DEF SubmitNode, ReleaseRef, InScript, PastEnd
<1>34. ASSUME Consumed PROVE Moves
  BY <1>34, <1>0 DEF Consumed, ReleaseRef, InScript, PastEnd
<1>35. ASSUME PostScript PROVE Moves
  BY <1>35, <1>0 DEF PostScript, MainThrows, Signalled, Catch, InScript, PastEnd, TypeInv,
     TypeOK, Goals, BacktrackReasons, MainLabels
<1>36. ASSUME FoundByScript PROVE Moves
  BY <1>36, <1>0 DEF FoundByScript, Check, MainThrows, Catch, InScript, PastEnd
<1>37. ASSUME ForceLock PROVE Moves
  BY <1>37, <1>0 DEF ForceLock, InScript, PastEnd
<1>38. ASSUME FoundByEndSuccess PROVE Moves
  BY <1>38, <1>0 DEF FoundByEndSuccess, Check, InScript, PastEnd, TypeInv, TypeOK, Goals,
     BacktrackReasons, MainLabels
<1>39. ASSUME EndSuccess PROVE Moves
  BY <1>39, <1>0 DEF EndSuccess, ReleaseRef, InScript, PastEnd, EndInRef, InRef
<1>40. ASSUME PostSuccess PROVE Moves
  BY <1>40, <1>0 DEF PostSuccess, Signalled, InScript, PastEnd, TypeInv, TypeOK, Goals,
     BacktrackReasons, MainLabels
<1>41. ASSUME MainNotifyWaiters PROVE Moves
  BY <1>41, <1>0 DEF MainNotifyWaiters, Broadcast, InScript, PastEnd, TypeInv, TypeOK,
     Goals, BacktrackReasons, MainLabels
<1>42. ASSUME RunUncontrolled PROVE Moves
  BY <1>42, <1>0 DEF RunUncontrolled, InScript, PastEnd
<1>43. ASSUME JoinAllThreads PROVE Moves
  BY <1>43, <1>0 DEF JoinAllThreads, InScript, PastEnd
<1>44. ASSUME JoinDeadlock PROVE Moves
  BY <1>44, <1>0 DEF JoinDeadlock, AddException, InScript, PastEnd
<1>45. ASSUME EndSearch PROVE Moves
  BY <1>45, <1>0 DEF EndSearch, InScript, PastEnd
<1>46. ASSUME Restart PROVE Moves
  BY <1>46
<1>47. ASSUME StartUnreachable PROVE Moves
  BY <1>47, <1>0 DEF StartUnreachable, Check, InScript, PastEnd
<1>48. CASE UNCHANGED vars
  BY <1>48 DEF vars, InScript, PastEnd
<1>49. QED
  BY <1>1, <1>2, <1>3, <1>4, <1>5, <1>6, <1>7, <1>8, <1>9, <1>10, <1>11, <1>12,
     <1>13, <1>14, <1>15, <1>16, <1>17, <1>18, <1>19, <1>20, <1>21, <1>22,
     <1>23, <1>24, <1>25, <1>26, <1>27, <1>28, <1>29, <1>30, <1>31, <1>32,
     <1>33, <1>34, <1>35, <1>36, <1>37, <1>38, <1>39, <1>40, <1>41, <1>42,
     <1>43, <1>44, <1>45, <1>46, <1>47, <1>48
  DEF Next, AcquireStep, EndStep, ThreadStep, MainStep

\* Nothing is on offer once there is an end node.
LEMMA NoOfferAtEnd ==
  ASSUME LockInv, ScriptInv, EndPublished
  PROVE  \A n \in Nodes : ~Offered(n)
<1>1. SUFFICES ASSUME NEW n \in Nodes, Offered(n) PROVE FALSE
  OBVIOUS
<1>2. EndInRef \/ Forced
  BY DEF EndPublished, ScriptInv, EndInv
<1>3. CASE ref = n
  <2>1. \A c \in Coroutines : ~HoldsRef(c)
    BY <1>3, NodesAreNot DEF LockInv, LockExclusion
  <2>2. QED
    BY <1>2, <1>3, <2>1, NodesAreNot DEF EndInRef, InRef, Forced, HoldsRef
<1>4. ASSUME NEW c \in Coroutines, HoldsRef(c), node[c] = n PROVE FALSE
  <2>1. ref = LockNode /\ \A d \in Coroutines : HoldsRef(d) => d = c
    BY <1>4 DEF LockInv, LockExclusion
  <2>2. QED
    BY <1>2, <1>4, <2>1, NodesAreNot DEF EndInRef, InRef, Forced, HoldsRef
<1>5. QED
  BY <1>1, <1>3, <1>4 DEF Offered

\* Every step keeps EndSeen.
LEMMA EndSeenStep ==
  ASSUME TypeInv, LockInv, ScriptInv, EndSeen, [Next]_vars
  PROVE  EndSeen'
<1>1. CASE Restart
  BY <1>1, RendezvousAssumption DEF Restart, EndSeen, PastEnd
<1>2. CASE ~Restart
  BY <1>2, WhereTo, EndStays DEF EndSeen, EndPublished
<1>3. QED
  BY <1>1, <1>2

\* The conjunction that the theorems below rest on.
RendezvousInv == TypeInv /\ LockInv /\ ScriptInv /\ EndSeen

\* It holds in every reachable state.
LEMMA RendezvousInvariant ==
  ASSUME "THREADS_ALLENDED" \notin SutCalls
  PROVE  Spec => []RendezvousInv
<1>1. Init => RendezvousInv
  <2>1. Init => EndSeen
    BY DEF Init, EndSeen, PastEnd
  <2>2. QED
    BY <2>1, TypeInit, LockInit, ScriptInit DEF RendezvousInv
<1>2. RendezvousInv /\ [Next]_vars => RendezvousInv'
  BY TypeStep, LockStep, ScriptStep, EndSeenStep DEF RendezvousInv
<1>3. QED
  BY <1>1, <1>2, PTL DEF Spec

\* Once an end node is published, by main or by a thread that fails, nothing is
\* consumed and the end node is never lost until Explore restarts, for any script
\* and any number of threads: also under the forced lock, and although every
\* AcquireRef takes the end node out of the ref for a moment.
THEOREM EndFinal ==
  ASSUME "THREADS_ALLENDED" \notin SutCalls
  PROVE  Spec => EndIsFinal
<1>1. RendezvousInv /\ [Next]_vars =>
        [EndPublished /\ pc[Main] # "explore" => EndPublished' /\ path' = path]_vars
  BY EndStays DEF RendezvousInv, Restart
<1>2. QED
  BY <1>1, RendezvousInvariant, PTL DEF Spec, EndIsFinal

-----------------------------------------------------------------------------
\* A step of the rendezvous is a step of the mailbox, or none.
LEMMA MailStep ==
  ASSUME RendezvousInv, RendezvousInv', [Next]_vars
  PROVE  [Mail!Next]_(Mail!vars)
<1> USE RendezvousAssumption
<1> DEFINE offers == {n \in Nodes : Offered(n)}
           phase == IF EndPublished THEN "closed" ELSE IF InScript THEN "open" ELSE "closing"
<1>0. /\ TypeInv /\ LockInv /\ ScriptInv /\ EndSeen /\ TypeOK
      /\ OfferInv /\ StatementInv /\ EndInv
      /\ pc \in [Coroutines -> ThreadLabels \cup MainLabels]
      /\ NumConsumed \in Nat
  BY NumConsumedType DEF RendezvousInv, TypeInv, TypeOK, ScriptInv
<1>1. ASSUME NumConsumed' = NumConsumed, offers' = offers, phase' = phase
      PROVE  UNCHANGED Mail!vars
  BY <1>1 DEF Mail!vars
<1>2. ASSUME ~Restart, NumConsumed' = NumConsumed, offers' = offers,
             EndPublished' <=> EndPublished
      PROVE  [Mail!Next]_(Mail!vars)
  <2>1. CASE phase' = phase
    BY <1>1, <1>2, <2>1
  <2>2. CASE phase' # phase
    <3>1. phase = "open" /\ phase' = "closing"
      BY <1>0, <1>2, <2>2, WhereTo
    <3>2. Mail!GiveUp
      BY <1>2, <3>1 DEF Mail!GiveUp
    <3>3. QED
      BY <3>2 DEF Mail!Next
  <2>3. QED
    BY <2>1, <2>2
<1>3. CASE Keeps /\ ~Restart
  <2>1. NumConsumed' = NumConsumed /\ offers' = offers /\ (EndPublished' <=> EndPublished)
    BY <1>3, Kept DEF EndPublished
  <2>2. QED
    BY <1>2, <1>3, <2>1
<1>4. CASE PostScript
  <2>1. NumConsumed' = NumConsumed /\ offers' = offers /\ (EndPublished' <=> EndPublished)
    BY <1>0, <1>4, PostScriptKeeps, PathSame DEF EndPublished
  <2>2. ~Restart
    BY <1>4 DEF PostScript, Restart
  <2>3. QED
    BY <1>2, <2>1, <2>2
<1>5. CASE SubmitNode
  <2>1. /\ pc[Main] = "hold" /\ goal[Main] = "submit" /\ ReleaseRef(Main, stmt, <<>>)
        /\ stmt \in Nodes /\ pc' = [pc EXCEPT ![Main] = "post"] /\ goal' = goal
    BY <1>0, <1>5 DEF SubmitNode, TypeInv, TypeOK, Nodes
  <2>2. ~EndPublished /\ NumConsumed = stmt - 1 /\ offers = {}
    BY <2>1, <1>0, Alone DEF EndPublished, StatementInv, Submitting, Acquiring
  <2>3. stmt \in RefValues /\ stmt # LockNode /\ stmt # EndNode
    BY <2>1, NodesAreNot DEF RefValues
  <2>4. path' = path \o <<>> /\ (\A n \in Nodes : Offered(n)' <=> n = stmt) /\ ~EndInRef'
    BY <1>0, <2>1, <2>3, Released
  <2>5. path' = path
    BY <1>0, <2>4 DEF TypeOK
  <2>6. NumConsumed' = NumConsumed /\ ~EndPublished'
    BY <2>2, <2>4, <2>5, PathSame DEF EndPublished
  <2>7. phase = "open" /\ phase' = "open" /\ offers' = {stmt}
    BY <2>1, <2>2, <2>4, <2>6 DEF InScript
  <2>8. stmt = NumConsumed + 1 /\ NumConsumed < Len(Script)
    BY <1>0, <2>1, <2>2 DEF Nodes
  <2>9. Mail!Offer
    BY <2>2, <2>6, <2>7, <2>8 DEF Mail!Offer
  <2>10. QED
    BY <2>9 DEF Mail!Next
<1>6. CASE Consumed
  <2>1. /\ pc[Main] = "hold" /\ goal[Main] = "consumed" /\ ReleaseRef(Main, Empty, <<>>)
        /\ pc' = [pc EXCEPT ![Main] = "post"] /\ goal' = goal
    BY <1>6 DEF Consumed
  <2>2. /\ ~EndPublished /\ ref = LockNode
        /\ \A d \in Coroutines : HoldsRef(d) <=> d = Main
    BY <2>1, <1>0, Alone DEF EndPublished
  <2>3. offers = {}
    BY <1>0, <2>1, <2>2, NodesAreNot DEF Offered, StatementInv
  <2>4. Empty \in RefValues /\ Empty # LockNode /\ Empty # EndNode
    BY NodesAreNot DEF RefValues
  <2>5. path' = path \o <<>> /\ (\A n \in Nodes : ~Offered(n)') /\ ~EndInRef'
    BY <1>0, <2>1, <2>4, Released, NodesAreNot
  <2>6. path' = path
    BY <1>0, <2>5 DEF TypeOK
  <2>7. NumConsumed' = NumConsumed /\ ~EndPublished' /\ offers' = {}
    BY <2>2, <2>5, <2>6, PathSame DEF EndPublished
  <2>8. phase' = phase
    BY <2>1, <2>2, <2>7 DEF InScript
  <2>9. QED
    BY <1>1, <2>3, <2>7, <2>8
<1>7. ASSUME NEW o \in {"next", "TREENODE_COVERED", "REPLAY_FAILS"}, SubmitChoice(o)
      PROVE  [Mail!Next]_(Mail!vars)
  <2>1. /\ pc[Main] = "hold" /\ goal[Main] = "submit" /\ stmt \in Nodes
        /\ ReleaseRef(Main, Empty, IF o = "next" THEN <<stmt>> ELSE <<>>)
        /\ pc' = [pc EXCEPT ![Main] = "post"] /\ goal' = goal
    BY <1>0, <1>7 DEF SubmitChoice, TypeInv, TypeOK, Nodes
  <2>2. ~EndPublished /\ NumConsumed = stmt - 1 /\ offers = {}
    BY <2>1, <1>0, Alone DEF EndPublished, StatementInv, Submitting, Acquiring
  <2>3. Empty \in RefValues /\ Empty # LockNode /\ Empty # EndNode
    BY NodesAreNot DEF RefValues
  <2>4. /\ path' = path \o (IF o = "next" THEN <<stmt>> ELSE <<>>)
        /\ (\A n \in Nodes : ~Offered(n)') /\ ~EndInRef'
    BY <1>0, <2>1, <2>3, Released, NodesAreNot
  <2>5. stmt = NumConsumed + 1 /\ NumConsumed < Len(Script)
    BY <1>0, <2>1, <2>2 DEF Nodes
  <2>6. CASE o = "next"
    <3>1. ~PathEnded' /\ NumConsumed' = stmt
      BY <1>0, <2>1, <2>2, <2>4, <2>5, <2>6, PathConsumes DEF OfferInv, EndPublished
    <3>2. phase = "open" /\ phase' = "open" /\ offers' = {}
      BY <2>1, <2>2, <2>4, <3>1 DEF InScript, EndPublished
    <3>3. Mail!Decide
      BY <2>2, <2>5, <3>1, <3>2 DEF Mail!Decide
    <3>4. QED
      BY <3>3 DEF Mail!Next
  <2>7. CASE o # "next"
    <3>1. path' = path
      BY <1>0, <2>4, <2>7 DEF TypeOK
    <3>2. NumConsumed' = NumConsumed /\ ~EndPublished' /\ offers' = {}
      BY <2>2, <2>4, <3>1, PathSame DEF EndPublished
    <3>3. phase' = phase
      BY <2>1, <2>2, <3>2 DEF InScript
    <3>4. QED
      BY <1>1, <2>2, <3>2, <3>3
  <2>8. QED
    BY <2>6, <2>7
<1>8. ASSUME NEW c \in Coroutines, InsertEnd(c) PROVE [Mail!Next]_(Mail!vars)
  <2>1. /\ pc[c] = "hold" /\ goal[c] = "endException"
        /\ ReleaseRef(c, EndNode, <<EndNode>>) /\ pc' = [pc EXCEPT ![c] = "post"]
    BY <1>8 DEF InsertEnd
  <2>2. ~EndPublished
    BY <2>1, <1>0, Alone DEF EndPublished
  <2>3. EndNode \in RefValues /\ EndNode # LockNode
    BY NodesAreNot DEF RefValues
  <2>4. path' = path \o <<EndNode>> /\ (\A n \in Nodes : ~Offered(n)') /\ EndInRef'
    BY <1>0, <2>1, <2>3, Released, NodesAreNot
  <2>5. NumConsumed' = NumConsumed
    BY <1>0, <2>2, <2>4, PathEnds DEF OfferInv, EndPublished
  <2>6. phase # "closed" /\ phase' = "closed" /\ offers' = {}
    BY <2>2, <2>4 DEF EndPublished
  <2>7. Mail!Close
    BY <2>5, <2>6 DEF Mail!Close
  <2>8. QED
    BY <2>7 DEF Mail!Next
<1>9. CASE EndSuccess
  <2>1. pc[Main] = "hold" /\ pc' = [pc EXCEPT ![Main] = "post"]
    BY <1>9 DEF EndSuccess
  <2>2. PICK added \in {<<>>, <<EndNode>>} :
          ReleaseRef(Main, EndNode, added) /\ (PathEnded => added = <<>>)
    BY <1>9 DEF EndSuccess
  <2>3. EndNode \in RefValues /\ EndNode # LockNode
    BY NodesAreNot DEF RefValues
  <2>4. path' = path \o added /\ (\A n \in Nodes : ~Offered(n)') /\ EndInRef'
    BY <1>0, <2>1, <2>2, <2>3, Released, NodesAreNot
  <2>5. NumConsumed' = NumConsumed
    <3>1. CASE added = <<>>
      <4>1. path' = path
        BY <2>4, <3>1, <1>0 DEF TypeOK
      <4>2. QED
        BY <4>1, PathSame
    <3>2. CASE added # <<>>
      BY <1>0, <2>2, <2>4, <3>2, PathEnds DEF OfferInv
    <3>3. QED
      BY <3>1, <3>2
  <2>6. phase' = "closed" /\ offers' = {}
    BY <2>4 DEF EndPublished
  <2>7. CASE EndPublished
    <3>1. phase = "closed" /\ offers = {}
      BY <1>0, <2>7, NoOfferAtEnd
    <3>2. QED
      BY <1>1, <2>5, <2>6, <3>1
  <2>8. CASE ~EndPublished
    <3>1. phase # "closed"
      BY <2>8
    <3>2. Mail!Close
      BY <2>5, <2>6, <3>1 DEF Mail!Close
    <3>3. QED
      BY <3>2 DEF Mail!Next
  <2>9. QED
    BY <2>7, <2>8
<1>10. ASSUME NEW t \in Threads, ReleaseTransition(t) PROVE [Mail!Next]_(Mail!vars)
  <2>1. /\ pc[t] = "release" /\ goal[t] = "transition" /\ node[t] \in Nodes
        /\ pc' = [pc EXCEPT ![t] = "post"] /\ goal' = goal
    BY <1>0, <1>10 DEF ReleaseTransition, TypeInv
  <2>2. ~EndPublished /\ HoldsRef(t)
    BY <2>1, <1>0, Alone DEF EndPublished
  <2>3. Offered(node[t]) /\ node[t] = stmt /\ NumConsumed = stmt - 1
    BY <2>1, <2>2, <1>0 DEF Offered, OfferInv
  <2>4. offers = {stmt} /\ stmt = NumConsumed + 1
    BY <1>0, <2>1, <2>3 DEF OfferInv, Nodes
  <2>5. InScript' <=> InScript
    BY <1>0, <2>1 DEF InScript
  <2>6. CASE out[t] \in Consuming
    <3>1. ReleaseRef(t, Empty, <<node[t]>>)
      BY <1>10, <2>6 DEF ReleaseTransition
    <3>2. Empty \in RefValues /\ Empty # LockNode /\ Empty # EndNode
      BY NodesAreNot DEF RefValues
    <3>3. path' = path \o <<node[t]>> /\ (\A n \in Nodes : ~Offered(n)') /\ ~EndInRef'
      BY <1>0, <2>1, <3>1, <3>2, Released, NodesAreNot
    <3>4. ~PathEnded' /\ NumConsumed' = stmt
      BY <1>0, <2>1, <2>2, <2>3, <2>4, <3>3, PathConsumes DEF OfferInv, EndPublished
    <3>5. phase' = phase /\ phase # "closed" /\ offers' = {}
      BY <2>2, <2>5, <3>3, <3>4 DEF EndPublished
    <3>6. Mail!Take
      BY <2>4, <3>4, <3>5 DEF Mail!Take
    <3>7. QED
      BY <3>6 DEF Mail!Next
  <2>7. CASE out[t] \notin Consuming
    <3>1. ReleaseRef(t, node[t], <<>>)
      BY <1>10, <2>7 DEF ReleaseTransition
    <3>2. node[t] \in RefValues /\ node[t] # LockNode /\ node[t] # EndNode
      BY <2>1, NodesAreNot DEF RefValues
    <3>3. /\ path' = path \o <<>> /\ (\A n \in Nodes : Offered(n)' <=> n = node[t])
          /\ ~EndInRef'
      BY <1>0, <2>1, <3>1, <3>2, Released
    <3>4. path' = path
      BY <3>3, <1>0 DEF TypeOK
    <3>5. NumConsumed' = NumConsumed /\ ~EndPublished' /\ offers' = offers
      BY <2>1, <2>2, <2>3, <2>4, <3>3, <3>4, PathSame DEF EndPublished
    <3>6. phase' = phase
      BY <2>2, <2>5, <3>5
    <3>7. QED
      BY <1>1, <3>5, <3>6
  <2>8. QED
    BY <2>6, <2>7
<1>11. CASE ForceLock
  <2>1. /\ \A d \in Coroutines : HoldsRef(d)' <=> d = Main
        /\ node'[Main] = Empty /\ pc'[Main] = "resolve" /\ goal'[Main] = "endSuccess"
        /\ ref' = LockNode /\ path' = path
        /\ pc[Main] = "force" /\ goal[Main] = "endSuccess"
        /\ \A t \in Threads : pc'[t] = "ended"
    BY <1>0, <1>11 DEF ForceLock, HoldsRef, IsAllEnded, LockInv, OwnerInv, EndInv, TypeOK
  <2>2. offers' = {} /\ ~EndInRef'
    BY <2>1, NodesAreNot DEF Offered, EndInRef, InRef
  <2>3. NumConsumed' = NumConsumed /\ PathEnded' = PathEnded /\ ~InScript /\ ~InScript'
    BY <2>1, PathSame DEF InScript
  <2>4. CASE EndPublished
    <3>1. PathEnded /\ offers = {}
      BY <1>0, <2>1, <2>4, NoOfferAtEnd DEF EndPublished, EndInv
    <3>2. phase = "closed" /\ phase' = "closed"
      BY <2>3, <2>4, <3>1 DEF EndPublished
    <3>3. QED
      BY <1>1, <2>2, <2>3, <3>1, <3>2
  <2>5. CASE ~EndPublished
    <3>1. phase = "closing" /\ phase' = "closing"
      BY <2>2, <2>3, <2>5 DEF EndPublished
    <3>2. CASE offers = {}
      BY <1>1, <2>2, <2>3, <3>1, <3>2
    <3>3. CASE offers # {}
      <4>1. Mail!Withdraw
        BY <2>2, <2>3, <3>1, <3>3 DEF Mail!Withdraw
      <4>2. QED
        BY <4>1 DEF Mail!Next
    <3>4. QED
      BY <3>2, <3>3
  <2>6. QED
    BY <2>4, <2>5
<1>12. CASE Restart
  <2>1. EndPublished /\ offers = {}
    BY <1>0, <1>12, NoOfferAtEnd DEF Restart, EndSeen, PastEnd
  <2>2. \A d \in Coroutines : ~HoldsRef(d)' /\ pc'[d] = "idle"
    BY <1>0, <1>12 DEF Restart, HoldsRef
  <2>3. NumConsumed' = 0 /\ ~PathEnded' /\ ref' = Empty
    BY <1>12 DEF Restart, NumConsumed, PathEnded
  <2>4. offers' = {} /\ ~EndPublished' /\ InScript'
    BY <2>2, <2>3, NodesAreNot DEF Offered, EndPublished, EndInRef, InRef, InScript
  <2>5. phase = "closed" /\ phase' = "open"
    BY <2>1, <2>4
  <2>6. Mail!Reopen
    BY <2>1, <2>3, <2>4, <2>5 DEF Mail!Reopen
  <2>7. QED
    BY <2>6 DEF Mail!Next
<1>13. QED
  BY <1>0, <1>3, <1>4, <1>5, <1>6, <1>7, <1>8, <1>9, <1>10, <1>11, <1>12, StepKinds

\* The rendezvous implements the mailbox, for every script and every set of threads:
\* each statement is offered once, taken by one thread or dropped with the execution,
\* and nothing is taken or offered from the end node to the next execution.
THEOREM MailboxImplemented ==
  ASSUME "THREADS_ALLENDED" \notin SutCalls
  PROVE  Spec => ImplementsMailbox
<1>1. Init => Mail!Init
  <2> SUFFICES ASSUME Init PROVE Mail!Init
    OBVIOUS
  <2>1. /\ \A d \in Coroutines : pc[d] = "idle" /\ ~HoldsRef(d)
        /\ NumConsumed = 0 /\ ~PathEnded /\ ref = Empty
    BY RendezvousAssumption DEF Init, HoldsRef, NumConsumed, PathEnded
  <2>2. (\A n \in Nodes : ~Offered(n)) /\ ~EndPublished /\ InScript
    BY <2>1, NodesAreNot DEF Offered, EndPublished, EndInRef, InRef, InScript
  <2>3. QED
    BY <2>1, <2>2 DEF Mail!Init
<1>2. RendezvousInv /\ RendezvousInv' /\ [Next]_vars => [Mail!Next]_(Mail!vars)
  BY MailStep
<1>3. QED
  BY <1>1, <1>2, RendezvousInvariant, PTL DEF Spec, ImplementsMailbox, Mail!Spec

-----------------------------------------------------------------------------
\* Only InsertEnd and EndWithSuccess end the path, and statements stay consumed.
LEMMA PathGrows ==
  ASSUME TypeInv, LockInv, ScriptInv, [Next]_vars
  PROVE  /\ PathEnded' => PathEnded \/ EndSuccess \/ \E c \in Coroutines : InsertEnd(c)
         /\ ~Restart => NumConsumed <= NumConsumed'
         /\ \A t \in Threads : ReleaseTransition(t) /\ out[t] \in Consuming
              => NumConsumed' = node[t]
<1> DEFINE Grows == (PathEnded' => PathEnded) /\ NumConsumed <= NumConsumed'
<1>0. TypeOK /\ EndInv /\ OfferInv /\ StatementInv /\ NumConsumed \in Nat
  BY NumConsumedType DEF TypeInv, ScriptInv
<1>1. path' = path \/ path' = path \o <<>> => Grows
  <2>1. path \o <<>> = path
    BY <1>0 DEF TypeOK
  <2>2. QED
    BY <1>0, <2>1, PathSame
<1>2. Restart => ~PathEnded'
  BY DEF Restart, PathEnded
<1>3. ASSUME NEW t \in Threads, ReleaseTransition(t)
      PROVE  Grows /\ (out[t] \in Consuming => NumConsumed' = node[t])
  <2>1. pc[t] = "release" /\ goal[t] = "transition" /\ node[t] \in Nodes
    BY <1>3 DEF ReleaseTransition, TypeInv
  <2>2. ~PathEnded /\ HoldsRef(t)
    BY <2>1, <1>0, Alone
  <2>3. node[t] = stmt /\ NumConsumed = stmt - 1
    BY <2>1, <2>2, <1>0 DEF Offered, OfferInv
  <2>4. node[t] = NumConsumed + 1
    BY <2>1, <2>3, <1>0 DEF Nodes
  <2>5. CASE out[t] \in Consuming
    <3>1. path' = path \o <<node[t]>>
      BY <1>3, <2>5 DEF ReleaseTransition, ReleaseRef
    <3>2. ~PathEnded' /\ NumConsumed' = node[t]
      BY <1>0, <2>1, <2>2, <2>4, <3>1, PathConsumes DEF OfferInv
    <3>3. QED
      BY <1>0, <2>4, <3>2
  <2>6. CASE out[t] \notin Consuming
    <3>1. path' = path \o <<>>
      BY <1>3, <2>6 DEF ReleaseTransition, ReleaseRef
    <3>2. QED
      BY <1>1, <2>6, <3>1
  <2>7. QED
    BY <2>5, <2>6
<1>4. ASSUME NEW o \in {"next", "TREENODE_COVERED", "REPLAY_FAILS"}, SubmitChoice(o)
      PROVE  Grows
  <2>1. pc[Main] = "hold" /\ goal[Main] = "submit" /\ stmt \in Nodes
    BY <1>4 DEF SubmitChoice, TypeInv, TypeOK, Nodes
  <2>2. ~PathEnded /\ NumConsumed = stmt - 1
    BY <2>1, <1>0, Alone DEF StatementInv, Submitting, Acquiring
  <2>3. stmt = NumConsumed + 1
    BY <2>1, <2>2, <1>0 DEF Nodes
  <2>4. path' = path \o <<stmt>> \/ path' = path \o <<>>
    BY <1>4 DEF SubmitChoice, ReleaseRef
  <2>5. CASE path' = path \o <<stmt>>
    <3>1. ~PathEnded' /\ NumConsumed' = stmt
      BY <1>0, <2>1, <2>2, <2>3, <2>5, PathConsumes DEF OfferInv
    <3>2. QED
      BY <1>0, <2>3, <3>1
  <2>6. QED
    BY <1>1, <2>4, <2>5
<1>5. SubmitNode \/ Consumed => Grows
  BY <1>1 DEF SubmitNode, Consumed, ReleaseRef
<1>6. Keeps \/ PostScript \/ ForceLock => Grows
  BY <1>1 DEF Keeps, PostScript, ForceLock
<1>7. ASSUME EndSuccess \/ \E c \in Coroutines : InsertEnd(c)
      PROVE  NumConsumed <= NumConsumed'
  <2>1. \E added \in {<<>>, <<EndNode>>} :
           path' = path \o added /\ (added # <<>> => ~PathEnded)
    <3>1. CASE EndSuccess
      BY <3>1 DEF EndSuccess, ReleaseRef
    <3>2. ASSUME NEW c \in Coroutines, InsertEnd(c) PROVE ~PathEnded
      BY <1>0, <3>2, Alone DEF InsertEnd
    <3>3. QED
      BY <1>7, <3>1, <3>2 DEF InsertEnd, ReleaseRef
  <2>2. CASE path' = path \o <<>>
    BY <1>1, <2>2
  <2>3. CASE path' = path \o <<EndNode>> /\ ~PathEnded
    <3>1. NumConsumed' = NumConsumed
      BY <1>0, <2>3, PathEnds DEF OfferInv
    <3>2. QED
      BY <1>0, <3>1
  <2>4. QED
    BY <2>1, <2>2, <2>3
<1>8. QED
  BY <1>2, <1>3, <1>4, <1>5, <1>6, <1>7, StepKinds

\* The steps that neither end the path nor restart keep ExcInv.
LEMMA ExcQuietStep ==
  ASSUME SutCalls \subseteq {"ASSERTION"}, ~SutMayHang,
         RendezvousInv, ExcInv, NoAbort, [Next]_vars,
         ~Restart, ~EndSuccess, \A c \in Coroutines : ~InsertEnd(c)
  PROVE  ExcInv'
<1> USE RendezvousAssumption
<1> DEFINE Raised == \A t \in Threads :
               goal[t] = "endException" /\ pc[t] \notin {"idle", "ended"}
                 => err[t] = "ASSERTION"
           Recorded == PathEnded /\ exc = "none" => MainEnds
           Backtrack == exc \in BacktrackReasons => MainEnds
           Adding == \A c \in Coroutines : pc[c] = "addexc" => goal[c] = "endException"
           Joined == pc[Main] = "explore" => IsAllEnded \/ exc \in NonBacktrack

<1>0. /\ pc \in [Coroutines -> ThreadLabels \cup MainLabels]
      /\ goal \in [Coroutines -> Goals]
      /\ out \in [Coroutines -> Decisions]
      /\ prev \in [Coroutines -> Nodes \cup {NULL}]
      /\ node \in [Coroutines -> RefValues]
      /\ err \in [Coroutines -> Exceptions \cup {"SUCCESS"}]
      /\ pc[Main] \in MainLabels /\ TypeOK /\ TypeInv /\ LockInv /\ ScriptInv
  BY DEF TypeInv, TypeOK, RendezvousInv
<1>a. (MainEnds => MainEnds') /\ (PathEnded' => PathEnded)
  BY <1>0, WhereTo, PathGrows
<1>b. "none" \notin Exceptions \cup {"SUCCESS"}
  BY DEF Exceptions, BacktrackReasons, NonBacktrack
<1>c. "ASSERTION" \notin BacktrackReasons /\ "ASSERTION" \in NonBacktrack
  BY DEF BacktrackReasons, NonBacktrack
<1>1. ASSUME NEW c \in Coroutines, Exchange(c) PROVE ExcInv'
  <2>1. Raised' /\ Adding'
    BY <1>1, <1>0 DEF Exchange, ExcInv, MainLabels
  <2>2. Joined' /\ exc' = exc
    BY <1>1, <1>0 DEF Exchange, ExcInv, IsAllEnded, MainLabels
  <2>3. QED
    BY <1>a, <2>1, <2>2 DEF ExcInv
<1>2. ASSUME NEW c \in Coroutines, ExchangeOwned(c) PROVE ExcInv'
  <2>1. Raised' /\ Adding'
    BY <1>2, <1>0 DEF ExchangeOwned, Check, ExcInv, MainLabels
  <2>2. Joined' /\ exc' = exc
    BY <1>2, <1>0 DEF ExchangeOwned, Check, ExcInv, IsAllEnded, MainLabels
  <2>3. QED
    BY <1>a, <2>1, <2>2 DEF ExcInv
<1>3. ASSUME NEW c \in Coroutines, ResolveLock(c) PROVE ExcInv'
  <2>1. Raised' /\ Adding'
    BY <1>3, <1>0 DEF ResolveLock, Check, ExcInv, MainLabels
  <2>2. Joined' /\ exc' = exc
    BY <1>3, <1>0 DEF ResolveLock, Check, ExcInv, IsAllEnded, MainLabels
  <2>3. QED
    BY <1>a, <2>1, <2>2 DEF ExcInv
<1>4. ASSUME NEW c \in Coroutines, ResolveRestore(c) PROVE ExcInv'
  <2>1. Raised' /\ Adding'
    BY <1>4, <1>0 DEF ResolveRestore, ExcInv, MainLabels
  <2>2. Joined' /\ exc' = exc
    BY <1>4, <1>0 DEF ResolveRestore, ExcInv, IsAllEnded, MainLabels
  <2>3. QED
    BY <1>a, <2>1, <2>2 DEF ExcInv
<1>5. ASSUME NEW c \in Coroutines, ResolveEnd(c) PROVE ExcInv'
  <2>1. Raised' /\ Adding'
    BY <1>5, <1>0 DEF ResolveEnd, ExcInv, MainLabels
  <2>2. Joined' /\ exc' = exc
    BY <1>5, <1>0 DEF ResolveEnd, ExcInv, IsAllEnded, MainLabels
  <2>3. QED
    BY <1>a, <2>1, <2>2 DEF ExcInv
<1>6. ASSUME NEW c \in Coroutines, SemWait(c) PROVE ExcInv'
  <2>1. Raised' /\ Adding'
    BY <1>6, <1>0 DEF SemWait, ExcInv, MainLabels
  <2>2. Joined' /\ exc' = exc
    BY <1>6, <1>0 DEF SemWait, ExcInv, IsAllEnded, MainLabels
  <2>3. QED
    BY <1>a, <2>1, <2>2 DEF ExcInv
<1>7. ASSUME NEW c \in Coroutines, SemSignal(c) PROVE ExcInv'
  <2>1. Raised' /\ Adding'
    BY <1>7, <1>0 DEF SemSignal, Signalled, ExcInv, MainLabels
  <2>2. Joined' /\ exc' = exc
    BY <1>7, <1>0 DEF SemSignal, Signalled, ExcInv, IsAllEnded, MainLabels
  <2>3. QED
    BY <1>a, <2>1, <2>2 DEF ExcInv
<1>8. ASSUME NEW c \in Coroutines, FoundByException(c) PROVE ExcInv'
  <2>1. Raised' /\ Adding'
    BY <1>8, <1>0 DEF FoundByException, ExcInv, MainLabels
  <2>2. Joined' /\ exc' = exc
    BY <1>8, <1>0 DEF FoundByException, ExcInv, IsAllEnded, MainLabels
  <2>3. QED
    BY <1>a, <2>1, <2>2 DEF ExcInv
<1>9. ASSUME NEW c \in Coroutines, WriteException(c) PROVE ExcInv'
  <2>1. Raised' /\ Adding'
    BY <1>9, <1>0 DEF WriteException, ExcInv, MainLabels
  <2>2. exc' = err[c] /\ goal[c] = "endException" /\ exc' # "none"
    BY <1>9, <1>0, <1>b DEF WriteException, ExcInv
  <2>3. exc' = "ASSERTION" \/ c = Main
    BY <1>9, <1>0, <2>2 DEF WriteException, ExcInv
  <2>4. c = Main => MainEnds
    BY <1>9, <2>2 DEF WriteException
  <2>5. Joined'
    BY <1>9, <1>0, <1>c, <2>3 DEF WriteException
  <2>6. QED
    BY <1>a, <1>c, <2>1, <2>2, <2>3, <2>4, <2>5 DEF ExcInv
<1>10. ASSUME NEW c \in Coroutines, InsertEnd(c) PROVE ExcInv'
  BY <1>10
<1>11. ASSUME NEW c \in Coroutines, PostException(c) PROVE ExcInv'
  <2>1. Raised' /\ Adding'
    BY <1>11, <1>0 DEF PostException, Signalled, ExcInv, MainLabels
  <2>2. Joined' /\ exc' = exc
    BY <1>11, <1>0 DEF PostException, Signalled, ExcInv, IsAllEnded, MainLabels
  <2>3. QED
    BY <1>a, <2>1, <2>2 DEF ExcInv
<1>12. ASSUME NEW t \in Threads, BeginTransition(t) PROVE ExcInv'
  <2>1. Raised' /\ Adding'
    BY <1>12, <1>0 DEF BeginTransition, ExcInv, MainLabels
  <2>2. Joined' /\ exc' = exc
    BY <1>12, <1>0 DEF BeginTransition, ExcInv, IsAllEnded, MainLabels
  <2>3. QED
    BY <1>a, <2>1, <2>2 DEF ExcInv
<1>13. ASSUME NEW t \in Threads, FoundByTransition(t) PROVE ExcInv'
  <2>1. Raised' /\ Adding'
    BY <1>13, <1>0 DEF FoundByTransition, Return, ExcInv, MainLabels
  <2>2. Joined' /\ exc' = exc
    BY <1>13, <1>0 DEF FoundByTransition, Return, ExcInv, IsAllEnded, MainLabels
  <2>3. QED
    BY <1>a, <2>1, <2>2 DEF ExcInv
<1>14. ASSUME NEW t \in Threads, Eval(t) PROVE ExcInv'
  <2>1. Raised' /\ Adding'
    BY <1>14, <1>0 DEF Eval, Check, Broadcast, ExcInv, MainLabels
  <2>2. Joined' /\ exc' = exc
    BY <1>14, <1>0 DEF Eval, Check, Broadcast, ExcInv, IsAllEnded, MainLabels
  <2>3. QED
    BY <1>a, <2>1, <2>2 DEF ExcInv
<1>15. ASSUME NEW t \in Threads, EvalViolation(t) PROVE ExcInv'
  <2>1. Raised' /\ Adding'
    BY <1>15, <1>0 DEF EvalViolation, ExcInv, MainLabels
  <2>2. Joined' /\ exc' = exc
    BY <1>15, <1>0 DEF EvalViolation, ExcInv, IsAllEnded, MainLabels
  <2>3. QED
    BY <1>a, <2>1, <2>2 DEF ExcInv
<1>16. ASSUME NEW t \in Threads, LockMutex(t) PROVE ExcInv'
  <2>1. Raised' /\ Adding'
    BY <1>16, <1>0 DEF LockMutex, ExcInv, MainLabels
  <2>2. Joined' /\ exc' = exc
    BY <1>16, <1>0 DEF LockMutex, ExcInv, IsAllEnded, MainLabels
  <2>3. QED
    BY <1>a, <2>1, <2>2 DEF ExcInv
<1>17. ASSUME NEW t \in Threads, ReleaseTransition(t) PROVE ExcInv'
  <2>1. Raised' /\ Adding'
    BY <1>17, <1>0 DEF ReleaseTransition, ReleaseRef, ExcInv, MainLabels
  <2>2. Joined' /\ exc' = exc
    BY <1>17, <1>0 DEF ReleaseTransition, ReleaseRef, ExcInv, IsAllEnded, MainLabels
  <2>3. QED
    BY <1>a, <2>1, <2>2 DEF ExcInv
<1>18. ASSUME NEW t \in Threads, PostTransition(t) PROVE ExcInv'
  <2>1. Raised' /\ Adding'
    BY <1>18, <1>0 DEF PostTransition, Return, Signalled, ExcInv, MainLabels
  <2>2. Joined' /\ exc' = exc
    BY <1>18, <1>0 DEF PostTransition, Return, Signalled, ExcInv, IsAllEnded, MainLabels
  <2>3. QED
    BY <1>a, <2>1, <2>2 DEF ExcInv
<1>19. ASSUME NEW t \in Threads, Park(t) PROVE ExcInv'
  <2>1. Raised' /\ Adding'
    BY <1>19, <1>0 DEF Park, ExcInv, MainLabels
  <2>2. Joined' /\ exc' = exc
    BY <1>19, <1>0 DEF Park, ExcInv, IsAllEnded, MainLabels
  <2>3. QED
    BY <1>a, <2>1, <2>2 DEF ExcInv
<1>20. ASSUME NEW t \in Threads, CondTimeout(t) PROVE ExcInv'
  <2>1. Raised' /\ Adding'
    BY <1>20, <1>0 DEF CondTimeout, ExcInv, MainLabels
  <2>2. Joined' /\ exc' = exc
    BY <1>20, <1>0 DEF CondTimeout, ExcInv, IsAllEnded, MainLabels
  <2>3. QED
    BY <1>a, <2>1, <2>2 DEF ExcInv
<1>21. ASSUME NEW t \in Threads, CondSpurious(t) PROVE ExcInv'
  <2>1. Raised' /\ Adding'
    BY <1>21, <1>0 DEF CondSpurious, ExcInv, MainLabels
  <2>2. Joined' /\ exc' = exc
    BY <1>21, <1>0 DEF CondSpurious, ExcInv, IsAllEnded, MainLabels
  <2>3. QED
    BY <1>a, <2>1, <2>2 DEF ExcInv
<1>22. ASSUME NEW t \in Threads, Reacquire(t) PROVE ExcInv'
  <2>1. Raised' /\ Adding'
    BY <1>22, <1>0 DEF Reacquire, ExcInv, MainLabels
  <2>2. Joined' /\ exc' = exc
    BY <1>22, <1>0 DEF Reacquire, ExcInv, IsAllEnded, MainLabels
  <2>3. QED
    BY <1>a, <2>1, <2>2 DEF ExcInv
<1>23. ASSUME NEW t \in Threads, NEW e \in SutCalls, Raise(t, e) PROVE ExcInv'
  <2>1. Raised' /\ Adding'
    BY <1>23, <1>0 DEF Raise, ExcInv, MainLabels
  <2>2. Joined' /\ exc' = exc
    BY <1>23, <1>0 DEF Raise, ExcInv, IsAllEnded, MainLabels
  <2>3. QED
    BY <1>a, <2>1, <2>2 DEF ExcInv
<1>24. ASSUME NEW t \in Threads, NotifyWaiters(t) PROVE ExcInv'
  <2>1. Raised' /\ Adding'
    BY <1>24, <1>0 DEF NotifyWaiters, Broadcast, Return, ExcInv, MainLabels
  <2>2. Joined' /\ exc' = exc
    BY <1>24, <1>0 DEF NotifyWaiters, Broadcast, Return, ExcInv, IsAllEnded, MainLabels
  <2>3. QED
    BY <1>a, <2>1, <2>2 DEF ExcInv
<1>25. ASSUME NEW t \in Threads, ThreadEnd(t) PROVE ExcInv'
  <2>1. Raised' /\ Adding'
    BY <1>25, <1>0 DEF ThreadEnd, ExcInv, MainLabels
  <2>2. Joined' /\ exc' = exc
    BY <1>25, <1>0 DEF ThreadEnd, ExcInv, IsAllEnded, MainLabels
  <2>3. QED
    BY <1>a, <2>1, <2>2 DEF ExcInv
<1>26. ASSUME SpinTimeout PROVE ExcInv'
  <2>1. Raised' /\ Adding'
    BY <1>26, <1>0 DEF SpinTimeout, Check, MainThrows, ExcInv, MainLabels
  <2>2. Joined' /\ exc' = exc
    BY <1>26, <1>0 DEF SpinTimeout, Check, MainThrows, ExcInv, IsAllEnded, MainLabels
  <2>3. QED
    BY <1>a, <2>1, <2>2 DEF ExcInv
<1>27. ASSUME WaitTimeout PROVE ExcInv'
  <2>1. Raised' /\ Adding'
    BY <1>27, <1>0 DEF WaitTimeout, MainThrows, ExcInv, MainLabels
  <2>2. Joined' /\ exc' = exc
    BY <1>27, <1>0 DEF WaitTimeout, MainThrows, ExcInv, IsAllEnded, MainLabels
  <2>3. QED
    BY <1>a, <2>1, <2>2 DEF ExcInv
<1>28. ASSUME ElapsedTimeout PROVE ExcInv'
  <2>1. Raised' /\ Adding'
    BY <1>28, <1>0 DEF ElapsedTimeout, MainThrows, Signalled, ExcInv, MainLabels
  <2>2. Joined' /\ exc' = exc
    BY <1>28, <1>0 DEF ElapsedTimeout, MainThrows, Signalled, ExcInv, IsAllEnded, MainLabels
  <2>3. QED
    BY <1>a, <2>1, <2>2 DEF ExcInv
<1>29. ASSUME BeginStatement PROVE ExcInv'
  <2>1. Raised' /\ Adding'
    BY <1>29, <1>0 DEF BeginStatement, MainThrows, ExcInv, MainLabels
  <2>2. Joined' /\ exc' = exc
    BY <1>29, <1>0 DEF BeginStatement, MainThrows, ExcInv, IsAllEnded, MainLabels
  <2>3. QED
    BY <1>a, <2>1, <2>2 DEF ExcInv
<1>30. ASSUME ScriptEnd PROVE ExcInv'
  <2>1. Raised' /\ Adding'
    BY <1>30, <1>0 DEF ScriptEnd, MainThrows, ExcInv, MainLabels
  <2>2. Joined' /\ exc' = exc
    BY <1>30, <1>0 DEF ScriptEnd, MainThrows, ExcInv, IsAllEnded, MainLabels
  <2>3. QED
    BY <1>a, <2>1, <2>2 DEF ExcInv
<1>31. ASSUME NEW e \in ScriptThrows, ScriptThrow(e) PROVE ExcInv'
  <2>1. Raised' /\ Adding'
    BY <1>31, <1>0 DEF ScriptThrow, MainThrows, ExcInv, MainLabels
  <2>2. Joined' /\ exc' = exc
    BY <1>31, <1>0 DEF ScriptThrow, MainThrows, ExcInv, IsAllEnded, MainLabels
  <2>3. QED
    BY <1>a, <2>1, <2>2 DEF ExcInv
<1>32. ASSUME NEW o \in {"next", "TREENODE_COVERED", "REPLAY_FAILS"}, SubmitChoice(o)
       PROVE  ExcInv'
  <2>1. Raised' /\ Adding'
    BY <1>32, <1>0 DEF SubmitChoice, ReleaseRef, ExcInv, MainLabels
  <2>2. Joined' /\ exc' = exc
    BY <1>32, <1>0 DEF SubmitChoice, ReleaseRef, ExcInv, IsAllEnded, MainLabels
  <2>3. QED
    BY <1>a, <2>1, <2>2 DEF ExcInv
<1>33. ASSUME SubmitNode PROVE ExcInv'
  <2>1. Raised' /\ Adding'
    BY <1>33, <1>0 DEF SubmitNode, ReleaseRef, ExcInv, MainLabels
  <2>2. Joined' /\ exc' = exc
    BY <1>33, <1>0 DEF SubmitNode, ReleaseRef, ExcInv, IsAllEnded, MainLabels
  <2>3. QED
    BY <1>a, <2>1, <2>2 DEF ExcInv
<1>34. ASSUME Consumed PROVE ExcInv'
  <2>1. Raised' /\ Adding'
    BY <1>34, <1>0 DEF Consumed, ReleaseRef, ExcInv, MainLabels
  <2>2. Joined' /\ exc' = exc
    BY <1>34, <1>0 DEF Consumed, ReleaseRef, ExcInv, IsAllEnded, MainLabels
  <2>3. QED
    BY <1>a, <2>1, <2>2 DEF ExcInv
<1>35. ASSUME PostScript PROVE ExcInv'
  <2>1. Raised' /\ Adding'
    BY <1>35, <1>0 DEF PostScript, MainThrows, Signalled, ExcInv, MainLabels
  <2>2. Joined' /\ exc' = exc
    BY <1>35, <1>0 DEF PostScript, MainThrows, Signalled, ExcInv, IsAllEnded, MainLabels
  <2>3. QED
    BY <1>a, <2>1, <2>2 DEF ExcInv
<1>36. ASSUME FoundByScript PROVE ExcInv'
  <2>1. Raised' /\ Adding'
    BY <1>36, <1>0 DEF FoundByScript, Check, MainThrows, ExcInv, MainLabels
  <2>2. Joined' /\ exc' = exc
    BY <1>36, <1>0 DEF FoundByScript, Check, MainThrows, ExcInv, IsAllEnded, MainLabels
  <2>3. QED
    BY <1>a, <2>1, <2>2 DEF ExcInv
<1>37. ASSUME ForceLock PROVE ExcInv'
  <2>1. Raised' /\ Adding'
    BY <1>37, <1>0 DEF ForceLock, ExcInv, MainLabels
  <2>2. Joined' /\ exc' = exc
    BY <1>37, <1>0 DEF ForceLock, ExcInv, IsAllEnded, MainLabels
  <2>3. QED
    BY <1>a, <2>1, <2>2 DEF ExcInv
<1>38. ASSUME FoundByEndSuccess PROVE ExcInv'
  <2>1. Raised' /\ Adding'
    BY <1>38, <1>0 DEF FoundByEndSuccess, Check, ExcInv, MainLabels
  <2>2. Joined' /\ exc' = exc
    BY <1>38, <1>0 DEF FoundByEndSuccess, Check, ExcInv, IsAllEnded, MainLabels
  <2>3. QED
    BY <1>a, <2>1, <2>2 DEF ExcInv
<1>39. ASSUME EndSuccess PROVE ExcInv'
  BY <1>39
<1>40. ASSUME PostSuccess PROVE ExcInv'
  <2>1. Raised' /\ Adding'
    BY <1>40, <1>0 DEF PostSuccess, Signalled, ExcInv, MainLabels
  <2>2. Joined' /\ exc' = exc
    BY <1>40, <1>0 DEF PostSuccess, Signalled, ExcInv, IsAllEnded, MainLabels
  <2>3. QED
    BY <1>a, <2>1, <2>2 DEF ExcInv
<1>41. ASSUME MainNotifyWaiters PROVE ExcInv'
  <2>1. Raised' /\ Adding'
    BY <1>41, <1>0 DEF MainNotifyWaiters, Broadcast, ExcInv, MainLabels
  <2>2. Joined' /\ exc' = exc
    BY <1>41, <1>0 DEF MainNotifyWaiters, Broadcast, ExcInv, IsAllEnded, MainLabels
  <2>3. QED
    BY <1>a, <2>1, <2>2 DEF ExcInv
<1>42. ASSUME RunUncontrolled PROVE ExcInv'
  <2>1. Raised' /\ Adding'
    BY <1>42, <1>0 DEF RunUncontrolled, ExcInv, MainLabels
  <2>2. Joined' /\ exc' = exc
    BY <1>42, <1>0 DEF RunUncontrolled, ExcInv, IsAllEnded, MainLabels
  <2>3. QED
    BY <1>a, <2>1, <2>2 DEF ExcInv
<1>43. ASSUME JoinAllThreads PROVE ExcInv'
  <2>1. Raised' /\ Adding'
    BY <1>43, <1>0 DEF JoinAllThreads, ExcInv, MainLabels
  <2>2. Joined' /\ exc' = exc
    BY <1>43, <1>0 DEF JoinAllThreads, ExcInv, IsAllEnded, MainLabels
  <2>3. QED
    BY <1>a, <2>1, <2>2 DEF ExcInv
<1>44. ASSUME JoinDeadlock PROVE ExcInv'
  BY <1>44 DEF JoinDeadlock
<1>45. ASSUME EndSearch PROVE ExcInv'
  <2>1. Raised' /\ Adding'
    BY <1>45, <1>0 DEF EndSearch, ExcInv, MainLabels
  <2>2. Joined' /\ exc' = exc
    BY <1>45, <1>0 DEF EndSearch, ExcInv, IsAllEnded, MainLabels
  <2>3. QED
    BY <1>a, <2>1, <2>2 DEF ExcInv
<1>46. ASSUME Restart PROVE ExcInv'
  BY <1>46
<1>47. ASSUME StartUnreachable PROVE ExcInv'
  <2>1. Raised' /\ Adding'
    BY <1>47, <1>0 DEF StartUnreachable, Check, ExcInv, MainLabels
  <2>2. Joined' /\ exc' = exc
    BY <1>47, <1>0 DEF StartUnreachable, Check, ExcInv, IsAllEnded, MainLabels
  <2>3. QED
    BY <1>a, <2>1, <2>2 DEF ExcInv
<1>48. CASE UNCHANGED vars
  <2>1. NumConsumed' = NumConsumed /\ PathEnded' = PathEnded
    BY <1>48, PathSame DEF vars
  <2>2. QED
    BY <1>48, <2>1 DEF vars, ExcInv, IsAllEnded
<1>49. QED
  BY <1>1, <1>2, <1>3, <1>4, <1>5, <1>6, <1>7, <1>8, <1>9, <1>10, <1>11, <1>12,
     <1>13, <1>14, <1>15, <1>16, <1>17, <1>18, <1>19, <1>20, <1>21, <1>22,
     <1>23, <1>24, <1>25, <1>26, <1>27, <1>28, <1>29, <1>30, <1>31, <1>32,
     <1>33, <1>34, <1>35, <1>36, <1>37, <1>38, <1>39, <1>40, <1>41, <1>42,
     <1>43, <1>44, <1>45, <1>46, <1>47, <1>48
  DEF Next, AcquireStep, EndStep, ThreadStep, MainStep

\* Every step keeps ExcInv.
LEMMA ExcStep ==
  ASSUME SutCalls \subseteq {"ASSERTION"}, ~SutMayHang,
         RendezvousInv, ExcInv, NoAbort, [Next]_vars
  PROVE  ExcInv'
<1> USE RendezvousAssumption
<1>0. /\ pc \in [Coroutines -> ThreadLabels \cup MainLabels]
      /\ goal \in [Coroutines -> Goals]
      /\ out \in [Coroutines -> Decisions]
      /\ prev \in [Coroutines -> Nodes \cup {NULL}]
      /\ node \in [Coroutines -> RefValues]
      /\ err \in [Coroutines -> Exceptions \cup {"SUCCESS"}]
      /\ pc[Main] \in MainLabels /\ TypeOK /\ TypeInv /\ LockInv /\ ScriptInv
  BY DEF TypeInv, TypeOK, RendezvousInv
<1>a. /\ "none" \notin Exceptions \cup {"SUCCESS"} /\ "none" \notin BacktrackReasons
      /\ "none" \notin NonBacktrack
      /\ "ASSERTION" \notin BacktrackReasons /\ "ASSERTION" \in NonBacktrack
  BY DEF Exceptions, BacktrackReasons, NonBacktrack
<1>1. CASE Restart
  <2>1. /\ exc' = "none" /\ ~PathEnded' /\ \A c \in Coroutines : pc'[c] = "idle"
    BY <1>1 DEF Restart, PathEnded
  <2>2. QED
    BY <1>a, <2>1 DEF ExcInv
<1>2. CASE EndSuccess
  <2>1. /\ goal'[Main] = "endSuccess" /\ pc'[Main] = "post" /\ UNCHANGED <<goal, err, exc>>
        /\ \A t \in Threads : pc'[t] = pc[t]
    BY <1>0, <1>2 DEF EndSuccess
  <2>2. QED
    BY <2>1 DEF ExcInv
<1>3. ASSUME NEW c \in Coroutines, InsertEnd(c) PROVE ExcInv'
  <2>1. /\ pc[c] = "hold" /\ goal[c] = "endException" /\ UNCHANGED <<goal, err>>
        /\ exc' = IF exc = "none" THEN err[c] ELSE exc
        /\ pc' = [pc EXCEPT ![c] = "post"]
    BY <1>3 DEF InsertEnd, AddException
  <2>2. /\ exc' # "none"
        /\ exc = "none" => exc' = "ASSERTION" \/ c = Main
    BY <1>0, <1>a, <2>1 DEF ExcInv
  <2>3. MainEnds => MainEnds'
    BY <1>0, <2>1
  <2>4. c = Main => MainEnds'
    BY <1>0, <2>1
  <2>5. exc' \in BacktrackReasons => MainEnds'
    BY <1>a, <2>1, <2>2, <2>3, <2>4 DEF ExcInv
  <2>6. pc'[Main] = "explore" => IsAllEnded' \/ exc' \in NonBacktrack
    BY <1>0, <1>a, <2>1, <2>2 DEF ExcInv, IsAllEnded
  <2>7. QED
    BY <1>0, <2>1, <2>2, <2>5, <2>6 DEF ExcInv
<1>4. QED
  BY <1>1, <1>2, <1>3, ExcQuietStep

\* What thread t does in a step that concerns prev_unsat_node of no other thread.
PrevQuiet(t) ==
  /\ prev'[t] \in {prev[t], NULL}
  /\ pc'[t] \in {"idle", "ended"} => prev'[t] = NULL
  /\ pc[t] = "release" => pc'[t] = "release" /\ out'[t] = out[t] /\ node'[t] = node[t]
  /\ goal'[t] = "transition" =>
       /\ pc'[t] \in {"hold", "lock", "release", "post"} =>
            /\ goal[t] = "transition" /\ node'[t] = node[t]
            /\ pc[t] \in {"hold", "lock", "release", "post"}
       /\ pc'[t] = "post" => pc[t] = "post" /\ out'[t] = out[t]
       /\ /\ pc'[t] \in {"woken", "exchange", "resolve", "found", "wait", "signal", "hold"}
          /\ prev'[t] # NULL
          =>
            /\ pc[t] \in {"woken", "exchange", "resolve", "found", "wait", "signal", "hold"}
             /\ goal[t] = "transition"

\* A statement that is gone stays so until the next execution.
LEMMA GoneStays ==
  ASSUME TypeInv, LockInv, ScriptInv, [Next]_vars, ~Restart
  PROVE  /\ NumConsumed <= NumConsumed' /\ NumConsumed \in Nat /\ NumConsumed' \in Nat
         /\ \A n \in Nodes : Gone(n) => Gone(n)'
         /\ EndPublished => \A n \in Nodes : Gone(n)'
<1>1. NumConsumed <= NumConsumed' /\ NumConsumed \in Nat /\ NumConsumed' \in Nat
  <2>1. TypeInv'
    BY TypeStep
  <2>2. NumConsumed' \in Nat
    BY <2>1, NumConsumedType DEF TypeInv, TypeOK, NumConsumed, PathEnded
  <2>3. QED
    BY <2>2, NumConsumedType, PathGrows DEF TypeInv
<1>2. EndPublished => EndPublished'
  BY EndStays
<1>3. QED
  BY <1>1, <1>2 DEF Gone, Nodes

\* Steps that are quiet for every thread keep PrevInv.
LEMMA PrevQuietStep ==
  ASSUME TypeInv, LockInv, ScriptInv, NoAbort, PrevInv, [Next]_vars, ~Restart,
         \A t \in Threads : PrevQuiet(t)
  PROVE  PrevInv'
<1>0. prev \in [Coroutines -> Nodes \cup {NULL}] /\ node \in [Coroutines -> RefValues]
  BY DEF TypeInv, TypeOK
<1>1. /\ NumConsumed <= NumConsumed' /\ NumConsumed \in Nat /\ NumConsumed' \in Nat
      /\ \A n \in Nodes : Gone(n) => Gone(n)'
  BY GoneStays
<1>2. \A t \in Threads : /\ pc'[t] \in {"idle", "ended"} => prev'[t] = NULL
                         /\ prev'[t] # NULL => prev'[t] <= NumConsumed' + 1
  BY <1>0, <1>1 DEF PrevQuiet, PrevInv, Nodes
<1>3. ASSUME NEW t \in Threads, goal'[t] = "transition",
             pc'[t] \in {"hold", "lock", "release", "post"}
      PROVE  /\ node'[t] <= NumConsumed' + 1
             /\ pc'[t] = "post" /\ out'[t] \in Consuming => node'[t] <= NumConsumed'
  <2>1. /\ goal[t] = "transition" /\ node'[t] = node[t]
        /\ pc[t] \in {"hold", "lock", "release", "post"}
        /\ pc'[t] = "post" => pc[t] = "post" /\ out'[t] = out[t]
    BY <1>3 DEF PrevQuiet
  <2>2. node[t] \in Nodes
    BY <2>1 DEF TypeInv, NoAbort
  <2>3. QED
    BY <1>1, <2>1, <2>2 DEF PrevInv, Nodes
<1>4. ASSUME NEW t \in Threads, goal'[t] = "transition", prev'[t] # NULL,
             pc'[t] \in {"woken", "exchange", "resolve", "found", "wait", "signal", "hold"}
      PROVE  \/ Gone(prev[t])'
             \/ \E c \in Threads : pc'[c] = "release" /\ out'[c] \in Consuming
                  /\ node'[c] = prev'[t]
  <2>1. /\ prev'[t] = prev[t] /\ prev[t] \in Nodes /\ goal[t] = "transition"
        /\ pc[t] \in {"woken", "exchange", "resolve", "found", "wait", "signal", "hold"}
    BY <1>0, <1>4 DEF PrevQuiet
  <2>2. CASE Gone(prev[t])
    <3>1. prev[t] <= NumConsumed' \/ EndPublished'
      BY <1>1, <2>1, <2>2 DEF Gone
    <3>2. QED
      BY <2>1, <3>1 DEF Gone
  <2>3. CASE ~Gone(prev[t])
    <3>1. PICK c \in Threads : pc[c] = "release" /\ out[c] \in Consuming
            /\ node[c] = prev[t]
      BY <1>4, <2>1, <2>3, RendezvousAssumption DEF PrevInv, Nodes
    <3>2. QED
      BY <2>1, <3>1 DEF PrevQuiet
  <2>4. QED
    BY <2>2, <2>3
<1>5. QED
  BY <1>2, <1>3, <1>4 DEF PrevInv

\* Every step keeps PrevInv.
LEMMA PrevStep ==
  ASSUME ~SpuriousWakeups, RendezvousInv, PrevInv, NoAbort, [Next]_vars
  PROVE  PrevInv'
<1> USE RendezvousAssumption

<1>0. /\ EndSeen
      /\ pc \in [Coroutines -> ThreadLabels \cup MainLabels]
      /\ goal \in [Coroutines -> Goals]
      /\ out \in [Coroutines -> Decisions]
      /\ prev \in [Coroutines -> Nodes \cup {NULL}]
      /\ node \in [Coroutines -> RefValues]
      /\ err \in [Coroutines -> Exceptions \cup {"SUCCESS"}]
      /\ pc[Main] \in MainLabels /\ TypeOK /\ TypeInv /\ LockInv /\ ScriptInv
  BY DEF TypeInv, TypeOK, RendezvousInv
<1>1. ASSUME NEW c \in Coroutines, Exchange(c) PROVE PrevInv'
  <2>1. \A s \in Threads : PrevQuiet(s)
    BY <1>1, <1>0 DEF Exchange, PrevQuiet, PrevInv
  <2>2. QED
    BY <1>1, <1>0, <2>1, PrevQuietStep DEF Exchange, Restart
<1>2. ASSUME NEW c \in Coroutines, ExchangeOwned(c) PROVE PrevInv'
  <2>1. \A s \in Threads : PrevQuiet(s)
    BY <1>2, <1>0 DEF ExchangeOwned, Check, PrevQuiet, PrevInv, LockInv, OwnerInv
  <2>2. QED
    BY <1>2, <1>0, <2>1, PrevQuietStep DEF ExchangeOwned, Restart
<1>3. ASSUME NEW c \in Coroutines, ResolveLock(c) PROVE PrevInv'
  <2>1. /\ NumConsumed <= NumConsumed' /\ NumConsumed \in Nat /\ NumConsumed' \in Nat
        /\ \A n \in Nodes : Gone(n) => (n <= NumConsumed' \/ EndPublished')
        /\ EndPublished => EndPublished'
    BY <1>3, <1>0, GoneStays, EndStays DEF ResolveLock, Restart, Gone
  <2>2. CASE goal[c] # "transition"
    <3>1. \A s \in Threads : PrevQuiet(s)
      BY <1>3, <1>0, <2>2 DEF ResolveLock, PrevQuiet, PrevInv
    <3>2. QED
      BY <1>3, <1>0, <3>1, PrevQuietStep DEF ResolveLock, Restart
  <2>3. CASE goal[c] = "transition"
    <3>1. c \in Threads /\ node[c] \in Nodes /\ HoldsRef(c)
      BY <1>3, <1>0, <2>3 DEF ResolveLock, TypeOK, Mode, AcquireModes, HoldsRef
    <3>2. node[c] <= NumConsumed + 1
      BY <1>0, <2>1, <3>1 DEF Offered, ScriptInv, OfferInv, Nodes
    <3>3. /\ UNCHANGED <<goal, node, out, prev>>
          /\ pc'[c] = "hold" /\ \A s \in Threads : s # c => pc'[s] = pc[s]
          /\ pc[c] = "resolve"
      BY <1>3, <1>0 DEF ResolveLock
    <3>4. \A s \in Threads : /\ pc'[s] \in {"idle", "ended"} => prev'[s] = NULL
                             /\ prev'[s] # NULL => prev'[s] <= NumConsumed' + 1
      BY <1>0, <2>1, <3>3 DEF PrevInv, Nodes
    <3>5. \A s \in Threads : goal'[s] = "transition" =>
            /\ pc'[s] \in {"hold", "lock", "release", "post"}
                 => node'[s] <= NumConsumed' + 1
            /\ pc'[s] = "post" /\ out'[s] \in Consuming => node'[s] <= NumConsumed'
      BY <1>0, <2>1, <3>1, <3>2, <3>3 DEF PrevInv, TypeInv, NoAbort, Nodes
    <3>6. ASSUME NEW s \in Threads, goal'[s] = "transition", prev'[s] # NULL,
                 pc'[s] \in {"woken", "exchange", "resolve", "found", "wait", "signal", "hold"}
          PROVE  \/ Gone(prev[s])'
                 \/ \E d \in Threads : pc'[d] = "release" /\ out'[d] \in Consuming
                      /\ node'[d] = prev'[s]
      <4>1. Gone(prev[s]) \/ \E d \in Threads : pc[d] = "release"
              /\ out[d] \in Consuming /\ node[d] = prev[s]
        BY <3>3, <3>6 DEF PrevInv
      <4>2. Gone(prev[s]) => Gone(prev[s])'
        BY <1>0, <2>1, <3>3, <3>6 DEF Gone
      <4>3. QED
        BY <3>3, <4>1, <4>2
    <3>7. QED
      BY <3>4, <3>5, <3>6 DEF PrevInv
  <2>4. QED
    BY <2>2, <2>3
<1>4. ASSUME NEW c \in Coroutines, ResolveRestore(c) PROVE PrevInv'
  <2>1. \A s \in Threads : PrevQuiet(s)
    BY <1>4, <1>0 DEF ResolveRestore, PrevQuiet, PrevInv
  <2>2. QED
    BY <1>4, <1>0, <2>1, PrevQuietStep DEF ResolveRestore, Restart
<1>5. ASSUME NEW c \in Coroutines, ResolveEnd(c) PROVE PrevInv'
  <2>1. \A s \in Threads : PrevQuiet(s)
    BY <1>5, <1>0 DEF ResolveEnd, PrevQuiet, PrevInv
  <2>2. QED
    BY <1>5, <1>0, <2>1, PrevQuietStep DEF ResolveEnd, Restart
<1>6. ASSUME NEW c \in Coroutines, SemWait(c) PROVE PrevInv'
  <2>1. \A s \in Threads : PrevQuiet(s)
    BY <1>6, <1>0 DEF SemWait, PrevQuiet, PrevInv
  <2>2. QED
    BY <1>6, <1>0, <2>1, PrevQuietStep DEF SemWait, Restart
<1>7. ASSUME NEW c \in Coroutines, SemSignal(c) PROVE PrevInv'
  <2>1. \A s \in Threads : PrevQuiet(s)
    BY <1>7, <1>0 DEF SemSignal, Signalled, PrevQuiet, PrevInv
  <2>2. QED
    BY <1>7, <1>0, <2>1, PrevQuietStep DEF SemSignal, Restart
<1>8. ASSUME NEW c \in Coroutines, FoundByException(c) PROVE PrevInv'
  <2>1. \A s \in Threads : PrevQuiet(s)
    BY <1>8, <1>0 DEF FoundByException, PrevQuiet, PrevInv
  <2>2. QED
    BY <1>8, <1>0, <2>1, PrevQuietStep DEF FoundByException, Restart
<1>9. ASSUME NEW c \in Coroutines, WriteException(c) PROVE PrevInv'
  <2>1. \A s \in Threads : PrevQuiet(s)
    BY <1>9, <1>0 DEF WriteException, PrevQuiet, PrevInv
  <2>2. QED
    BY <1>9, <1>0, <2>1, PrevQuietStep DEF WriteException, Restart
<1>10. ASSUME NEW c \in Coroutines, InsertEnd(c) PROVE PrevInv'
  <2>1. \A s \in Threads : PrevQuiet(s)
    BY <1>10, <1>0 DEF InsertEnd, ReleaseRef, PrevQuiet, PrevInv
  <2>2. QED
    BY <1>10, <1>0, <2>1, PrevQuietStep DEF InsertEnd, Restart
<1>11. ASSUME NEW c \in Coroutines, PostException(c) PROVE PrevInv'
  <2>1. \A s \in Threads : PrevQuiet(s)
    BY <1>11, <1>0 DEF PostException, Signalled, PrevQuiet, PrevInv
  <2>2. QED
    BY <1>11, <1>0, <2>1, PrevQuietStep DEF PostException, Restart
<1>12. ASSUME NEW t \in Threads, BeginTransition(t) PROVE PrevInv'
  <2>1. \A s \in Threads : PrevQuiet(s)
    BY <1>12, <1>0 DEF BeginTransition, PrevQuiet, PrevInv
  <2>2. QED
    BY <1>12, <1>0, <2>1, PrevQuietStep DEF BeginTransition, Restart
<1>13. ASSUME NEW t \in Threads, FoundByTransition(t) PROVE PrevInv'
  <2>1. \A s \in Threads : PrevQuiet(s)
    BY <1>13, <1>0 DEF FoundByTransition, Return, PrevQuiet, PrevInv
  <2>2. QED
    BY <1>13, <1>0, <2>1, PrevQuietStep DEF FoundByTransition, Restart
<1>14. ASSUME NEW t \in Threads, Eval(t) PROVE PrevInv'
  <2>1. /\ NumConsumed <= NumConsumed' /\ NumConsumed \in Nat /\ NumConsumed' \in Nat
        /\ \A n \in Nodes : Gone(n) => (n <= NumConsumed' \/ EndPublished')
        /\ EndPublished => EndPublished'
    BY <1>14, <1>0, GoneStays, EndStays DEF Eval, Restart, Gone
  <2>2. PICK o \in {"consume", "consumeTake", "take", "retry"} :
          /\ out' = [out EXCEPT ![t] = o]
          /\ pc' = [(IF o \in Consuming THEN Broadcast(pc) ELSE pc)
                       EXCEPT ![t] = IF o = "retry" THEN "lock" ELSE "release"]
    BY ZenonT(40), <1>14 DEF Eval, Outcomes
  <2>3. /\ goal[t] = "transition" /\ pc[t] = "hold" /\ UNCHANGED <<goal, node, prev>>
        /\ node[t] \in Nodes /\ node[t] = NumConsumed + 1
    <3>1. goal[t] = "transition" /\ pc[t] = "hold" /\ UNCHANGED <<goal, node, prev>>
      BY <1>14 DEF Eval
    <3>2. node[t] \in Nodes /\ Offered(node[t])
      BY <1>0, <3>1 DEF TypeInv, NoAbort, Offered, HoldsRef
    <3>3. QED
      BY <1>0, <2>1, <3>1, <3>2 DEF ScriptInv, OfferInv, Nodes
  <2>4. /\ pc'[t] \in {"lock", "release"} /\ out'[t] = o
        /\ o \in Consuming => pc'[t] = "release"
        /\ \A s \in Threads : s # t =>
             /\ out'[s] = out[s]
             /\ pc'[s] = pc[s] \/ (o \in Consuming /\ pc[s] = "asleep" /\ pc'[s] = "woken")
    BY <1>0, <2>2 DEF Broadcast, Consuming
  <2>5. \A s \in Threads : /\ pc'[s] \in {"idle", "ended"} => prev'[s] = NULL
                           /\ prev'[s] # NULL => prev'[s] <= NumConsumed' + 1
    BY <1>0, <2>1, <2>3, <2>4 DEF PrevInv, Nodes
  <2>6. \A s \in Threads : goal'[s] = "transition" =>
          /\ pc'[s] \in {"hold", "lock", "release", "post"} => node'[s] <= NumConsumed' + 1
          /\ pc'[s] = "post" /\ out'[s] \in Consuming => node'[s] <= NumConsumed'
    BY <1>0, <2>1, <2>3, <2>4 DEF PrevInv, TypeInv, NoAbort, Nodes
  <2>7. ASSUME NEW s \in Threads, goal'[s] = "transition", prev'[s] # NULL,
               pc'[s] \in {"woken", "exchange", "resolve", "found", "wait", "signal", "hold"}
        PROVE  \/ Gone(prev[s])'
               \/ \E d \in Threads : pc'[d] = "release" /\ out'[d] \in Consuming
                    /\ node'[d] = prev'[s]
    <3>1. s # t /\ prev[s] \in Nodes /\ prev'[s] = prev[s] /\ goal[s] = "transition"
      BY <1>0, <2>3, <2>4, <2>7
    <3>2. Gone(prev[s]) => Gone(prev[s])'
      BY <2>1, <3>1 DEF Gone
    <3>3. CASE pc'[s] = pc[s]
      <4>1. Gone(prev[s]) \/ \E d \in Threads : pc[d] = "release"
              /\ out[d] \in Consuming /\ node[d] = prev[s]
        BY <2>3, <2>7, <3>1, <3>3 DEF PrevInv
      <4>2. QED
        BY <2>3, <2>4, <3>1, <3>2, <4>1
    <3>4. CASE pc'[s] # pc[s]
      <4>1. o \in Consuming /\ prev[s] <= NumConsumed + 1
        BY <1>0, <2>4, <2>7, <3>1, <3>4 DEF PrevInv
      <4>2. prev[s] = node[t] \/ prev[s] <= NumConsumed
        BY <2>1, <2>3, <3>1, <4>1 DEF Nodes
      <4>3. QED
        BY <2>3, <2>4, <3>1, <3>2, <4>1, <4>2 DEF Gone
    <3>5. QED
      BY <3>3, <3>4
  <2>8. QED
    BY <2>5, <2>6, <2>7 DEF PrevInv
<1>15. ASSUME NEW t \in Threads, EvalViolation(t) PROVE PrevInv'
  <2>1. \A s \in Threads : PrevQuiet(s)
    BY <1>15, <1>0 DEF EvalViolation, PrevQuiet, PrevInv
  <2>2. QED
    BY <1>15, <1>0, <2>1, PrevQuietStep DEF EvalViolation, Restart
<1>16. ASSUME NEW t \in Threads, LockMutex(t) PROVE PrevInv'
  <2>1. \A s \in Threads : PrevQuiet(s)
    BY <1>16, <1>0 DEF LockMutex, PrevQuiet, PrevInv
  <2>2. QED
    BY <1>16, <1>0, <2>1, PrevQuietStep DEF LockMutex, Restart
<1>17. ASSUME NEW t \in Threads, ReleaseTransition(t) PROVE PrevInv'
  <2>1. /\ NumConsumed <= NumConsumed' /\ NumConsumed \in Nat /\ NumConsumed' \in Nat
        /\ \A n \in Nodes : Gone(n) => (n <= NumConsumed' \/ EndPublished')
        /\ EndPublished => EndPublished'
    BY <1>17, <1>0, GoneStays, EndStays DEF ReleaseTransition, Restart, Gone
  <2>2. /\ pc[t] = "release" /\ pc' = [pc EXCEPT ![t] = "post"]
        /\ UNCHANGED <<goal, node, out, prev>>
    BY <1>17 DEF ReleaseTransition, ReleaseRef
  <2>3. out[t] \in Consuming => NumConsumed' = node[t]
    BY <1>17, <1>0, PathGrows
  <2>4. \A s \in Threads : /\ pc'[s] \in {"idle", "ended"} => prev'[s] = NULL
                           /\ prev'[s] # NULL => prev'[s] <= NumConsumed' + 1
    BY <1>0, <2>1, <2>2 DEF PrevInv, Nodes
  <2>5. \A s \in Threads : goal'[s] = "transition" =>
          /\ pc'[s] \in {"hold", "lock", "release", "post"} => node'[s] <= NumConsumed' + 1
          /\ pc'[s] = "post" /\ out'[s] \in Consuming => node'[s] <= NumConsumed'
    BY <1>0, <2>1, <2>2, <2>3 DEF PrevInv, TypeInv, NoAbort, Nodes
  <2>6. ASSUME NEW s \in Threads, goal'[s] = "transition", prev'[s] # NULL,
               pc'[s] \in {"woken", "exchange", "resolve", "found", "wait", "signal", "hold"}
        PROVE  \/ Gone(prev[s])'
               \/ \E d \in Threads : pc'[d] = "release" /\ out'[d] \in Consuming
                    /\ node'[d] = prev'[s]
    <3>1. s # t /\ prev[s] \in Nodes /\ pc'[s] = pc[s]
      BY <1>0, <2>2, <2>6
    <3>2. Gone(prev[s]) \/ \E d \in Threads : pc[d] = "release"
            /\ out[d] \in Consuming /\ node[d] = prev[s]
      BY <2>2, <2>6, <3>1 DEF PrevInv
    <3>3. Gone(prev[s]) => Gone(prev[s])'
      BY <2>1, <2>2, <3>1 DEF Gone
    <3>4. ASSUME NEW d \in Threads, pc[d] = "release", out[d] \in Consuming, node[d] = prev[s]
          PROVE  Gone(prev[s])' \/ (pc'[d] = "release" /\ out'[d] \in Consuming
                   /\ node'[d] = prev'[s])
      BY <1>0, <2>1, <2>2, <2>3, <3>1, <3>4 DEF Gone, Nodes
    <3>5. QED
      BY <3>2, <3>3, <3>4
  <2>7. QED
    BY <2>4, <2>5, <2>6 DEF PrevInv
<1>18. ASSUME NEW t \in Threads, PostTransition(t) PROVE PrevInv'
  <2>1. /\ NumConsumed <= NumConsumed' /\ NumConsumed \in Nat /\ NumConsumed' \in Nat
        /\ \A n \in Nodes : Gone(n) => (n <= NumConsumed' \/ EndPublished')
        /\ EndPublished => EndPublished'
    BY <1>18, <1>0, GoneStays, EndStays DEF PostTransition, Restart, Gone
  <2>2. /\ pc[t] = "post" /\ goal[t] = "transition" /\ node[t] \in Nodes
        /\ node[t] <= NumConsumed + 1 /\ (out[t] = "consume" => node[t] <= NumConsumed)
    BY <1>18, <1>0 DEF PostTransition, TypeInv, NoAbort, PrevInv, Consuming
  <2>3. /\ \/ pc'[t] = "idle" /\ prev'[t] = NULL
           \/ pc'[t] = "exchange" /\ out[t] = "consume" /\ prev'[t] = node[t]
           \/ pc'[t] = "park" /\ prev'[t] = node[t]
        /\ \A s \in Threads : s # t => /\ pc'[s] = pc[s] /\ goal'[s] = goal[s]
                                       /\ node'[s] = node[s] /\ out'[s] = out[s]
                                       /\ prev'[s] = prev[s]
    BY <1>18, <1>0 DEF PostTransition, Return
  <2>4. \A s \in Threads : /\ pc'[s] \in {"idle", "ended"} => prev'[s] = NULL
                           /\ prev'[s] # NULL => prev'[s] <= NumConsumed' + 1
    BY <1>0, <2>1, <2>2, <2>3 DEF PrevInv, Nodes
  <2>5. \A s \in Threads : goal'[s] = "transition" =>
          /\ pc'[s] \in {"hold", "lock", "release", "post"} => node'[s] <= NumConsumed' + 1
          /\ pc'[s] = "post" /\ out'[s] \in Consuming => node'[s] <= NumConsumed'
    BY <1>0, <2>1, <2>2, <2>3 DEF PrevInv, TypeInv, NoAbort, Nodes
  <2>6. ASSUME NEW s \in Threads, goal'[s] = "transition", prev'[s] # NULL,
               pc'[s] \in {"woken", "exchange", "resolve", "found", "wait", "signal", "hold"}
        PROVE  \/ Gone(prev[s])'
               \/ \E d \in Threads : pc'[d] = "release" /\ out'[d] \in Consuming
                    /\ node'[d] = prev'[s]
    <3>1. CASE s = t
      BY <2>1, <2>2, <2>3, <2>6, <3>1 DEF Gone, Nodes
    <3>2. CASE s # t
      <4>1. Gone(prev[s]) \/ \E d \in Threads : pc[d] = "release"
              /\ out[d] \in Consuming /\ node[d] = prev[s]
        BY <2>3, <2>6, <3>2 DEF PrevInv
      <4>2. Gone(prev[s]) => Gone(prev[s])'
        BY <1>0, <2>1, <2>3, <2>6, <3>2 DEF Gone
      <4>3. QED
        BY <2>2, <2>3, <3>2, <4>1, <4>2
    <3>3. QED
      BY <3>1, <3>2
  <2>7. QED
    BY <2>4, <2>5, <2>6 DEF PrevInv
<1>19. ASSUME NEW t \in Threads, Park(t) PROVE PrevInv'
  <2>1. \A s \in Threads : PrevQuiet(s)
    BY <1>19, <1>0 DEF Park, PrevQuiet, PrevInv
  <2>2. QED
    BY <1>19, <1>0, <2>1, PrevQuietStep DEF Park, Restart
<1>20. ASSUME NEW t \in Threads, CondTimeout(t) PROVE PrevInv'
  <2>1. \A s \in Threads : PrevQuiet(s)
    BY <1>20, <1>0 DEF CondTimeout, PrevQuiet, PrevInv
  <2>2. QED
    BY <1>20, <1>0, <2>1, PrevQuietStep DEF CondTimeout, Restart
<1>21. ASSUME NEW t \in Threads, CondSpurious(t) PROVE PrevInv'
  <2>1. \A s \in Threads : PrevQuiet(s)
    BY <1>21, <1>0 DEF CondSpurious, PrevQuiet, PrevInv
  <2>2. QED
    BY <1>21, <1>0, <2>1, PrevQuietStep DEF CondSpurious, Restart
<1>22. ASSUME NEW t \in Threads, Reacquire(t) PROVE PrevInv'
  <2>1. \A s \in Threads : PrevQuiet(s)
    BY <1>22, <1>0 DEF Reacquire, PrevQuiet, PrevInv
  <2>2. QED
    BY <1>22, <1>0, <2>1, PrevQuietStep DEF Reacquire, Restart
<1>23. ASSUME NEW t \in Threads, NEW e \in SutCalls, Raise(t, e) PROVE PrevInv'
  <2>1. \A s \in Threads : PrevQuiet(s)
    BY <1>23, <1>0 DEF Raise, PrevQuiet, PrevInv
  <2>2. QED
    BY <1>23, <1>0, <2>1, PrevQuietStep DEF Raise, Restart
<1>24. ASSUME NEW t \in Threads, NotifyWaiters(t) PROVE PrevInv'
  <2>0. ~Restart
    BY <1>24 DEF Restart, IsAllEnded, NotifyWaiters
  <2>1. /\ NumConsumed <= NumConsumed' /\ NumConsumed \in Nat /\ NumConsumed' \in Nat
        /\ \A n \in Nodes : Gone(n) => (n <= NumConsumed' \/ EndPublished')
        /\ EndPublished => EndPublished'
    BY <2>0, <1>0, GoneStays, EndStays DEF Gone
  <2>2. EndPublished'
    BY <1>24, <1>0, <2>1 DEF NotifyWaiters, EndSeen, PastEnd
  <2>3. ASSUME NEW s \in Threads
        PROVE  /\ pc'[s] \in {"idle", "ended"} => prev'[s] = NULL
               /\ prev'[s] # NULL => prev'[s] <= NumConsumed' + 1
               /\ goal'[s] = "transition"
                    => pc'[s] \notin {"hold", "lock", "release", "post"} \/
                    (pc'[s] = pc[s] /\ goal[s] = "transition" /\ node'[s] = node[s]
                      /\ out'[s] = out[s])
    BY <1>24, <1>0, <2>1 DEF NotifyWaiters, Broadcast, Return, PrevInv, Nodes
  <2>4. \A s \in Threads : goal'[s] = "transition" =>
          /\ pc'[s] \in {"hold", "lock", "release", "post"} => node'[s] <= NumConsumed' + 1
          /\ pc'[s] = "post" /\ out'[s] \in Consuming => node'[s] <= NumConsumed'
    BY <1>0, <2>1, <2>3 DEF PrevInv, TypeInv, NoAbort, Nodes
  <2>5. QED
    BY <2>2, <2>3, <2>4 DEF PrevInv, Gone
<1>25. ASSUME NEW t \in Threads, ThreadEnd(t) PROVE PrevInv'
  <2>1. \A s \in Threads : PrevQuiet(s)
    BY <1>25, <1>0 DEF ThreadEnd, PrevQuiet, PrevInv
  <2>2. QED
    BY <1>25, <1>0, <2>1, PrevQuietStep DEF ThreadEnd, Restart
<1>26. ASSUME SpinTimeout PROVE PrevInv'
  <2>1. \A s \in Threads : PrevQuiet(s)
    BY <1>26, <1>0 DEF SpinTimeout, Check, MainThrows, PrevQuiet, PrevInv
  <2>2. QED
    BY <1>26, <1>0, <2>1, PrevQuietStep DEF SpinTimeout, Restart
<1>27. ASSUME WaitTimeout PROVE PrevInv'
  <2>1. \A s \in Threads : PrevQuiet(s)
    BY <1>27, <1>0 DEF WaitTimeout, MainThrows, PrevQuiet, PrevInv
  <2>2. QED
    BY <1>27, <1>0, <2>1, PrevQuietStep DEF WaitTimeout, Restart
<1>28. ASSUME ElapsedTimeout PROVE PrevInv'
  <2>1. \A s \in Threads : PrevQuiet(s)
    BY <1>28, <1>0 DEF ElapsedTimeout, MainThrows, Signalled, PrevQuiet, PrevInv
  <2>2. QED
    BY <1>28, <1>0, <2>1, PrevQuietStep DEF ElapsedTimeout, Restart
<1>29. ASSUME BeginStatement PROVE PrevInv'
  <2>1. \A s \in Threads : PrevQuiet(s)
    BY <1>29, <1>0 DEF BeginStatement, MainThrows, PrevQuiet, PrevInv
  <2>2. QED
    BY <1>29, <1>0, <2>1, PrevQuietStep DEF BeginStatement, Restart
<1>30. ASSUME ScriptEnd PROVE PrevInv'
  <2>1. \A s \in Threads : PrevQuiet(s)
    BY <1>30, <1>0 DEF ScriptEnd, MainThrows, PrevQuiet, PrevInv
  <2>2. QED
    BY <1>30, <1>0, <2>1, PrevQuietStep DEF ScriptEnd, Restart
<1>31. ASSUME NEW e \in ScriptThrows, ScriptThrow(e) PROVE PrevInv'
  <2>1. \A s \in Threads : PrevQuiet(s)
    BY <1>31, <1>0 DEF ScriptThrow, MainThrows, PrevQuiet, PrevInv
  <2>2. QED
    BY <1>31, <1>0, <2>1, PrevQuietStep DEF ScriptThrow, Restart
<1>32. ASSUME NEW o \in {"next", "TREENODE_COVERED", "REPLAY_FAILS"}, SubmitChoice(o)
       PROVE  PrevInv'
  <2>1. \A s \in Threads : PrevQuiet(s)
    BY <1>32, <1>0 DEF SubmitChoice, ReleaseRef, PrevQuiet, PrevInv
  <2>2. QED
    BY <1>32, <1>0, <2>1, PrevQuietStep DEF SubmitChoice, Restart
<1>33. ASSUME SubmitNode PROVE PrevInv'
  <2>1. \A s \in Threads : PrevQuiet(s)
    BY <1>33, <1>0 DEF SubmitNode, ReleaseRef, PrevQuiet, PrevInv
  <2>2. QED
    BY <1>33, <1>0, <2>1, PrevQuietStep DEF SubmitNode, Restart
<1>34. ASSUME Consumed PROVE PrevInv'
  <2>1. \A s \in Threads : PrevQuiet(s)
    BY <1>34, <1>0 DEF Consumed, ReleaseRef, PrevQuiet, PrevInv
  <2>2. QED
    BY <1>34, <1>0, <2>1, PrevQuietStep DEF Consumed, Restart
<1>35. ASSUME PostScript PROVE PrevInv'
  <2>1. \A s \in Threads : PrevQuiet(s)
    BY <1>35, <1>0 DEF PostScript, MainThrows, Signalled, PrevQuiet, PrevInv
  <2>2. QED
    BY <1>35, <1>0, <2>1, PrevQuietStep DEF PostScript, Restart
<1>36. ASSUME FoundByScript PROVE PrevInv'
  <2>1. \A s \in Threads : PrevQuiet(s)
    BY <1>36, <1>0 DEF FoundByScript, Check, MainThrows, PrevQuiet, PrevInv
  <2>2. QED
    BY <1>36, <1>0, <2>1, PrevQuietStep DEF FoundByScript, Restart
<1>37. ASSUME ForceLock PROVE PrevInv'
  <2>1. \A s \in Threads : PrevQuiet(s)
    BY <1>37, <1>0 DEF ForceLock, PrevQuiet, PrevInv
  <2>2. QED
    BY <1>37, <1>0, <2>1, PrevQuietStep DEF ForceLock, Restart
<1>38. ASSUME FoundByEndSuccess PROVE PrevInv'
  <2>1. \A s \in Threads : PrevQuiet(s)
    BY <1>38, <1>0 DEF FoundByEndSuccess, Check, PrevQuiet, PrevInv
  <2>2. QED
    BY <1>38, <1>0, <2>1, PrevQuietStep DEF FoundByEndSuccess, Restart
<1>39. ASSUME EndSuccess PROVE PrevInv'
  <2>1. \A s \in Threads : PrevQuiet(s)
    BY <1>39, <1>0 DEF EndSuccess, ReleaseRef, PrevQuiet, PrevInv
  <2>2. QED
    BY <1>39, <1>0, <2>1, PrevQuietStep DEF EndSuccess, Restart
<1>40. ASSUME PostSuccess PROVE PrevInv'
  <2>1. \A s \in Threads : PrevQuiet(s)
    BY <1>40, <1>0 DEF PostSuccess, Signalled, PrevQuiet, PrevInv
  <2>2. QED
    BY <1>40, <1>0, <2>1, PrevQuietStep DEF PostSuccess, Restart
<1>41. ASSUME MainNotifyWaiters PROVE PrevInv'
  <2>0. ~Restart
    BY <1>41 DEF Restart, IsAllEnded, MainNotifyWaiters
  <2>1. /\ NumConsumed <= NumConsumed' /\ NumConsumed \in Nat /\ NumConsumed' \in Nat
        /\ \A n \in Nodes : Gone(n) => (n <= NumConsumed' \/ EndPublished')
        /\ EndPublished => EndPublished'
    BY <2>0, <1>0, GoneStays, EndStays DEF Gone
  <2>2. EndPublished'
    BY <1>41, <1>0, <2>1 DEF MainNotifyWaiters, EndSeen, PastEnd
  <2>3. ASSUME NEW s \in Threads
        PROVE  /\ pc'[s] \in {"idle", "ended"} => prev'[s] = NULL
               /\ prev'[s] # NULL => prev'[s] <= NumConsumed' + 1
               /\ goal'[s] = "transition"
                    => pc'[s] \notin {"hold", "lock", "release", "post"} \/
                    (pc'[s] = pc[s] /\ goal[s] = "transition" /\ node'[s] = node[s]
                      /\ out'[s] = out[s])
    BY <1>41, <1>0, <2>1 DEF MainNotifyWaiters, Broadcast, Return, PrevInv, Nodes
  <2>4. \A s \in Threads : goal'[s] = "transition" =>
          /\ pc'[s] \in {"hold", "lock", "release", "post"} => node'[s] <= NumConsumed' + 1
          /\ pc'[s] = "post" /\ out'[s] \in Consuming => node'[s] <= NumConsumed'
    BY <1>0, <2>1, <2>3 DEF PrevInv, TypeInv, NoAbort, Nodes
  <2>5. QED
    BY <2>2, <2>3, <2>4 DEF PrevInv, Gone
<1>42. ASSUME RunUncontrolled PROVE PrevInv'
  <2>1. \A s \in Threads : PrevQuiet(s)
    BY <1>42, <1>0 DEF RunUncontrolled, PrevQuiet, PrevInv
  <2>2. QED
    BY <1>42, <1>0, <2>1, PrevQuietStep DEF RunUncontrolled, Restart
<1>43. ASSUME JoinAllThreads PROVE PrevInv'
  <2>1. \A s \in Threads : PrevQuiet(s)
    BY <1>43, <1>0 DEF JoinAllThreads, PrevQuiet, PrevInv
  <2>2. QED
    BY <1>43, <1>0, <2>1, PrevQuietStep DEF JoinAllThreads, Restart
<1>44. ASSUME JoinDeadlock PROVE PrevInv'
  <2>1. \A s \in Threads : PrevQuiet(s)
    BY <1>44, <1>0 DEF JoinDeadlock, AddException, PrevQuiet, PrevInv
  <2>2. QED
    BY <1>44, <1>0, <2>1, PrevQuietStep DEF JoinDeadlock, Restart
<1>45. ASSUME EndSearch PROVE PrevInv'
  <2>1. \A s \in Threads : PrevQuiet(s)
    BY <1>45, <1>0 DEF EndSearch, PrevQuiet, PrevInv
  <2>2. QED
    BY <1>45, <1>0, <2>1, PrevQuietStep DEF EndSearch, Restart
<1>46. ASSUME Restart PROVE PrevInv'
  <2>1. \A t \in Threads : pc'[t] = "idle" /\ prev'[t] = NULL
    BY <1>46, <1>0 DEF Restart, IsAllEnded, PrevInv
  <2>2. QED
    BY <2>1 DEF PrevInv
<1>47. ASSUME StartUnreachable PROVE PrevInv'
  <2>1. \A s \in Threads : PrevQuiet(s)
    BY <1>47, <1>0 DEF StartUnreachable, Check, PrevQuiet, PrevInv
  <2>2. QED
    BY <1>47, <1>0, <2>1, PrevQuietStep DEF StartUnreachable, Restart
<1>48. CASE UNCHANGED vars
  <2>1. \A t \in Threads : PrevQuiet(t)
    BY <1>48 DEF PrevQuiet, PrevInv, vars
  <2>2. ~Restart
    BY <1>48 DEF Restart, vars
  <2>3. QED
    BY <1>0, <2>1, <2>2, PrevQuietStep
<1>49. QED
  BY <1>1, <1>2, <1>3, <1>4, <1>5, <1>6, <1>7, <1>8, <1>9, <1>10, <1>11, <1>12,
     <1>13, <1>14, <1>15, <1>16, <1>17, <1>18, <1>19, <1>20, <1>21, <1>22,
     <1>23, <1>24, <1>25, <1>26, <1>27, <1>28, <1>29, <1>30, <1>31, <1>32,
     <1>33, <1>34, <1>35, <1>36, <1>37, <1>38, <1>39, <1>40, <1>41, <1>42,
     <1>43, <1>44, <1>45, <1>46, <1>47, <1>48
  DEF Next, AcquireStep, EndStep, ThreadStep, MainStep

\* No step fails a safe_assert.  The asserts of the lock hold in the next state
\* by LockStep; the others follow from the control points.
LEMMA NoAbortStep ==
  ASSUME ~SlowHolders, RendezvousInv, LockInv', ExcInv, PrevInv, NoAbort, [Next]_vars
  PROVE  NoAbort'
<1> USE RendezvousAssumption
<1>0. /\ aborted = "none" /\ aborted' \notin {"DoubleLock", "OnLock", "ReleaseRef"}
      /\ TypeInv /\ TypeOK /\ LockInv /\ ScriptInv /\ EndSeen
  BY DEF RendezvousInv, TypeInv, NoAbort, LockInv, LockAsserts
<1>1. ASSUME NEW c \in Coroutines, Exchange(c) PROVE aborted' = "none"
  BY <1>1, <1>0 DEF Exchange
<1>2. ASSUME NEW c \in Coroutines, ExchangeOwned(c) PROVE aborted' = "none"
  BY <1>2, <1>0 DEF ExchangeOwned, Check, LockAsserts
<1>3. ASSUME NEW c \in Coroutines, ResolveLock(c) PROVE aborted' = "none"
  BY <1>3, <1>0 DEF ResolveLock, Check, LockAsserts
<1>4. ASSUME NEW c \in Coroutines, ResolveRestore(c) PROVE aborted' = "none"
  BY <1>4, <1>0 DEF ResolveRestore
<1>5. ASSUME NEW c \in Coroutines, ResolveEnd(c) PROVE aborted' = "none"
  BY <1>5, <1>0 DEF ResolveEnd
<1>6. ASSUME NEW c \in Coroutines, SemWait(c) PROVE aborted' = "none"
  BY <1>6, <1>0 DEF SemWait
<1>7. ASSUME NEW c \in Coroutines, SemSignal(c) PROVE aborted' = "none"
  BY <1>7, <1>0 DEF SemSignal
<1>8. ASSUME NEW c \in Coroutines, FoundByException(c) PROVE aborted' = "none"
  BY <1>8, <1>0 DEF FoundByException
<1>9. ASSUME NEW c \in Coroutines, WriteException(c) PROVE aborted' = "none"
  BY <1>9, <1>0 DEF WriteException
<1>10. ASSUME NEW c \in Coroutines, InsertEnd(c) PROVE aborted' = "none"
  BY <1>10, <1>0 DEF Check, InsertEnd, ReleaseRef, LockAsserts
<1>11. ASSUME NEW c \in Coroutines, PostException(c) PROVE aborted' = "none"
  BY <1>11, <1>0 DEF PostException
<1>12. ASSUME NEW t \in Threads, BeginTransition(t) PROVE aborted' = "none"
  BY <1>12, <1>0 DEF BeginTransition
<1>13. ASSUME NEW t \in Threads, FoundByTransition(t) PROVE aborted' = "none"
  BY <1>13, <1>0 DEF FoundByTransition
<1>14. ASSUME NEW t \in Threads, Eval(t) PROVE aborted' = "none"
  <2>1. goal[t] = "transition" /\ pc[t] = "hold"
    BY <1>14 DEF Eval
  <2>2. node[t] \in Nodes /\ HoldsRef(t) /\ Offered(node[t])
    BY <1>0, <2>1 DEF TypeInv, Offered, HoldsRef
  <2>3. node[t] = NumConsumed + 1 /\ NumConsumed \in Nat
    BY <1>0, <2>1, <2>2, NumConsumedType DEF ScriptInv, OfferInv, Nodes
  <2>4. ~EndPublished
    BY <1>0, <2>2, NoOfferAtEnd
  <2>5. ASSUME NEW s \in Threads, pc[s] = "release" PROVE FALSE
    BY <1>0, <2>1, <2>2, <2>5 DEF LockInv, LockExclusion, HoldsRef
  <2>6. node[t] # prev[t]
    BY <2>1, <2>2, <2>3, <2>4, <2>5 DEF PrevInv, Gone, Nodes
  <2>7. QED
    BY <1>14, <1>0, <2>6 DEF Eval, Check
<1>15. ASSUME NEW t \in Threads, EvalViolation(t) PROVE aborted' = "none"
  BY <1>15, <1>0 DEF EvalViolation
<1>16. ASSUME NEW t \in Threads, LockMutex(t) PROVE aborted' = "none"
  BY <1>16, <1>0 DEF LockMutex
<1>17. ASSUME NEW t \in Threads, ReleaseTransition(t) PROVE aborted' = "none"
  BY <1>17, <1>0 DEF Check, ReleaseTransition, ReleaseRef, LockAsserts
<1>18. ASSUME NEW t \in Threads, PostTransition(t) PROVE aborted' = "none"
  BY <1>18, <1>0 DEF PostTransition
<1>19. ASSUME NEW t \in Threads, Park(t) PROVE aborted' = "none"
  BY <1>19, <1>0 DEF Park
<1>20. ASSUME NEW t \in Threads, CondTimeout(t) PROVE aborted' = "none"
  BY <1>20, <1>0 DEF CondTimeout
<1>21. ASSUME NEW t \in Threads, CondSpurious(t) PROVE aborted' = "none"
  BY <1>21, <1>0 DEF CondSpurious
<1>22. ASSUME NEW t \in Threads, Reacquire(t) PROVE aborted' = "none"
  BY <1>22, <1>0 DEF Reacquire
<1>23. ASSUME NEW t \in Threads, NEW e \in SutCalls, Raise(t, e) PROVE aborted' = "none"
  BY <1>23, <1>0 DEF Raise
<1>24. ASSUME NEW t \in Threads, NotifyWaiters(t) PROVE aborted' = "none"
  BY <1>24, <1>0 DEF NotifyWaiters
<1>25. ASSUME NEW t \in Threads, ThreadEnd(t) PROVE aborted' = "none"
  BY <1>25, <1>0 DEF ThreadEnd
<1>26. ASSUME SpinTimeout PROVE aborted' = "none"
  BY <1>26 DEF SpinTimeout
<1>27. ASSUME WaitTimeout PROVE aborted' = "none"
  BY <1>27, <1>0 DEF WaitTimeout
<1>28. ASSUME ElapsedTimeout PROVE aborted' = "none"
  BY <1>28, <1>0 DEF ElapsedTimeout
<1>29. ASSUME BeginStatement PROVE aborted' = "none"
  BY <1>29, <1>0 DEF BeginStatement
<1>30. ASSUME ScriptEnd PROVE aborted' = "none"
  BY <1>30, <1>0 DEF ScriptEnd
<1>31. ASSUME NEW e \in ScriptThrows, ScriptThrow(e) PROVE aborted' = "none"
  BY <1>31, <1>0 DEF ScriptThrow
<1>32. ASSUME NEW o \in {"next", "TREENODE_COVERED", "REPLAY_FAILS"}, SubmitChoice(o)
       PROVE  aborted' = "none"
  BY <1>32, <1>0 DEF Check, SubmitChoice, ReleaseRef, LockAsserts
<1>33. ASSUME SubmitNode PROVE aborted' = "none"
  BY <1>33, <1>0 DEF Check, SubmitNode, ReleaseRef, LockAsserts
<1>34. ASSUME Consumed PROVE aborted' = "none"
  BY <1>34, <1>0 DEF Check, Consumed, ReleaseRef, LockAsserts
<1>35. ASSUME PostScript PROVE aborted' = "none"
  BY <1>35, <1>0 DEF PostScript
<1>36. ASSUME FoundByScript PROVE aborted' = "none"
  <2>1. pc[Main] = "found" /\ ~MainEnds
    BY <1>36 DEF FoundByScript
  <2>2. PathEnded
    BY <1>0, <2>1 DEF EndSeen, PastEnd, EndPublished, ScriptInv, EndInv
  <2>3. exc # "none"
    BY <2>1, <2>2 DEF ExcInv
  <2>4. QED
    BY <1>36, <1>0, <2>2, <2>3 DEF FoundByScript, Check
<1>37. ASSUME ForceLock PROVE aborted' = "none"
  BY <1>37, <1>0 DEF ForceLock
<1>38. ASSUME FoundByEndSuccess PROVE aborted' = "none"
  <2>1. ~MainEnds
    BY <1>38 DEF FoundByEndSuccess
  <2>2. EndReason = "EXCEPTION"
    BY <2>1 DEF ExcInv, EndReason
  <2>3. QED
    BY <1>38, <1>0, <2>2 DEF FoundByEndSuccess, Check
<1>39. ASSUME EndSuccess PROVE aborted' = "none"
  BY <1>39, <1>0 DEF Check, EndSuccess, ReleaseRef, LockAsserts
<1>40. ASSUME PostSuccess PROVE aborted' = "none"
  BY <1>40, <1>0 DEF PostSuccess
<1>41. ASSUME MainNotifyWaiters PROVE aborted' = "none"
  BY <1>41, <1>0 DEF MainNotifyWaiters
<1>42. ASSUME RunUncontrolled PROVE aborted' = "none"
  BY <1>42, <1>0 DEF RunUncontrolled
<1>43. ASSUME JoinAllThreads PROVE aborted' = "none"
  BY <1>43, <1>0 DEF JoinAllThreads
<1>44. ASSUME JoinDeadlock PROVE aborted' = "none"
  BY <1>44, <1>0 DEF JoinDeadlock
<1>45. ASSUME EndSearch PROVE aborted' = "none"
  BY <1>45, <1>0 DEF EndSearch
<1>46. ASSUME Restart PROVE aborted' = "none"
  BY <1>46, <1>0 DEF Restart
<1>47. ASSUME StartUnreachable PROVE aborted' = "none"
  BY <1>47 DEF StartUnreachable, ExcInv
<1>48. CASE UNCHANGED vars
  BY <1>48, <1>0 DEF vars, NoAbort
<1>49. QED
  BY <1>1, <1>2, <1>3, <1>4, <1>5, <1>6, <1>7, <1>8, <1>9, <1>10, <1>11, <1>12,
     <1>13, <1>14, <1>15, <1>16, <1>17, <1>18, <1>19, <1>20, <1>21, <1>22,
     <1>23, <1>24, <1>25, <1>26, <1>27, <1>28, <1>29, <1>30, <1>31, <1>32,
     <1>33, <1>34, <1>35, <1>36, <1>37, <1>38, <1>39, <1>40, <1>41, <1>42,
     <1>43, <1>44, <1>45, <1>46, <1>47, <1>48
  DEF NoAbort, Next, AcquireStep, EndStep, ThreadStep, MainStep

\* No safe_assert of the rendezvous fails when the threads of the program raise
\* only assertion violations, no wait wakes spuriously, no coroutine keeps the ref
\* longer than MaxWaitTimeUSecs and every thread ends: what rendezvous_live checks
\* for one script and two threads holds for every script and any number of threads.
THEOREM NoAbortCorrect ==
  ASSUME SutCalls \subseteq {"ASSERTION"}, ~SpuriousWakeups, ~SlowHolders, ~SutMayHang
  PROVE  Spec => []NoAbort
<1> DEFINE Safe == RendezvousInv /\ ExcInv /\ PrevInv /\ NoAbort
<1>1. Init /\ RendezvousInv => Safe
  <2>1. SUFFICES ASSUME Init, RendezvousInv PROVE ExcInv /\ PrevInv /\ NoAbort
    OBVIOUS
  <2>2. exc = "none" /\ ~PathEnded /\ \A c \in Coroutines : pc[c] = "idle" /\ prev[c] = NULL
    BY <2>1 DEF Init, PathEnded
  <2>3. "none" \notin BacktrackReasons
    BY DEF BacktrackReasons
  <2>4. ExcInv
    BY <2>2, <2>3 DEF ExcInv
  <2>5. PrevInv
    BY <2>2 DEF PrevInv
  <2>6. QED
    BY <2>1, <2>4, <2>5 DEF Init, NoAbort
<1>2. Safe /\ RendezvousInv' /\ [Next]_vars => Safe'
  <2>1. SUFFICES ASSUME Safe, RendezvousInv', [Next]_vars PROVE Safe'
    OBVIOUS
  <2>2. ExcInv' /\ PrevInv'
    BY <2>1, ExcStep, PrevStep
  <2>3. LockInv'
    BY <2>1 DEF RendezvousInv
  <2>4. QED
    BY <2>1, <2>2, <2>3, NoAbortStep
<1>3. Spec => []RendezvousInv
  BY RendezvousInvariant
<1>4. QED
  BY <1>1, <1>2, <1>3, PTL DEF Spec
=============================================================================
